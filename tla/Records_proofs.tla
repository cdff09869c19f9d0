----------------------------- MODULE Records_proofs -----------------------------
(***************************************************************************)
(* Proofs about the data platform and the master data, for every number of *)
(* sessions, revisions, work orders, batches and samples.  The three parts *)
(* share no variable the invariants mention, so each has an inductive       *)
(* invariant of its own: revisions and releases, the Redis projection, and  *)
(* telemetry with retention.                                               *)
(***************************************************************************)
EXTENDS MasterData, FiniteSetTheorems, TLAPS

-----------------------------------------------------------------------------
(* Revisions and releases *)

Statuses == {Absent, "draft", "approved", "effective", "superseded"}
Kinds == {"bom", "routing", "document"}
Ops == {Absent, "approved", "effective", "release"}
Phases == {Absent, "read", "superseded", "bom", "routing", "document", "people", "update"}
Desk == [op : Ops, on : Revisions \cup Works \cup {Absent}, phase : Phases,
         hold : SUBSET Revisions, blocked : SUBSET Revisions]
Order == [status : {Absent, "draft", "released"}, revs : SUBSET Revisions]

RevisionTypes ==
    /\ rev \in [Revisions -> Statuses] /\ desk \in [Clients -> Desk]
    /\ work \in [Works -> Order] /\ released \in [Works -> Nat] /\ lapsed \in BOOLEAN

\* No two effective revisions of one thing
Sole == \A r, s \in Revisions :
           Kind[r] = Kind[s] /\ rev[r] = "effective" /\ rev[s] = "effective" => r = s

\* What was superseded has a successor
Succeeded == \A r \in Revisions :
                rev[r] = "superseded"
                   => lapsed \/ \E s \in Revisions : Kind[s] = Kind[r] /\ rev[s] = "effective"

\* An open request has read a row that exists, and locks only siblings of its revision
Bound(d) ==
    /\ d.op \in {"approved", "effective"} => d.on \in Revisions /\ d.phase \in {"read", "superseded"}
    /\ d.op = "release" => /\ d.on \in Works /\ work[d.on].status # Absent
                           /\ d.phase \in {"bom", "routing", "document", "people", "update"}
    /\ d.op = Absent => d.phase = Absent
    /\ d.phase = "superseded" => d.hold \subseteq Siblings(d.on)

\* The kinds of bound revisions a release has read
Checked(phase) == CASE phase = "routing" -> {"bom"}
                    [] phase = "document" -> {"bom", "routing"}
                    [] phase \in {"people", "update"} -> {"bom", "routing", "document"}
                    [] OTHER -> {}

\* No transition has committed since: what was read as effective is
Validated(c, d) ==
    d.op = "release" /\ c \notin crossed
       => \A r \in work[d.on].revs : Kind[r] \in Checked(d.phase) => rev[r] = "effective"

ReleasedOnce == \A w \in Works : work[w].status # "released" => released[w] = 0

RevisionInv ==
    /\ RevisionTypes /\ Sole /\ Succeeded /\ ReleasedOnce
    /\ \A c \in Clients : Bound(desk[c]) /\ Validated(c, desk[c])

\* The record of a session without a request is well typed.
LEMMA IdleDesk ==
    /\ Idle \in Desk /\ Idle.op = Absent /\ Idle.phase = Absent
    /\ NoWork \in Order /\ NoWork.status = Absent
BY DEF Idle, Desk, NoWork, Order, Ops, Phases, Absent

\* A request of one session moves on, and nothing else changes: the others keep what they
\* have read.
LEMMA DeskMoves ==
    ASSUME RevisionInv, UNCHANGED <<rev, work, released, lapsed>>
    PROVE  \A c \in Clients : \A d \in Desk :
              /\ desk' = [desk EXCEPT ![c] = d] /\ crossed \ {c} \subseteq crossed'
              /\ Bound(d) /\ Validated(c, d)'
              => RevisionInv'
<1> SUFFICES ASSUME NEW c \in Clients, NEW d \in Desk, desk' = [desk EXCEPT ![c] = d],
                    crossed \ {c} \subseteq crossed', Bound(d), Validated(c, d)'
             PROVE  RevisionInv'
  OBVIOUS
<1>1. RevisionTypes' /\ Sole' /\ Succeeded' /\ ReleasedOnce'
  BY DEF RevisionInv, RevisionTypes, Sole, Succeeded, ReleasedOnce
<1>2. ASSUME NEW b \in Clients PROVE Bound(desk[b])' /\ Validated(b, desk[b])'
  <2>1. CASE b = c
    <3>1. desk'[b] = d BY <2>1 DEF RevisionInv, RevisionTypes
    <3> QED BY <2>1, <3>1 DEF Bound, Validated, Siblings
  <2>2. CASE b # c
    <3>1. desk'[b] = desk[b] BY <2>2 DEF RevisionInv, RevisionTypes
    <3>2. Bound(desk[b]) /\ Validated(b, desk[b]) /\ (b \in crossed => b \in crossed')
      BY <2>2 DEF RevisionInv
    <3> QED BY <3>1, <3>2 DEF Bound, Validated, Siblings
  <2> QED BY <2>1, <2>2
<1> QED BY <1>1, <1>2 DEF RevisionInv

\* A session gives its request up.
LEMMA DeskIdle ==
    ASSUME RevisionInv, UNCHANGED <<rev, work, released, lapsed, crossed>>
    PROVE  \A c \in Clients : desk' = [desk EXCEPT ![c] = Idle] => RevisionInv'
<1>1. Bound(Idle) BY IdleDesk DEF Bound, Absent
<1>2. \A c \in Clients : Validated(c, Idle)' BY IdleDesk DEF Validated, Absent
<1> QED BY <1>1, <1>2, DeskMoves, IdleDesk

\* Reading a revision opens a transition.
LEMMA BeginTransitionKeeps ==
    ASSUME RevisionInv, NEW c \in Clients, NEW r \in Revisions,
           NEW to \in {"approved", "effective"}, BeginTransition(c, r, to)
    PROVE  RevisionInv'
<1>1. LET d == [Idle EXCEPT !.op = to, !.on = r, !.phase = "read"]
      IN  d \in Desk /\ d.op = to /\ d.on = r /\ d.phase = "read"
  BY DEF Idle, Desk, Ops, Phases
<1>2. PICK d \in Desk : /\ d = [Idle EXCEPT !.op = to, !.on = r, !.phase = "read"]
                        /\ d.op = to /\ d.on = r /\ d.phase = "read"
  BY <1>1
<1>3. Bound(d) /\ Validated(c, d)' BY <1>2 DEF Bound, Validated, Absent
<1> QED BY <1>2, <1>3, DeskMoves DEF BeginTransition

\* The superseding update locks siblings only.
LEMMA SupersedeKeeps ==
    ASSUME RevisionInv, NEW c \in Clients, Supersede(c)
    PROVE  RevisionInv'
<1>0. desk[c] \in Desk /\ Bound(desk[c]) BY DEF RevisionInv, RevisionTypes
<1>1. PICK H \in SUBSET Revisions, B \in SUBSET Revisions :
         /\ H \subseteq Siblings(desk[c].on)
         /\ desk' = [desk EXCEPT ![c].phase = "superseded", ![c].hold = H, ![c].blocked = B]
  <2> DEFINE E == {s \in Siblings(desk[c].on) : rev[s] = "effective"}
  <2>1. E \ HeldByOthers(c) \in SUBSET Revisions /\ E \cap HeldByOthers(c) \in SUBSET Revisions
        /\ E \ HeldByOthers(c) \subseteq Siblings(desk[c].on)
    BY DEF Siblings
  <2> QED BY <2>1 DEF Supersede
<1>2. LET d == [desk[c] EXCEPT !.phase = "superseded", !.hold = H, !.blocked = B]
      IN  /\ d \in Desk /\ d.op = desk[c].op /\ d.on = desk[c].on
          /\ d.phase = "superseded" /\ d.hold = H
  BY <1>0 DEF Desk, Phases
<1>3. PICK d \in Desk :
         /\ d = [desk[c] EXCEPT !.phase = "superseded", !.hold = H, !.blocked = B]
         /\ d.op = desk[c].op /\ d.on = desk[c].on /\ d.phase = "superseded" /\ d.hold = H
  BY <1>2
<1>4. desk' = [desk EXCEPT ![c] = d] BY <1>1, <1>3 DEF RevisionInv, RevisionTypes
<1>5. desk[c].op = "effective" BY DEF Supersede
<1>6. Bound(d) BY <1>0, <1>1, <1>3, <1>5 DEF Bound, Absent
<1>7. Validated(c, d)' BY <1>3, <1>5 DEF Validated
<1> QED BY <1>4, <1>6, <1>7, DeskMoves DEF Supersede

\* A draft, or the draft of an approval, is neither effective nor superseded.
LEMMA RevisionMoves ==
    ASSUME RevisionInv, UNCHANGED <<work, released, lapsed, crossed>>, NEW r \in Revisions,
           rev[r] \in {Absent, "draft"}, NEW t \in {"draft", "approved"},
           rev' = [rev EXCEPT ![r] = t],
           desk' = desk \/ \E c \in Clients : desk' = [desk EXCEPT ![c] = Idle]
    PROVE  RevisionInv'
<1>1. /\ rev' \in [Revisions -> Statuses] /\ rev'[r] = t
      /\ \A s \in Revisions : s # r => rev'[s] = rev[s]
  BY DEF RevisionInv, RevisionTypes, Statuses
<1>2. RevisionTypes' BY <1>1, IdleDesk DEF RevisionInv, RevisionTypes
<1>3. \A s \in Revisions : /\ rev'[s] = "effective" <=> rev[s] = "effective"
                           /\ rev'[s] = "superseded" <=> rev[s] = "superseded"
  BY <1>1 DEF Absent
<1>4. Sole' /\ Succeeded' /\ ReleasedOnce'
  BY <1>3 DEF RevisionInv, Sole, Succeeded, ReleasedOnce
<1>5. ASSUME NEW b \in Clients PROVE Bound(desk[b])' /\ Validated(b, desk[b])'
  <2>1. desk'[b] = desk[b] \/ desk'[b] = Idle BY DEF RevisionInv, RevisionTypes
  <2>2. CASE desk'[b] = Idle BY <2>2, IdleDesk DEF Bound, Validated, Absent
  <2>3. CASE desk'[b] = desk[b]
    <3>1. Bound(desk[b]) /\ Validated(b, desk[b]) BY DEF RevisionInv
    <3>2. Bound(desk[b])' BY <2>3, <3>1 DEF Bound, Siblings
    <3>3. Validated(b, desk[b])'
      <4> SUFFICES ASSUME desk[b].op = "release", b \notin crossed,
                          NEW s \in work[desk[b].on].revs, Kind[s] \in Checked(desk[b].phase)
                   PROVE  rev'[s] = "effective"
        BY <2>3 DEF Validated
      <4>1. s \in Revisions /\ rev[s] = "effective"
        BY <3>1 DEF Bound, Validated, RevisionInv, RevisionTypes, Order
      <4> QED BY <1>3, <4>1
    <3> QED BY <3>2, <3>3
  <2> QED BY <2>1, <2>2, <2>3
<1> QED BY <1>2, <1>4, <1>5 DEF RevisionInv

\* Activating a revision: the unique index leaves it alone of its kind, the superseded
\* siblings have it as their successor, and every release under way is crossed.
LEMMA CommitEffectiveKeeps ==
    ASSUME RevisionInv, NEW c \in Clients, CommitEffective(c)
    PROVE  RevisionInv'
<1>1. desk[c] \in Desk /\ Bound(desk[c]) /\ desk[c].phase = "superseded"
  BY DEF RevisionInv, RevisionTypes, CommitEffective
<1>2. PICK r \in Revisions, H \in SUBSET Revisions :
         r = desk[c].on /\ H = desk[c].hold /\ H \subseteq Siblings(r)
  <2>1. desk[c].op \in Ops /\ desk[c].hold \in SUBSET Revisions BY <1>1 DEF Desk
  <2>2. desk[c].on \in Revisions BY <1>1, <2>1 DEF Bound, Ops, Absent
  <2> QED BY <1>1, <2>1, <2>2 DEF Bound
<1>3. /\ rev' = [s \in Revisions |->
                   IF s = r /\ rev[r] = "approved" THEN "effective"
                   ELSE IF s \in H THEN "superseded" ELSE rev[s]]
      /\ lapsed' = (lapsed \/ rev[r] # "approved")
      /\ crossed' = crossed \cup {d \in Clients : desk[d].op = "release"}
      /\ desk' = [desk EXCEPT ![c] = Idle] /\ UNCHANGED <<work, released>>
  BY <1>2 DEF CommitEffective
<1>4. RevisionTypes'
  BY <1>3, IdleDesk DEF RevisionInv, RevisionTypes, Statuses
<1>5. \A s \in H : s \in Revisions /\ Kind[s] = Kind[r] /\ s # r BY <1>2 DEF Siblings
<1>6. ASSUME rev[r] = "approved" PROVE Sole' /\ Succeeded'
  <2>1. \A s \in Revisions : Kind[s] = Kind[r] /\ s # r /\ rev[s] = "effective" => s \in H
    BY <1>2, <1>6 DEF CommitEffective, UniqueEffective, Siblings
  <2>2. /\ rev'[r] = "effective"
        /\ \A s \in Revisions : s # r => rev'[s] = IF s \in H THEN "superseded" ELSE rev[s]
    BY <1>3, <1>6
  <2>3. Sole'
    <3> SUFFICES ASSUME NEW a \in Revisions, NEW b \in Revisions, Kind[a] = Kind[b],
                        rev'[a] = "effective", rev'[b] = "effective"
                 PROVE  a = b
      BY DEF Sole
    <3>1. \A s \in Revisions : s # r /\ rev'[s] = "effective"
                                 => rev[s] = "effective" /\ Kind[s] # Kind[r]
      BY <2>1, <2>2
    <3> QED BY <3>1 DEF RevisionInv, Sole
  <2>4. Succeeded'
    <3> SUFFICES ASSUME NEW a \in Revisions, rev'[a] = "superseded", ~lapsed'
                 PROVE  \E s \in Revisions : Kind[s] = Kind[a] /\ rev'[s] = "effective"
      BY DEF Succeeded
    <3>1. CASE Kind[a] = Kind[r] BY <2>2, <3>1
    <3>2. CASE Kind[a] # Kind[r]
      <4>1. rev[a] = "superseded" /\ ~lapsed BY <1>3, <1>5, <2>2, <3>2
      <4>2. PICK s \in Revisions : Kind[s] = Kind[a] /\ rev[s] = "effective"
        BY <4>1 DEF RevisionInv, Succeeded
      <4>3. rev'[s] = "effective" BY <1>5, <2>2, <3>2, <4>2
      <4> QED BY <4>2, <4>3
    <3> QED BY <3>1, <3>2
  <2> QED BY <2>3, <2>4
<1>7. ASSUME rev[r] # "approved" PROVE Sole' /\ Succeeded'
  <2>1. \A s \in Revisions : rev'[s] = "effective" => rev[s] = "effective" BY <1>3, <1>7
  <2>2. lapsed' BY <1>3, <1>7
  <2>3. Succeeded' BY <2>2 DEF Succeeded
  <2>4. Sole' BY <2>1 DEF RevisionInv, Sole
  <2> QED BY <2>3, <2>4
<1>8. ReleasedOnce' BY <1>3 DEF RevisionInv, ReleasedOnce
<1>9. ASSUME NEW b \in Clients PROVE Bound(desk[b])' /\ Validated(b, desk[b])'
  <2>1. desk'[b] = Idle \/ desk'[b] = desk[b] BY <1>3 DEF RevisionInv, RevisionTypes
  <2>2. CASE desk'[b] = Idle BY <2>2, IdleDesk DEF Bound, Validated, Absent
  <2>3. CASE desk'[b] = desk[b]
    <3>1. Bound(desk[b]) BY DEF RevisionInv
    <3>2. Bound(desk[b])' BY <1>3, <2>3, <3>1 DEF Bound, Siblings
    <3>3. Validated(b, desk[b])' BY <1>3, <2>3 DEF Validated
    <3> QED BY <3>2, <3>3
  <2> QED BY <2>1, <2>2, <2>3
<1> QED BY <1>4, <1>6, <1>7, <1>8, <1>9 DEF RevisionInv

\* A work order that is created is nobody's yet.
LEMMA CreateWorkOrderKeeps ==
    ASSUME RevisionInv, NEW w \in Works, NEW revs \in SUBSET Revisions,
           CreateWorkOrder(w, revs)
    PROVE  RevisionInv'
<1>1. /\ work' = [work EXCEPT ![w] = [status |-> "draft", revs |-> revs]]
      /\ UNCHANGED <<rev, desk, released, lapsed, crossed>> /\ work[w].status = Absent
  BY IdleDesk DEF CreateWorkOrder
<1>2. /\ work' \in [Works -> Order] /\ work'[w].status = "draft"
      /\ \A v \in Works : v # w => work'[v] = work[v]
  BY <1>1 DEF RevisionInv, RevisionTypes, Order
<1>3. RevisionTypes' /\ Sole' /\ Succeeded'
  BY <1>1, <1>2 DEF RevisionInv, RevisionTypes, Sole, Succeeded
<1>4. ReleasedOnce' BY <1>1, <1>2 DEF RevisionInv, ReleasedOnce, Absent
<1>5. ASSUME NEW b \in Clients PROVE Bound(desk[b])' /\ Validated(b, desk[b])'
  <2>1. Bound(desk[b]) /\ Validated(b, desk[b]) BY DEF RevisionInv
  <2>2. desk[b].op = "release" => desk[b].on \in Works /\ desk[b].on # w
    BY <1>1, <2>1 DEF Bound
  <2>3. Bound(desk[b])' BY <1>1, <1>2, <2>1, <2>2 DEF Bound, Siblings
  <2>4. Validated(b, desk[b])' BY <1>1, <1>2, <2>1, <2>2 DEF Validated
  <2> QED BY <2>3, <2>4
<1> QED BY <1>3, <1>4, <1>5 DEF RevisionInv

\* A release that begins has checked nothing.
LEMMA BeginReleaseKeeps ==
    ASSUME RevisionInv, NEW c \in Clients, NEW w \in Works, BeginRelease(c, w)
    PROVE  RevisionInv'
<1>1. LET d == [Idle EXCEPT !.op = "release", !.on = w, !.phase = "bom"]
      IN  d \in Desk /\ d.op = "release" /\ d.on = w /\ d.phase = "bom"
  BY DEF Idle, Desk, Ops, Phases
<1>2. PICK d \in Desk : /\ d = [Idle EXCEPT !.op = "release", !.on = w, !.phase = "bom"]
                        /\ d.op = "release" /\ d.on = w /\ d.phase = "bom"
  BY <1>1
<1>3. Bound(d) BY <1>2 DEF Bound, BeginRelease, Absent
<1>4. Checked("bom") = {} BY DEF Checked
<1>5. Validated(c, d)' BY <1>2, <1>4 DEF Validated
<1> QED BY <1>2, <1>3, <1>5, DeskMoves DEF BeginRelease

\* A release that advances has read the bound revisions of one more kind as effective.
LEMMA ReleaseAdvances ==
    ASSUME RevisionInv, UNCHANGED <<rev, work, released, lapsed, crossed>>
    PROVE  \A c \in Clients : \A q \in {"routing", "document", "people", "update"} :
              /\ desk[c].op = "release" /\ desk' = [desk EXCEPT ![c].phase = q]
              /\ \A r \in work[desk[c].on].revs :
                    Kind[r] \in Checked(q) \ Checked(desk[c].phase) => rev[r] = "effective"
              => RevisionInv'
<1> SUFFICES ASSUME NEW c \in Clients, NEW q \in {"routing", "document", "people", "update"},
                    desk[c].op = "release", desk' = [desk EXCEPT ![c].phase = q],
                    \A r \in work[desk[c].on].revs :
                       Kind[r] \in Checked(q) \ Checked(desk[c].phase) => rev[r] = "effective"
             PROVE  RevisionInv'
  OBVIOUS
<1>1. desk[c] \in Desk /\ Bound(desk[c]) /\ Validated(c, desk[c])
  BY DEF RevisionInv, RevisionTypes
<1>2. LET d == [desk[c] EXCEPT !.phase = q]
      IN  d \in Desk /\ d.op = desk[c].op /\ d.on = desk[c].on /\ d.phase = q
  BY <1>1 DEF Desk, Phases
<1>3. PICK d \in Desk : /\ d = [desk[c] EXCEPT !.phase = q]
                        /\ d.op = desk[c].op /\ d.on = desk[c].on /\ d.phase = q
  BY <1>2
<1>4. desk' = [desk EXCEPT ![c] = d] BY <1>3 DEF RevisionInv, RevisionTypes
<1>5. Bound(d) BY <1>1, <1>3 DEF Bound, Absent
<1>6. Validated(c, d)' BY <1>1, <1>3 DEF Validated
<1> QED BY <1>4, <1>5, <1>6, DeskMoves

\* Reading the bound revisions of a kind.
LEMMA CheckBoundKeeps ==
    ASSUME RevisionInv, NEW c \in Clients, CheckBound(c)
    PROVE  RevisionInv'
<1>1. PICK p \in {"bom", "routing", "document"} : p = desk[c].phase
  BY DEF CheckBound, AfterCheck
<1>2. PICK q \in {"routing", "document", "people", "update"} :
         q = AfterCheck[p] /\ Checked(q) \subseteq Checked(p) \cup {p}
  BY <1>1 DEF AfterCheck, Checked
<1>3. /\ desk[c].op = "release" /\ desk' = [desk EXCEPT ![c].phase = q]
      /\ \A r \in work[desk[c].on].revs : Kind[r] = p => rev[r] = "effective"
      /\ UNCHANGED <<rev, work, released, lapsed, crossed>>
  BY <1>1, <1>2 DEF CheckBound
<1> QED BY <1>1, <1>2, <1>3, ReleaseAdvances

\* Reading equipment and qualifications.
LEMMA CheckOperationsKeeps ==
    ASSUME RevisionInv, NEW c \in Clients, CheckOperations(c)
    PROVE  RevisionInv'
<1>1. Checked("update") = Checked("people") BY DEF Checked
<1>2. /\ desk[c].op = "release" /\ desk' = [desk EXCEPT ![c].phase = "update"]
      /\ UNCHANGED <<rev, work, released, lapsed, crossed>> /\ desk[c].phase = "people"
  BY DEF CheckOperations
<1> QED BY <1>1, <1>2, ReleaseAdvances

\* The release of a draft.
LEMMA CommitReleaseKeeps ==
    ASSUME RevisionInv, NEW c \in Clients, CommitRelease(c)
    PROVE  RevisionInv'
<1>1. desk[c].op = "release" /\ desk' = [desk EXCEPT ![c] = Idle]
      /\ UNCHANGED <<rev, lapsed, crossed>>
  BY DEF CommitRelease
<1>2. PICK w \in Works : w = desk[c].on BY <1>1 DEF RevisionInv, Bound
<1>3. /\ work' = [work EXCEPT ![w].status = "released"]
      /\ released' = [released EXCEPT ![w] = @ + 1]
  BY <1>2 DEF CommitRelease
<1>4. /\ work' \in [Works -> Order] /\ released' \in [Works -> Nat]
      /\ work'[w].status = "released"
      /\ \A v \in Works : /\ work'[v].revs = work[v].revs
                          /\ v # w => work'[v] = work[v] /\ released'[v] = released[v]
  <2>1. work \in [Works -> Order] /\ released \in [Works -> Nat]
    BY DEF RevisionInv, RevisionTypes
  <2>2. released' \in [Works -> Nat] /\ \A v \in Works : v # w => released'[v] = released[v]
    BY <1>3, <2>1
  <2>3. LET o == [work[w] EXCEPT !.status = "released"]
        IN  o \in Order /\ o.status = "released" /\ o.revs = work[w].revs
    BY <2>1 DEF Order
  <2>4. PICK o \in Order : /\ o = [work[w] EXCEPT !.status = "released"]
                           /\ o.status = "released" /\ o.revs = work[w].revs
    BY <2>3
  <2>5. work' = [work EXCEPT ![w] = o] BY <1>3, <2>1, <2>4
  <2> QED BY <2>1, <2>2, <2>4, <2>5
<1>5. RevisionTypes' /\ Sole' /\ Succeeded'
  BY <1>1, <1>4, IdleDesk DEF RevisionInv, RevisionTypes, Sole, Succeeded
<1>6. ReleasedOnce' BY <1>4 DEF RevisionInv, ReleasedOnce
<1>7. ASSUME NEW b \in Clients PROVE Bound(desk[b])' /\ Validated(b, desk[b])'
  <2>1. desk'[b] = Idle \/ desk'[b] = desk[b] BY <1>1 DEF RevisionInv, RevisionTypes
  <2>2. CASE desk'[b] = Idle BY <2>2, IdleDesk DEF Bound, Validated, Absent
  <2>3. CASE desk'[b] = desk[b]
    <3>1. Bound(desk[b]) /\ Validated(b, desk[b]) BY DEF RevisionInv
    <3>2. desk[b].op = "release" => desk[b].on \in Works /\ work'[desk[b].on].status # Absent
      BY <1>4, <3>1 DEF Bound, Absent
    <3>3. Bound(desk[b])' BY <2>3, <3>1, <3>2 DEF Bound, Siblings
    <3>4. Validated(b, desk[b])' BY <1>1, <1>4, <2>3, <3>1, <3>2 DEF Validated
    <3> QED BY <3>3, <3>4
  <2> QED BY <2>1, <2>2, <2>3
<1> QED BY <1>5, <1>6, <1>7 DEF RevisionInv

\* Every step of the records keeps the invariant.
LEMMA RevisionStepKeeps == RevisionInv /\ [RecordsNext]_recordVars => RevisionInv'
<1> SUFFICES ASSUME RevisionInv, [RecordsNext]_recordVars PROVE RevisionInv' OBVIOUS
<1>1. ASSUME UNCHANGED <<rev, work, desk, released, lapsed, crossed>> PROVE RevisionInv'
  BY <1>1 DEF RevisionInv, RevisionTypes, Sole, Succeeded, ReleasedOnce, Bound, Validated, Siblings
<1>2. CASE UNCHANGED recordVars BY <1>1, <1>2 DEF recordVars, revisionVars
<1>3. CASE MasterStep
  <2>1. UNCHANGED <<rev, work, desk, released, lapsed, crossed>>
    BY <1>3 DEF MasterStep, Register, CreateOrganizationUnit, CreateUom, CreateMaterial,
                CreateProduct, CreateEquipment, CreateEquipmentCapability, CreateSkill,
                CreatePersonnel, CreateCalendar, CreateShift, CreateDocument, CreateBom,
                CreateRouting, ProvisionDigitalTwinCatalog, CreateQualification, revisionVars
  <2> QED BY <1>1, <2>1
<1>4. CASE Platform(IngestStep \/ RetentionStep \/ RebuildStep \/ ObjectStep)
  BY <1>1, <1>4 DEF Platform, revisionVars
<1>5. CASE RevisionStep
  <2>1. ASSUME NEW r \in Revisions, CreateRevision(r) \/ CreateObjectRevision(r)
        PROVE  RevisionInv'
    BY <2>1, RevisionMoves DEF CreateRevision, CreateObjectRevision
  <2>2. ASSUME NEW c \in Clients, CommitApprove(c) PROVE RevisionInv'
    <3>1. desk[c].op = "approved" /\ desk' = [desk EXCEPT ![c] = Idle]
          /\ UNCHANGED <<work, released, lapsed, crossed>>
      BY <2>2 DEF CommitApprove
    <3>2. PICK r \in Revisions : r = desk[c].on BY <3>1 DEF RevisionInv, Bound
    <3>3. CASE rev[r] = "draft"
      <4>1. rev' = [rev EXCEPT ![r] = "approved"] BY <2>2, <3>2, <3>3 DEF CommitApprove
      <4> QED BY <3>1, <3>3, <4>1, RevisionMoves
    <3>4. CASE rev[r] # "draft"
      <4>1. UNCHANGED rev BY <2>2, <3>2, <3>4 DEF CommitApprove
      <4> QED BY <3>1, <4>1, DeskIdle
    <3> QED BY <3>3, <3>4
  <2>3. ASSUME NEW c \in Clients, RollbackRequest(c) PROVE RevisionInv'
    BY <2>3, DeskIdle DEF RollbackRequest
  <2> QED BY <1>5, <2>1, <2>2, <2>3, BeginTransitionKeeps, SupersedeKeeps, CommitEffectiveKeeps
          DEF RevisionStep
<1>6. CASE ReleaseStep
  BY <1>6, CreateWorkOrderKeeps, BeginReleaseKeeps, CheckBoundKeeps, CheckOperationsKeeps,
     CommitReleaseKeeps DEF ReleaseStep
<1> QED BY <1>2, <1>3, <1>4, <1>5, <1>6 DEF RecordsNext

\* The counted form of the invariant says what the inductive one does.
LEMMA OneEffectiveFollows == RevisionInv => OneEffective
<1> SUFFICES ASSUME RevisionInv, NEW k \in {"bom", "routing", "document"}
             PROVE  /\ Cardinality(Effective(k)) <= 1
                    /\ (\E r \in Revisions : Kind[r] = k /\ rev[r] = "superseded")
                          => Effective(k) # {} \/ lapsed
  BY DEF OneEffective
<1>1. CASE Effective(k) = {}
  <2>1. Cardinality(Effective(k)) = 0 BY <1>1, FS_EmptySet
  <2> QED BY <1>1, <2>1 DEF RevisionInv, Succeeded, Effective
<1>2. CASE Effective(k) # {}
  <2>1. PICK r : r \in Effective(k) BY <1>2
  <2>2. Effective(k) = {r} BY <2>1 DEF RevisionInv, Sole, Effective
  <2>3. Cardinality({r}) = 1 BY FS_Singleton
  <2> QED BY <1>2, <2>2, <2>3
<1> QED BY <1>1, <1>2

\* The initial tables: what OneEffective says of them is all that is needed.
LEMMA RevisionInitially == RecordsInit => RevisionInv
<1> SUFFICES ASSUME RecordsInit PROVE RevisionInv OBVIOUS
<1>1. /\ rev \in [Revisions -> {Absent, "draft", "approved", "effective"}] /\ OneEffective
      /\ work = [w \in Works |-> NoWork] /\ desk = [c \in Clients |-> Idle]
      /\ released = [w \in Works |-> 0] /\ lapsed = FALSE /\ crossed = {}
  BY DEF RecordsInit, NothingRevised
<1>2. RevisionTypes /\ Succeeded /\ ReleasedOnce
  BY <1>1, IdleDesk DEF RevisionTypes, Succeeded, ReleasedOnce, Statuses, Absent
<1>3. \A c \in Clients : Bound(desk[c]) /\ Validated(c, desk[c])
  BY <1>1, IdleDesk DEF Bound, Validated, Absent
<1>4. Sole
  <2> SUFFICES ASSUME NEW r \in Revisions, NEW s \in Revisions, Kind[r] = Kind[s],
                      rev[r] = "effective", rev[s] = "effective", r # s
               PROVE  FALSE
    BY DEF Sole
  <2>1. Kind[r] \in {"bom", "routing", "document"} BY MasterDataAssumption
  <2>2. Cardinality(Effective(Kind[r])) <= 1 BY <1>1, <2>1 DEF OneEffective
  <2>3. {r, s} \subseteq Effective(Kind[r]) BY DEF Effective
  <2>4. IsFiniteSet(Effective(Kind[r]))
    BY MasterDataAssumption, FS_Subset DEF Effective
  <2>5. Cardinality({r, s}) = 2 /\ Cardinality(Effective(Kind[r])) \in Nat
    <3>1. Cardinality({r}) = 1 /\ IsFiniteSet({r}) BY FS_Singleton
    <3>2. {r} \cup {s} = {r, s} /\ s \notin {r} BY <2>3
    <3>3. Cardinality({r} \cup {s}) = 2 BY <3>1, <3>2, FS_AddElement
    <3> QED BY <2>4, <3>2, <3>3, FS_CardinalityType
  <2>6. Cardinality({r, s}) <= Cardinality(Effective(Kind[r])) BY <2>3, <2>4, FS_Subset
  <2> QED BY <2>2, <2>5, <2>6
<1> QED BY <1>2, <1>3, <1>4 DEF RevisionInv

\* The inductive invariant of revisions and releases holds in every reachable state.
THEOREM RevisionInvariant == RecordsSpec => []RevisionInv
<1> QED BY RevisionInitially, RevisionStepKeeps, PTL DEF RecordsSpec

\* Whichever transitions overlap, a document, BOM or routing never has two effective
\* revisions, and keeps one unless a late duplicate of a transition took it
\* (transition_revision).
THEOREM SoleEffectiveRevision == RecordsSpec => []OneEffective
<1> QED BY RevisionInvariant, OneEffectiveFollows, PTL

\* A release releases a draft, whose bound revisions are effective unless a transition
\* committed meanwhile.
LEMMA ReleaseIsSound ==
    ASSUME RevisionInv, [RecordsNext]_recordVars, NEW c \in Clients, desk[c].op = "release",
           released' # released, desk'[c] # desk[c]
    PROVE  /\ released[desk[c].on] = 0
           /\ \/ c \in crossed
              \/ \A r \in work[desk[c].on].revs : rev[r] = "effective"
<1>1. \E b \in Clients : CommitRelease(b)
  <2>1. ReleaseStep
    BY DEF RecordsNext, MasterStep, Register, CreateOrganizationUnit, CreateUom, CreateMaterial,
           CreateProduct, CreateEquipment, CreateEquipmentCapability, CreateSkill,
           CreatePersonnel, CreateCalendar, CreateShift, CreateDocument, CreateBom,
           CreateRouting, ProvisionDigitalTwinCatalog, CreateQualification, revisionVars,
           recordVars, Platform, RevisionStep, CreateRevision, CreateObjectRevision,
           BeginTransition, CommitApprove, Supersede, CommitEffective, RollbackRequest
  <2> QED BY <2>1 DEF ReleaseStep, CreateWorkOrder, BeginRelease, CheckBound, CheckOperations
<1>2. PICK b \in Clients : CommitRelease(b) BY <1>1
<1>3. CommitRelease(c)
  <2>1. desk' = [desk EXCEPT ![b] = Idle] BY <1>2 DEF CommitRelease
  <2>2. b = c BY <2>1 DEF RevisionInv, RevisionTypes
  <2> QED BY <1>2, <2>2
<1>4. PICK w \in Works : w = desk[c].on BY DEF RevisionInv, Bound
<1>5. work[w].status = "draft" /\ desk[c].phase = "update"
  BY <1>3, <1>4 DEF CommitRelease, StillDraft
<1>6. released[w] = 0 BY <1>5 DEF RevisionInv, ReleasedOnce
<1>7. Checked("update") = {"bom", "routing", "document"} BY DEF Checked
<1>8. \A r \in work[w].revs : r \in Revisions /\ Kind[r] \in {"bom", "routing", "document"}
  BY MasterDataAssumption DEF RevisionInv, RevisionTypes, Order
<1> QED BY <1>4, <1>5, <1>6, <1>7, <1>8 DEF RevisionInv, Validated

\* A work order is released once, and what it binds is effective then, unless a transition
\* committed while the release was validating (release_work_order).
THEOREM ReleasesEffective == RecordsSpec => ReleasedEffective
<1>1. RevisionInv /\ [RecordsNext]_recordVars =>
        [\A c \in Clients :
          desk[c].op = "release" /\ released' # released /\ desk'[c] # desk[c]
             => /\ released[desk[c].on] = 0
                /\ \/ c \in crossed
                   \/ \A r \in work[desk[c].on].revs : rev[r] = "effective"]_recordVars
  BY ReleaseIsSound
<1> QED BY <1>1, RevisionInvariant, PTL DEF RecordsSpec, ReleasedEffective

-----------------------------------------------------------------------------
(* The Redis projection *)

Rebuilding == {Absent, "read", "locked", "written", "pointed", "done", "failed"}

\* A generation that can be activated is complete, and one the pointer names is past
\* the steps that delete keys
ProjectionInv ==
    /\ redis \in [pointer : Clients \cup {Absent}, keys : SUBSET Clients,
                  lock : Clients \cup {Absent}]
    /\ rebuild \in [Clients -> Rebuilding] /\ ackLost \in BOOLEAN
    /\ \A c \in Clients : rebuild[c] = "written" => c \in redis.keys
    /\ \A c \in Clients :
          redis.pointer = c /\ c # Absent
             => /\ rebuild[c] \in {"pointed", "done", "failed"}
                /\ c \in redis.keys \/ ackLost

\* What a step of one rebuild may do to the projection keeps the invariant.
LEMMA RebuildMoves ==
    ASSUME ProjectionInv, NEW c \in Clients,
           redis' \in [pointer : Clients \cup {Absent}, keys : SUBSET Clients,
                       lock : Clients \cup {Absent}],
           NEW q \in Rebuilding, rebuild' = [rebuild EXCEPT ![c] = q], ackLost' \in BOOLEAN,
           ackLost => ackLost', redis.keys \ {c} \subseteq redis'.keys,
           q = "written" => c \in redis'.keys,
           \/ /\ redis'.pointer = redis.pointer
              /\ \/ redis'.pointer # c
                 \/ q \in {"pointed", "done", "failed"} /\ redis.keys \subseteq redis'.keys
                 \/ c = Absent
           \/ /\ redis'.pointer = c /\ q \in {"pointed", "failed"}
              /\ c \in redis'.keys \/ ackLost'
    PROVE  ProjectionInv'
<1>1. /\ rebuild' \in [Clients -> Rebuilding] /\ rebuild'[c] = q
      /\ \A b \in Clients : b # c => rebuild'[b] = rebuild[b]
  BY DEF ProjectionInv
<1>2. \A b \in Clients : rebuild'[b] = "written" => b \in redis'.keys
  BY <1>1 DEF ProjectionInv
<1>3. ASSUME NEW b \in Clients, redis'.pointer = b, b # Absent
      PROVE  rebuild'[b] \in {"pointed", "done", "failed"} /\ (b \in redis'.keys \/ ackLost')
  <2>1. CASE b = c BY <1>1, <1>3, <2>1 DEF ProjectionInv
  <2>2. CASE b # c BY <1>1, <1>3, <2>2 DEF ProjectionInv
  <2> QED BY <2>1, <2>2
<1> QED BY <1>1, <1>2, <1>3 DEF ProjectionInv

\* Every step of the records keeps the projection's invariant.
LEMMA ProjectionStep == ProjectionInv /\ [RecordsNext]_recordVars => ProjectionInv'
<1> SUFFICES ASSUME ProjectionInv, [RecordsNext]_recordVars PROVE ProjectionInv' OBVIOUS
<1>1. ASSUME UNCHANGED <<redis, rebuild, ackLost>> PROVE ProjectionInv'
  BY <1>1 DEF ProjectionInv
<1>2. CASE UNCHANGED recordVars BY <1>1, <1>2 DEF recordVars, platformVars, redisVars
<1>3. CASE MasterStep
  <2>1. UNCHANGED <<redis, rebuild, ackLost>>
    BY <1>3 DEF MasterStep, Register, CreateOrganizationUnit, CreateUom, CreateMaterial,
                CreateProduct, CreateEquipment, CreateEquipmentCapability, CreateSkill,
                CreatePersonnel, CreateCalendar, CreateShift, CreateDocument, CreateBom,
                CreateRouting, ProvisionDigitalTwinCatalog, CreateQualification, platformVars,
                redisVars
  <2> QED BY <1>1, <2>1
<1>4. CASE RevisionStep \/ ReleaseStep
  <2>1. UNCHANGED <<redis, rebuild, ackLost>>
    BY <1>4 DEF RevisionStep, ReleaseStep, CreateRevision, CreateObjectRevision,
                BeginTransition, CommitApprove, Supersede, CommitEffective, RollbackRequest,
                CreateWorkOrder, BeginRelease, CheckBound, CheckOperations, CommitRelease,
                platformVars, redisVars
  <2> QED BY <1>1, <2>1
<1>5. CASE IngestStep \/ RetentionStep \/ ObjectStep
  <2>1. UNCHANGED <<redis, rebuild, ackLost>>
    BY <1>5 DEF IngestStep, RetentionStep, ObjectStep, CreateSignal, PassTime, BeginIngest,
                CommitIngest, RollbackIngest, AggregateHourly, StartRetention,
                RetentionAggregate, RetentionCoverage, RetentionDelete, FailRetention, Decay,
                CreateObjectManifest, Retrieve, ReadBack, CompleteObjectManifest, FailTransfer,
                PutObject, redisVars
  <2> QED BY <1>1, <2>1
<1>6. CASE RebuildStep
  <2> USE DEF Rebuilding
  <2>0. \A c \in Clients : Unlocked(c) \in Clients \cup {Absent}
    BY DEF Unlocked, ProjectionInv
  <2>1. CASE ExpireLock BY <2>1 DEF ExpireLock, ProjectionInv
  <2>2. ASSUME NEW c \in Clients, BeginRebuild(c) PROVE ProjectionInv'
    BY <2>2, RebuildMoves DEF BeginRebuild, ProjectionInv, Absent
  <2>3. ASSUME NEW c \in Clients, LockRebuild(c) PROVE ProjectionInv'
    <3>1. CASE redis.lock = Absent
      BY <2>3, <3>1, RebuildMoves DEF LockRebuild, ProjectionInv, Absent
    <3>2. CASE redis.lock # Absent
      BY <2>3, <3>2, RebuildMoves DEF LockRebuild, ProjectionInv, Absent
    <3> QED BY <3>1, <3>2
  <2>4. ASSUME NEW c \in Clients, WriteKeys(c) PROVE ProjectionInv'
    BY <2>4, RebuildMoves DEF WriteKeys, ProjectionInv, Absent
  <2>5. ASSUME NEW c \in Clients, NEW x \in BOOLEAN, ActivateGeneration(c, x)
        PROVE  ProjectionInv'
    <3>1. CASE x
      BY <2>5, <3>1, RebuildMoves DEF ActivateGeneration, Activatable, ProjectionInv, Absent
    <3>2. CASE ~x
      BY <2>0, <2>5, <3>2, RebuildMoves DEF ActivateGeneration, Activatable, ProjectionInv, Absent
    <3> QED BY <3>1, <3>2
  <2>6. ASSUME NEW c \in Clients, NEW x \in BOOLEAN, RecordProjectionCheckpoint(c, x)
        PROVE  ProjectionInv'
    <3>1. CASE x
      BY <2>0, <2>6, <3>1, RebuildMoves DEF RecordProjectionCheckpoint, ProjectionInv, Absent
    <3>2. CASE ~x
      BY <2>0, <2>6, <3>2, RebuildMoves DEF RecordProjectionCheckpoint, ProjectionInv, Absent
    <3> QED BY <3>1, <3>2
  <2>7. ASSUME NEW c \in Clients, NEW x \in BOOLEAN, FailRebuild(c, x) PROVE ProjectionInv'
    <3>1. CASE x
      BY <2>0, <2>7, <3>1, RebuildMoves DEF FailRebuild, ProjectionInv, Absent
    <3>2. CASE ~x BY <2>7, <3>2, RebuildMoves DEF FailRebuild, ProjectionInv, Absent
    <3> QED BY <3>1, <3>2
  <2> QED BY <1>6, <2>1, <2>2, <2>3, <2>4, <2>5, <2>6, <2>7 DEF RebuildStep
<1> QED BY <1>2, <1>3, <1>4, <1>5, <1>6 DEF RecordsNext, Platform

\* The generation the pointer names has its keys, unless Redis moved the pointer and the
\* answer was lost (rebuild of the projection).
THEOREM ActiveGenerationHasKeys == RecordsSpec => []ActiveGenerationComplete
<1>1. RecordsInit => ProjectionInv
  <2> SUFFICES ASSUME RecordsInit PROVE ProjectionInv OBVIOUS
  <2>1. /\ redis = [pointer |-> Absent, keys |-> {}, lock |-> Absent]
        /\ rebuild = [c \in Clients |-> Absent] /\ ackLost = FALSE
    BY DEF RecordsInit, PlatformInit
  <2> QED BY <2>1 DEF ProjectionInv, Rebuilding, Absent
<1>2. ProjectionInv => ActiveGenerationComplete
  BY DEF ProjectionInv, ActiveGenerationComplete
<1> QED BY <1>1, <1>2, ProjectionStep, PTL DEF RecordsSpec

-----------------------------------------------------------------------------
(* Telemetry and retention *)

\* The hour of the sample is older than the aggregates that are kept
AgedOut(s) == (Window(s.at) + 1) * Hour <= clock - AggregateKeep

\* The aggregate counts the sample, or one of the exceptions DeletedWasCounted names
Accounted(s) == s \in hourly[Window(s.at)] \/ AgedOut(s) \/ s \in late \/ Window(s.at) \in redone

Run == [phase : {Absent, "running", "aggregated", "covered"}, cutoff : Int, aggregateCutoff : Int]

TelemetryTypes ==
    /\ clock \in Nat /\ clock <= MaxClock
    /\ \A m \in raw : m.sample.at \in Nat
    /\ \A s \in gone : s.at \in Nat /\ s.at <= MaxClock
    /\ retention \in [Clients -> Run]
    /\ ingest = [c \in Clients |-> ingest[c]]
    /\ \A c \in Clients : ingest[c] # NoIngest => ingest[c].batch \in Batches

\* A run's cutoffs lie in the past
Past == \A c \in Clients :
           retention[c].phase # Absent => /\ retention[c].cutoff <= clock
                                          /\ retention[c].aggregateCutoff <= clock - AggregateKeep

\* What an open run may delete is accounted for, and so is what was deleted
RunsAccounted == \A c \in Clients : \A m \in raw :
    retention[c].phase = "covered" /\ m.sample.at < retention[c].cutoff => Accounted(m.sample)
GoneAccounted == \A s \in gone : Accounted(s)

\* What was measured has a receipt
Receipted == /\ stored = [s \in SampleIds |-> stored[s]]
             /\ \A s \in SampleIds : \/ stored[s] = 0
                                     \/ stored[s] = 1 /\ \E r \in receipt : r.id = s

TelemetryInv == TelemetryTypes /\ Past /\ RunsAccounted /\ GoneAccounted /\ Receipted

\* A sample no later than the clock falls into a window.
LEMMA InWindow ==
    ASSUME NEW t \in Nat
    PROVE  Window(t) \in Nat /\ (t <= MaxClock => Window(t) \in Windows)
<1>0. Hour \in Nat \ {0} /\ MaxClock \in Nat BY DataPlatformAssumption
<1>1. \A a \in Nat, n \in Nat \ {0} : a \div n \in Nat /\ n * (a \div n) <= a /\ a < n * (a \div n) + n
  BY SMT
<1>2. PICK p \in Nat : p = Window(t) /\ Hour * p <= t BY <1>0, <1>1 DEF Window
<1>3. PICK q \in Nat : q = Window(MaxClock) /\ MaxClock < Hour * q + Hour
  BY <1>0, <1>1 DEF Window
<1>4. ASSUME t <= MaxClock PROVE p <= q
  <2>1. Hour * p < Hour * q + Hour BY <1>0, <1>2, <1>3, <1>4
  <2>2. ~(p >= q + 1) BY <1>0, <2>1
  <2> QED BY <2>2
<1> QED BY <1>2, <1>3, <1>4 DEF Windows

\* What is accounted for stays so: history only grows, the clock only advances, and a
\* window that is written anew was aggregated again or has aged out.
LEMMA AccountedKept ==
    ASSUME clock \in Nat, clock' \in Nat, clock <= clock', late \subseteq late',
           redone \subseteq redone'
    PROVE  \A s : /\ s.at \in Nat /\ Accounted(s)
                  /\ \/ hourly'[Window(s.at)] = hourly[Window(s.at)]
                     \/ Window(s.at) \in redone' \/ AgedOut(s)'
                  => Accounted(s)'
<1> SUFFICES ASSUME NEW s, s.at \in Nat, Accounted(s),
                    \/ hourly'[Window(s.at)] = hourly[Window(s.at)]
                    \/ Window(s.at) \in redone' \/ AgedOut(s)'
             PROVE  Accounted(s)'
  OBVIOUS
<1>1. AgedOut(s) => AgedOut(s)'
  <2>1. Window(s.at) \in Nat /\ Hour \in Nat /\ AggregateKeep \in Nat
    BY InWindow, DataPlatformAssumption
  <2>2. PICK e \in Nat : e = (Window(s.at) + 1) * Hour BY <2>1
  <2>3. Window(s.at)' = Window(s.at) BY DEF Window
  <2> QED BY <2>1, <2>2, <2>3 DEF AgedOut
<1> QED BY <1>1 DEF Accounted

\* A step that leaves the rows, the aggregates and the runs alone.
LEMMA TelemetryKept ==
    ASSUME TelemetryInv,
           UNCHANGED <<receipt, raw, hourly, ingest, retention, clock, stored, gone, late, redone>>
    PROVE  TelemetryInv'
BY DEF TelemetryInv, TelemetryTypes, Past, RunsAccounted, GoneAccounted, Receipted, Accounted,
       AgedOut

\* A request that opens or is rolled back.
LEMMA IngestMoves ==
    ASSUME TelemetryInv, NEW c \in Clients, NEW r, r # NoIngest => r.batch \in Batches,
           ingest' = [ingest EXCEPT ![c] = r],
           UNCHANGED <<receipt, raw, hourly, retention, clock, stored, gone, late, redone>>
    PROVE  TelemetryInv'
<1>1. TelemetryTypes' BY DEF TelemetryInv, TelemetryTypes
<1> QED BY <1>1 DEF TelemetryInv, Past, RunsAccounted, GoneAccounted, Receipted, Accounted,
                    AgedOut

\* Aggregating a window anew is recorded while a run is open, or after rows of the window
\* were deleted.
LEMMA AggregateKeeps ==
    ASSUME TelemetryInv, NEW from, NEW to, hourly' = Aggregated(from, to),
           redone' = Redone(from, to), UNCHANGED <<receipt, raw, ingest, clock, stored, gone, late>>,
           \/ retention' = retention
           \/ \E c \in Clients : /\ retention[c].phase = "running"
                                 /\ retention' = [retention EXCEPT ![c].phase = "aggregated"]
    PROVE  TelemetryInv'
<1>1. /\ retention' \in [Clients -> Run]
      /\ \A c \in Clients : /\ retention'[c].phase = "covered" <=> retention[c].phase = "covered"
                            /\ retention'[c].phase # Absent => retention[c].phase # Absent
                            /\ retention'[c].cutoff = retention[c].cutoff
                            /\ retention'[c].aggregateCutoff = retention[c].aggregateCutoff
  BY DEF TelemetryInv, TelemetryTypes, Run, Absent
<1>2. TelemetryTypes' BY <1>1 DEF TelemetryInv, TelemetryTypes
<1>3. Past' BY <1>1 DEF TelemetryInv, Past
<1>4. clock \in Nat /\ clock <= clock' /\ late \subseteq late' /\ redone \subseteq redone'
  BY DEF TelemetryInv, TelemetryTypes, Redone
<1>5. \A w \in Windows : Rows(w, from, to) = {} => hourly'[w] = hourly[w]
  BY DEF Aggregated
<1>6. ASSUME NEW s \in gone PROVE Accounted(s)'
  <2>1. s.at \in Nat /\ Window(s.at) \in Windows /\ Accounted(s)
    BY InWindow DEF TelemetryInv, TelemetryTypes, GoneAccounted
  <2>2. Rows(Window(s.at), from, to) # {} => Window(s.at) \in redone' BY <2>1 DEF Redone
  <2> QED BY <1>4, <1>5, <2>1, <2>2, AccountedKept
<1>7. ASSUME NEW c \in Clients, NEW m \in raw, retention'[c].phase = "covered",
             m.sample.at < retention'[c].cutoff
      PROVE  Accounted(m.sample)'
  <2>1. Accounted(m.sample) /\ m.sample.at \in Nat /\ c \in Checking
    BY <1>1, <1>7 DEF TelemetryInv, TelemetryTypes, RunsAccounted, Checking
  <2>2. m.sample.at <= MaxClock
    <3>1. retention[c].phase # Absent BY <1>1, <1>7 DEF Absent
    <3>2. retention[c] \in Run BY DEF TelemetryInv, TelemetryTypes
    <3>3. retention[c].cutoff \in Int /\ retention[c].cutoff <= clock
      BY <3>1, <3>2 DEF TelemetryInv, Past, Run
    <3>4. clock \in Nat /\ clock <= MaxClock /\ MaxClock \in Nat
      BY DataPlatformAssumption DEF TelemetryInv, TelemetryTypes
    <3>5. m.sample.at < retention[c].cutoff BY <1>1, <1>7
    <3> QED BY <2>1, <3>3, <3>4, <3>5
  <2>3. Window(m.sample.at) \in Windows BY <2>1, <2>2, InWindow
  <2>4. Rows(Window(m.sample.at), from, to) # {} => Window(m.sample.at) \in redone'
    BY <2>1, <2>3 DEF Redone
  <2> QED BY <1>4, <1>5, <2>1, <2>3, <2>4, AccountedKept
<1>8. RunsAccounted' /\ GoneAccounted' BY <1>6, <1>7 DEF RunsAccounted, GoneAccounted
<1>9. Receipted' BY DEF TelemetryInv, Receipted
<1> QED BY <1>2, <1>3, <1>8, <1>9 DEF TelemetryInv

\* What lies before the cutoff of an open run falls into a window.
LEMMA BeforeCutoff ==
    ASSUME TelemetryInv
    PROVE  \A c \in Clients : \A t \in Nat :
              retention[c].phase # Absent /\ t < retention[c].cutoff
                 => t <= MaxClock /\ Window(t) \in Windows
<1> SUFFICES ASSUME NEW c \in Clients, NEW t \in Nat, retention[c].phase # Absent,
                    t < retention[c].cutoff
             PROVE  t <= MaxClock /\ Window(t) \in Windows
  OBVIOUS
<1>1. retention[c] \in Run BY DEF TelemetryInv, TelemetryTypes
<1>2. retention[c].cutoff \in Int /\ retention[c].cutoff <= clock
  BY <1>1 DEF TelemetryInv, Past, Run
<1>3. clock \in Nat /\ clock <= MaxClock /\ MaxClock \in Nat
  BY DataPlatformAssumption DEF TelemetryInv, TelemetryTypes
<1>4. t <= MaxClock BY <1>2, <1>3
<1> QED BY <1>4, InWindow

\* A run changes its phase, or opens or ends; what it may delete is accounted for.
LEMMA RunMoves ==
    ASSUME TelemetryInv, late \subseteq late',
           UNCHANGED <<receipt, raw, hourly, ingest, clock, stored, gone, redone>>
    PROVE  \A c \in Clients : \A r \in Run :
              /\ retention' = [retention EXCEPT ![c] = r]
              /\ r.phase # Absent => r.cutoff <= clock /\ r.aggregateCutoff <= clock - AggregateKeep
              /\ r.phase = "covered" => \A m \in raw : m.sample.at < r.cutoff => Accounted(m.sample)'
              => TelemetryInv'
<1> SUFFICES ASSUME NEW c \in Clients, NEW r \in Run, retention' = [retention EXCEPT ![c] = r],
                    r.phase # Absent => r.cutoff <= clock /\ r.aggregateCutoff <= clock - AggregateKeep,
                    r.phase = "covered"
                       => \A m \in raw : m.sample.at < r.cutoff => Accounted(m.sample)'
             PROVE  TelemetryInv'
  OBVIOUS
<1>1. /\ retention' \in [Clients -> Run] /\ retention'[c] = r
      /\ \A b \in Clients : b # c => retention'[b] = retention[b]
  BY DEF TelemetryInv, TelemetryTypes
<1>2. TelemetryTypes' BY <1>1 DEF TelemetryInv, TelemetryTypes
<1>3. Past' BY <1>1 DEF TelemetryInv, Past
<1>4. clock \in Nat /\ clock' \in Nat /\ clock <= clock' /\ redone \subseteq redone'
  BY DEF TelemetryInv, TelemetryTypes
<1>5. GoneAccounted'
  BY <1>4, AccountedKept DEF TelemetryInv, TelemetryTypes, GoneAccounted
<1>6. ASSUME NEW b \in Clients, NEW m \in raw, retention'[b].phase = "covered",
             m.sample.at < retention'[b].cutoff
      PROVE  Accounted(m.sample)'
  <2>1. CASE b = c BY <1>1, <1>6, <2>1
  <2>2. CASE b # c
    <3>1. Accounted(m.sample) /\ m.sample.at \in Nat
      BY <1>1, <1>6, <2>2 DEF TelemetryInv, TelemetryTypes, RunsAccounted
    <3> QED BY <1>4, <3>1, AccountedKept
  <2> QED BY <2>1, <2>2
<1>7. RunsAccounted' BY <1>6 DEF RunsAccounted
<1>8. Receipted' BY DEF TelemetryInv, Receipted
<1> QED BY <1>2, <1>3, <1>5, <1>7, <1>8 DEF TelemetryInv

\* A run that starts, or ends without deleting.
LEMMA RunBeginsOrEnds ==
    ASSUME TelemetryInv, NEW c \in Clients, StartRetention(c) \/ FailRetention(c)
    PROVE  TelemetryInv'
<1>1. NoRun \in Run /\ NoRun.phase = Absent BY DEF NoRun, Run, Absent
<1>2. CASE FailRetention(c) BY <1>1, <1>2, RunMoves DEF FailRetention, Absent
<1>3. CASE StartRetention(c)
  <2>1. /\ clock \in Nat /\ RawKeep \in Nat /\ AggregateKeep \in Nat
        /\ clock - RawKeep \in Int /\ clock - AggregateKeep \in Int /\ clock - RawKeep <= clock
    BY DataPlatformAssumption DEF TelemetryInv, TelemetryTypes
  <2>2. PICK a \in Int, b \in Int : a = clock - RawKeep /\ b = clock - AggregateKeep /\ a <= clock
                                   /\ b <= clock - AggregateKeep
    BY <2>1
  <2>3. PICK r \in Run : /\ r = [phase |-> "running", cutoff |-> a, aggregateCutoff |-> b]
                         /\ r.phase = "running" /\ r.cutoff = a /\ r.aggregateCutoff = b
    <3>1. [phase |-> "running", cutoff |-> a, aggregateCutoff |-> b] \in Run BY DEF Run
    <3> QED BY <3>1
  <2>4. retention' = [retention EXCEPT ![c] = r] BY <1>3, <2>2, <2>3 DEF StartRetention
  <2> QED BY <1>3, <2>2, <2>3, <2>4, RunMoves DEF StartRetention
<1> QED BY <1>2, <1>3

\* The coverage check: equal counts account for every row before the cutoff, and the rows
\* another sample stood in for are recorded.
LEMMA CoverageKeeps ==
    ASSUME TelemetryInv, NEW c \in Clients, RetentionCoverage(c)
    PROVE  TelemetryInv'
<1>1. retention[c] \in Run /\ retention[c].phase = "aggregated"
  BY DEF TelemetryInv, TelemetryTypes, RetentionCoverage
<1>2. PICK k \in Int : k = retention[c].cutoff BY <1>1 DEF Run
<1>3. /\ late' = late \cup Miscounted(k)
      /\ UNCHANGED <<receipt, raw, hourly, ingest, clock, stored, gone, redone>>
  BY <1>2 DEF RetentionCoverage
<1>4. CASE ~Covered(k)
  <2>1. retention' = [retention EXCEPT ![c] = NoRun] BY <1>2, <1>4 DEF RetentionCoverage
  <2>2. NoRun \in Run /\ NoRun.phase = Absent BY DEF NoRun, Run, Absent
  <2> QED BY <1>3, <2>1, <2>2, RunMoves DEF Absent
<1>5. CASE Covered(k)
  <2>1. LET s == [retention[c] EXCEPT !.phase = "covered"]
        IN  /\ s \in Run /\ s.phase = "covered" /\ s.cutoff = k
            /\ s.aggregateCutoff = retention[c].aggregateCutoff
    BY <1>1, <1>2 DEF Run
  <2>2. PICK r \in Run : /\ r = [retention[c] EXCEPT !.phase = "covered"]
                         /\ r.cutoff = k /\ r.aggregateCutoff = retention[c].aggregateCutoff
    BY <2>1
  <2>3. retention' = [retention EXCEPT ![c] = r]
    BY <1>2, <1>5, <2>2 DEF RetentionCoverage, TelemetryInv, TelemetryTypes
  <2>4. r.cutoff <= clock /\ r.aggregateCutoff <= clock - AggregateKeep
    BY <1>1, <1>2, <2>2 DEF TelemetryInv, Past, Absent
  <2>5. ASSUME NEW m \in raw, m.sample.at < k PROVE Accounted(m.sample)'
    <3>1. m.sample.at \in Nat BY DEF TelemetryInv, TelemetryTypes
    <3>2. PICK w \in Windows : w = Window(m.sample.at)
      BY <1>1, <1>2, <2>5, <3>1, BeforeCutoff DEF Absent
    <3>3. m.sample.at \in 0..(k - 1) BY <2>5, <3>1
    <3>4. m.sample \in Rows(w, 0, k) BY <3>2, <3>3 DEF Rows
    <3>5. Cardinality(Rows(w, 0, k)) = Cardinality(hourly[w]) BY <1>5, <3>4 DEF Covered
    <3>6. m.sample \in hourly[w] \/ m.sample \in Miscounted(k) BY <3>4, <3>5 DEF Miscounted
    <3> QED BY <1>3, <3>2, <3>6 DEF Accounted
  <2> QED BY <1>3, <2>2, <2>3, <2>4, <2>5, RunMoves
<1> QED BY <1>4, <1>5

\* The delete: every row it takes was accounted for, and the hours it drops have aged out.
LEMMA DeleteKeeps ==
    ASSUME TelemetryInv, NEW c \in Clients, RetentionDelete(c)
    PROVE  TelemetryInv'
<1> DEFINE out == {m \in raw : m.sample.at < retention[c].cutoff}
<1>1. /\ retention[c].phase = "covered" /\ raw' = raw \ out
      /\ gone' = gone \cup {m.sample : m \in out}
      /\ hourly' = [w \in Windows |-> IF (w + 1) * Hour <= retention[c].aggregateCutoff
                                      THEN {} ELSE hourly[w]]
      /\ retention' = [retention EXCEPT ![c] = NoRun]
      /\ UNCHANGED <<receipt, ingest, clock, stored, late, redone>>
  BY DEF RetentionDelete
<1>2. /\ retention' \in [Clients -> Run]
      /\ \A b \in Clients : (b = c /\ retention'[b].phase = Absent) \/ retention'[b] = retention[b]
  <2>1. NoRun \in Run /\ NoRun.phase = Absent BY DEF NoRun, Run, Absent
  <2> QED BY <1>1, <2>1 DEF TelemetryInv, TelemetryTypes
<1>3. ASSUME NEW m \in out
      PROVE  m.sample.at \in Nat /\ m.sample.at <= MaxClock /\ Accounted(m.sample)
  <2>1. m \in raw /\ m.sample.at < retention[c].cutoff /\ m.sample.at \in Nat
    BY DEF TelemetryInv, TelemetryTypes
  <2> QED BY <1>1, <2>1, BeforeCutoff DEF TelemetryInv, RunsAccounted, Absent
<1>4. ASSUME NEW s, s.at \in Nat, s.at <= MaxClock, Accounted(s) PROVE Accounted(s)'
  <2>1. PICK w \in Windows : w = Window(s.at) /\ w \in Nat BY <1>4, InWindow
  <2>2. PICK e \in Nat : e = (w + 1) * Hour BY <2>1, DataPlatformAssumption
  <2>3. retention[c] \in Run /\ retention[c].aggregateCutoff <= clock - AggregateKeep
    BY <1>1 DEF TelemetryInv, TelemetryTypes, Past, Absent
  <2>4. PICK k \in Int : k = retention[c].aggregateCutoff BY <2>3 DEF Run
  <2>5. clock \in Nat /\ AggregateKeep \in Nat /\ clock' = clock
    BY <1>1, DataPlatformAssumption DEF TelemetryInv, TelemetryTypes
  <2>6. e <= k => e <= clock - AggregateKeep BY <2>3, <2>4, <2>5
  <2>7. e <= k => AgedOut(s)' BY <2>1, <2>2, <2>5, <2>6 DEF AgedOut
  <2>8. ~(e <= k) => hourly'[w] = hourly[w] BY <1>1, <2>2, <2>4
  <2>9. late \subseteq late' /\ redone \subseteq redone' /\ clock' \in Nat /\ clock <= clock'
    BY <1>1, <2>5
  <2> QED BY <1>4, <2>1, <2>5, <2>7, <2>8, <2>9, AccountedKept
<1>5. TelemetryTypes' BY <1>1, <1>2, <1>3 DEF TelemetryInv, TelemetryTypes
<1>6. Past' BY <1>1, <1>2 DEF TelemetryInv, Past
<1>7. GoneAccounted'
  <2>1. \A s \in gone : s.at \in Nat /\ s.at <= MaxClock /\ Accounted(s)
    BY DEF TelemetryInv, TelemetryTypes, GoneAccounted
  <2> QED BY <1>1, <1>3, <1>4, <2>1 DEF GoneAccounted
<1>8. ASSUME NEW b \in Clients, NEW m \in raw', retention'[b].phase = "covered",
             m.sample.at < retention'[b].cutoff
      PROVE  Accounted(m.sample)'
  <2>1. retention'[b] = retention[b] /\ m \in raw /\ m.sample.at \in Nat
    BY <1>1, <1>2, <1>8 DEF Absent, TelemetryInv, TelemetryTypes
  <2>2. Accounted(m.sample) BY <1>8, <2>1 DEF TelemetryInv, RunsAccounted
  <2>3. m.sample.at <= MaxClock BY <1>8, <2>1, BeforeCutoff DEF Absent
  <2> QED BY <1>4, <2>1, <2>2, <2>3
<1>9. RunsAccounted' BY <1>8 DEF RunsAccounted
<1>10. Receipted' BY <1>1 DEF TelemetryInv, Receipted
<1> QED BY <1>5, <1>6, <1>7, <1>9, <1>10 DEF TelemetryInv

\* Time passes.
LEMMA PassTimeKeeps == ASSUME TelemetryInv, PassTime PROVE TelemetryInv'
<1>1. /\ clock \in Nat /\ clock < MaxClock /\ clock' = clock + 1 /\ MaxClock \in Nat
      /\ AggregateKeep \in Nat
      /\ UNCHANGED <<receipt, raw, hourly, ingest, retention, stored, gone, late, redone>>
  BY DataPlatformAssumption DEF PassTime, TelemetryInv, TelemetryTypes
<1>2. clock' \in Nat /\ clock <= clock' /\ clock' <= MaxClock
      /\ clock - AggregateKeep <= clock' - AggregateKeep
  BY <1>1
<1>3. TelemetryTypes' BY <1>1, <1>2 DEF TelemetryInv, TelemetryTypes
<1>4. Past'
  <2> SUFFICES ASSUME NEW c \in Clients, retention[c].phase # Absent
               PROVE  /\ retention[c].cutoff <= clock'
                      /\ retention[c].aggregateCutoff <= clock' - AggregateKeep
    BY <1>1 DEF Past
  <2>1. retention[c] \in Run BY DEF TelemetryInv, TelemetryTypes
  <2>2. retention[c].cutoff \in Int /\ retention[c].aggregateCutoff \in Int BY <2>1 DEF Run
  <2>3. retention[c].cutoff <= clock /\ retention[c].aggregateCutoff <= clock - AggregateKeep
    BY DEF TelemetryInv, Past
  <2> QED BY <1>1, <1>2, <2>2, <2>3
<1>5. GoneAccounted'
  BY <1>1, <1>2, AccountedKept DEF TelemetryInv, TelemetryTypes, GoneAccounted
<1>6. RunsAccounted'
  BY <1>1, <1>2, AccountedKept DEF TelemetryInv, TelemetryTypes, RunsAccounted
<1>7. Receipted' BY <1>1 DEF TelemetryInv, Receipted
<1> QED BY <1>3, <1>4, <1>5, <1>6, <1>7 DEF TelemetryInv

\* Of the new samples of a batch no two have one id: the second finds the first's receipt.
LEMMA NewSamplesDiffer ==
    ASSUME NEW b \in Batches, NEW seen, NEW s
    PROVE  {i \in NewSamples(b, seen) : b.samples[i].id = s} # {}
              => Cardinality({i \in NewSamples(b, seen) : b.samples[i].id = s}) = 1
<1> DEFINE N == {i \in NewSamples(b, seen) : b.samples[i].id = s}
<1>1. \A i \in N : i \in Nat /\ i >= 1 BY DataPlatformAssumption DEF NewSamples
<1>2. ASSUME NEW i \in N, NEW j \in N, i < j PROVE FALSE
  <2>1. i \in 1..(j - 1) BY <1>1, <1>2
  <2>2. b.samples[i] \in Before(b, seen, j) BY <2>1 DEF Before
  <2> QED BY <2>2 DEF NewSamples
<1>3. \A i, j \in N : i = j BY <1>1, <1>2
<1>4. ASSUME N # {} PROVE Cardinality(N) = 1
  <2>1. PICK i : N = {i} BY <1>3, <1>4
  <2>2. Cardinality({i}) = 1 BY FS_Singleton
  <2> QED BY <2>1, <2>2
<1> QED BY <1>4

\* The commit of a batch: a new row is measured for the first time, and one before the
\* cutoff of a run about to delete is recorded as late.
LEMMA CommitIngestKeeps ==
    ASSUME TelemetryInv, NEW c \in Clients, CommitIngest(c)
    PROVE  TelemetryInv'
<1>0. PICK b \in Batches : b = ingest[c].batch
  BY DEF CommitIngest, TelemetryInv, TelemetryTypes
<1>1. PICK seen : b = ingest[c].batch /\ seen = ingest[c].seen BY <1>0
<1> DEFINE new == NewSamples(b, seen)
           fresh == {b.samples[i] : i \in new}
<1>2. /\ UniqueReceipt(b, new) /\ receipt' = receipt \cup fresh
      /\ stored' = [s \in SampleIds |-> stored[s] + Cardinality({i \in new : b.samples[i].id = s})]
      /\ late' = late \cup {s \in fresh : \E u \in Deleting : s.at < retention[u].cutoff}
      /\ ingest' = [ingest EXCEPT ![c] = NoIngest]
      /\ UNCHANGED <<hourly, retention, clock, gone, redone>>
  BY <1>1 DEF CommitIngest
<1>3. \A m \in raw' : m \in raw \/ m.sample \in fresh BY <1>1 DEF CommitIngest
<1>4. \A s \in fresh : s.at \in Nat BY DataPlatformAssumption DEF NewSamples
<1>5. TelemetryTypes'
  <2>1. \A m \in raw' : m.sample.at \in Nat BY <1>3, <1>4 DEF TelemetryInv, TelemetryTypes
  <2> QED BY <1>2, <2>1 DEF TelemetryInv, TelemetryTypes
<1>6. Past' BY <1>2 DEF TelemetryInv, Past
<1>7. clock \in Nat /\ clock' \in Nat /\ clock <= clock' /\ late \subseteq late' /\ redone \subseteq redone'
  BY <1>2 DEF TelemetryInv, TelemetryTypes
<1>8. GoneAccounted'
  BY <1>2, <1>7, AccountedKept DEF TelemetryInv, TelemetryTypes, GoneAccounted
<1>9. ASSUME NEW d \in Clients, NEW m \in raw', retention[d].phase = "covered",
             m.sample.at < retention[d].cutoff
      PROVE  Accounted(m.sample)'
  <2>1. CASE m \in raw
    <3>1. Accounted(m.sample) /\ m.sample.at \in Nat
      BY <1>9, <2>1 DEF TelemetryInv, TelemetryTypes, RunsAccounted
    <3> QED BY <1>2, <1>7, <3>1, AccountedKept
  <2>2. CASE m.sample \in fresh
    <3>1. m.sample \in late' BY <1>2, <1>9, <2>2 DEF Deleting
    <3> QED BY <3>1 DEF Accounted
  <2> QED BY <1>3, <2>1, <2>2
<1>10. RunsAccounted' BY <1>2, <1>9 DEF RunsAccounted
<1>11. Receipted'
  <2> SUFFICES ASSUME NEW s \in SampleIds
               PROVE  stored'[s] = 0 \/ (stored'[s] = 1 /\ \E r \in receipt' : r.id = s)
    BY <1>2 DEF Receipted
  <2> DEFINE N == {i \in new : b.samples[i].id = s}
  <2>1. stored'[s] = stored[s] + Cardinality(N) BY <1>2
  <2>2. N # {} => Cardinality(N) = 1 BY NewSamplesDiffer
  <2>3. stored[s] = 0 \/ (stored[s] = 1 /\ \E r \in receipt : r.id = s)
    <3>1. Receipted BY DEF TelemetryInv
    <3> QED BY <3>1 DEF Receipted
  <2>4. CASE N = {}
    <3>0. Cardinality({}) = 0 BY FS_EmptySet
    <3>1. Cardinality(N) = 0 BY <2>4, <3>0
    <3>2. stored'[s] = stored[s] BY <2>1, <2>3, <3>1
    <3>3. \A r \in receipt : r \in receipt' BY <1>2
    <3>4. CASE stored[s] = 0 BY <3>2, <3>4
    <3>5. CASE stored[s] = 1 /\ \E r \in receipt : r.id = s
      <4>1. PICK r \in receipt : r.id = s BY <3>5
      <4> QED BY <3>2, <3>3, <3>5, <4>1
    <3> QED BY <2>3, <3>4, <3>5
  <2>5. CASE N # {}
    <3>1. PICK i \in new : b.samples[i].id = s BY <2>5
    <3>2. \A r \in receipt : r.id # s BY <1>2, <3>1 DEF UniqueReceipt
    <3>3. stored[s] = 0 /\ Cardinality(N) = 1 BY <2>2, <2>3, <2>5, <3>2
    <3>4. stored'[s] = 1 BY <2>1, <3>3
    <3>5. b.samples[i] \in receipt' BY <1>2, <3>1
    <3> QED BY <3>1, <3>4, <3>5
  <2> QED BY <2>4, <2>5
<1> QED BY <1>5, <1>6, <1>8, <1>10, <1>11 DEF TelemetryInv

\* Every step of the records keeps the telemetry's invariant.
LEMMA TelemetryStep == TelemetryInv /\ [RecordsNext]_recordVars => TelemetryInv'
<1> SUFFICES ASSUME TelemetryInv, [RecordsNext]_recordVars PROVE TelemetryInv' OBVIOUS
<1> DEFINE Same == UNCHANGED <<receipt, raw, hourly, ingest, retention, clock, stored, gone,
                               late, redone>>
<1>1. ASSUME Same PROVE TelemetryInv' BY <1>1, TelemetryKept
<1>2. CASE UNCHANGED recordVars BY <1>1, <1>2 DEF recordVars, platformVars, telemetryVars
<1>3. CASE MasterStep
  <2>1. Same
    BY <1>3 DEF MasterStep, Register, CreateOrganizationUnit, CreateUom, CreateMaterial,
                CreateProduct, CreateEquipment, CreateEquipmentCapability, CreateSkill,
                CreatePersonnel, CreateCalendar, CreateShift, CreateDocument, CreateBom,
                CreateRouting, ProvisionDigitalTwinCatalog, CreateQualification, platformVars,
                telemetryVars
  <2> QED BY <1>1, <2>1
<1>4. CASE RevisionStep \/ ReleaseStep
  <2>1. Same
    BY <1>4 DEF RevisionStep, ReleaseStep, CreateRevision, CreateObjectRevision,
                BeginTransition, CommitApprove, Supersede, CommitEffective, RollbackRequest,
                CreateWorkOrder, BeginRelease, CheckBound, CheckOperations, CommitRelease,
                platformVars, telemetryVars
  <2> QED BY <1>1, <2>1
<1>5. CASE RebuildStep \/ ObjectStep
  <2>1. Same
    BY <1>5 DEF RebuildStep, ObjectStep, ExpireLock, BeginRebuild, LockRebuild, WriteKeys,
                ActivateGeneration, RecordProjectionCheckpoint, FailRebuild, Decay,
                CreateObjectManifest, Retrieve, ReadBack, CompleteObjectManifest, FailTransfer,
                PutObject, telemetryVars
  <2> QED BY <1>1, <2>1
<1>6. CASE IngestStep
  <2>1. CASE CreateSignal BY <1>1, <2>1 DEF CreateSignal
  <2>2. ASSUME NEW c \in Clients, NEW b \in Batches, BeginIngest(c, b) PROVE TelemetryInv'
    <3>0. [batch |-> b, seen |-> receipt, now |-> clock].batch = b OBVIOUS
    <3>1. PICK r : r = [batch |-> b, seen |-> receipt, now |-> clock] /\ r.batch = b BY <3>0
    <3>2. ingest' = [ingest EXCEPT ![c] = r] BY <2>2, <3>1 DEF BeginIngest
    <3> QED BY <2>2, <3>1, <3>2, IngestMoves DEF BeginIngest
  <2>3. ASSUME NEW c \in Clients, RollbackIngest(c) PROVE TelemetryInv'
    BY <2>3, IngestMoves DEF RollbackIngest
  <2> QED BY <1>6, <2>1, <2>2, <2>3, PassTimeKeeps, CommitIngestKeeps DEF IngestStep
<1>7. CASE RetentionStep
  <2>1. ASSUME NEW from \in 0..MaxClock, NEW to \in 0..MaxClock, AggregateHourly(from, to)
        PROVE  TelemetryInv'
    BY <2>1, AggregateKeeps DEF AggregateHourly
  <2>2. ASSUME NEW c \in Clients, RetentionAggregate(c) PROVE TelemetryInv'
    BY <2>2, AggregateKeeps DEF RetentionAggregate
  <2> QED BY <1>7, <2>1, <2>2, RunBeginsOrEnds, CoverageKeeps, DeleteKeeps DEF RetentionStep
<1> QED BY <1>2, <1>3, <1>4, <1>5, <1>6, <1>7 DEF RecordsNext, Platform

\* A sample is measured once, and raw telemetry that retention deleted is still counted by
\* the aggregate of its hour, with the exceptions DeletedWasCounted names (ingest_batch,
\* aggregate_hourly, run_retention), however many runs and requests overlap.
THEOREM DeletedIsCounted == RecordsSpec => []DeletedWasCounted
<1>1. RecordsInit => TelemetryInv
  <2> SUFFICES ASSUME RecordsInit PROVE TelemetryInv OBVIOUS
  <2>1. /\ raw = {} /\ gone = {} /\ clock = 0 /\ stored = [s \in SampleIds |-> 0]
        /\ ingest = [c \in Clients |-> NoIngest] /\ retention = [c \in Clients |-> NoRun]
    BY DEF RecordsInit, PlatformInit
  <2>2. NoRun \in Run /\ NoRun.phase = Absent BY DEF NoRun, Run, Absent
  <2>3. TelemetryTypes BY <2>1, <2>2, DataPlatformAssumption DEF TelemetryTypes
  <2>4. Past /\ RunsAccounted /\ GoneAccounted /\ Receipted
    BY <2>1, <2>2 DEF Past, RunsAccounted, GoneAccounted, Receipted, Absent
  <2> QED BY <2>3, <2>4 DEF TelemetryInv
<1>2. TelemetryInv => DeletedWasCounted
  <2> SUFFICES ASSUME TelemetryInv PROVE DeletedWasCounted OBVIOUS
  <2>1. \A s \in SampleIds : stored[s] <= 1 BY DEF TelemetryInv, Receipted
  <2>2. \A s \in gone : Accounted(s) BY DEF TelemetryInv, GoneAccounted
  <2> QED BY <2>1, <2>2 DEF DeletedWasCounted, Accounted, AgedOut
<1> QED BY <1>1, <1>2, TelemetryStep, PTL DEF RecordsSpec

=============================================================================
