------------------------- MODULE CommandLoop_proofs -------------------------
(***************************************************************************)
(* Type correctness of CommandLoop, the finality of the agents' ledgers,   *)
(* how a step may move a handler (OpStep), the governance of high-risk     *)
(* commands, which rests on both, and the life of a command from its open  *)
(* slot to the rate of the agent that executed it.                         *)
(***************************************************************************)
EXTENDS CommandLoop, FiniteSetTheorems, TLAPS

-----------------------------------------------------------------------------
(* What the record constructors and the list operators return *)

\* The placeholders are of their types.
LEMMA Placeholders ==
    /\ Absent \in Command /\ Idle \in Operation /\ NoEntry \in Entry
    /\ Nothing \in [Ids -> Command]
<1>1. Absent \in Command
  BY WindowAssumption DEF Absent, Command
<1>2. Idle \in Operation
  BY ConstantsAssumption DEF Idle, Operation
<1>3. NoEntry \in Entry
  BY DEF NoEntry, Entry
<1> QED BY <1>1, <1>2, <1>3 DEF Nothing

\* create_command builds a command.
LEMMA NewCommandType ==
    ASSUME NEW n \in Nodes \cup {None}, NEW k \in Kind \cup {None},
           NEW o \in Orders \cup {None}, NEW keyed \in BOOLEAN,
           NEW r \in Rates \cup {None}, NEW s \in Status, NEW cleared \in BOOLEAN
    PROVE  /\ NewCommand(n, k, o, keyed, r, s, cleared) \in Command
           /\ NewCommand(n, k, o, keyed, r, s, cleared).kind = k
           /\ NewCommand(n, k, o, keyed, r, s, cleared).status = s
           /\ NewCommand(n, k, o, keyed, r, s, cleared).cleared = cleared
<1>1. 0 \in 0..MaxObs
  BY WindowAssumption
<1>2. NewCommand(n, k, o, keyed, r, s, cleared) \in Command
  BY <1>1 DEF NewCommand, Command
<1> QED BY <1>2 DEF NewCommand

\* Assigning one field of a command, with a value of the field's type, keeps it one.
LEMMA FieldTypes ==
    ASSUME NEW c \in Command
    PROVE  /\ \A s \in Status \cup {"absent"} : [c EXCEPT !.status = s] \in Command
           /\ \A v \in Verdict \cup {"not_started", "observing", "verified"} :
                 [c EXCEPT !.vstat = v] \in Command
           /\ \A k \in 0..MaxObs : [c EXCEPT !.obs = k] \in Command
           /\ \A m \in {"none", "agent", "system"} : [c EXCEPT !.msg = m] \in Command
           /\ \A b \in BOOLEAN : [c EXCEPT !.cleared = b] \in Command
<1>1. \A s \in Status \cup {"absent"} : [c EXCEPT !.status = s] \in Command
  BY DEF Command
<1>2. \A v \in Verdict \cup {"not_started", "observing", "verified"} :
         [c EXCEPT !.vstat = v] \in Command
  BY DEF Command
<1>3. \A k \in 0..MaxObs : [c EXCEPT !.obs = k] \in Command
  BY DEF Command
<1>4. \A m \in {"none", "agent", "system"} : [c EXCEPT !.msg = m] \in Command
  BY DEF Command
<1>5. \A b \in BOOLEAN : [c EXCEPT !.cleared = b] \in Command
  BY DEF Command
<1> QED BY <1>1, <1>2, <1>3, <1>4, <1>5

\* A new status with the message system_message sets keeps a command a command.
LEMMA ClosedType ==
    ASSUME NEW c \in Command, NEW s \in Status \cup {"absent"},
           NEW m \in {"none", "agent", "system"}
    PROVE  [c EXCEPT !.status = s, !.msg = m] \in Command
<1>1. [c EXCEPT !.status = s] \in Command
  BY FieldTypes
<1>2. [[c EXCEPT !.status = s] EXCEPT !.msg = m] \in Command
  BY <1>1, FieldTypes
<1>3. [c EXCEPT !.status = s, !.msg = m] = [[c EXCEPT !.status = s] EXCEPT !.msg = m]
  OBVIOUS
<1> QED BY <1>2, <1>3

\* An item of a handler's work list is well formed when its phase is.
LEMMA ItemTypes ==
    ASSUME NEW p \in 1..(3 * MaxId), NEW S \in SUBSET Ids, NEW i \in Ids,
           NEW o \in Orders \cup {None}
    PROVE  /\ SaveItem(p, S) \in Item
           /\ \A s \in OrderStatus : OrderItem(p, i, o, s) \in Item
           /\ \A s \in SuggestionStatus : SuggestItem(p, i, s) \in Item
  BY DEF SaveItem, OrderItem, SuggestItem, Item, ItemRecord

\* The last phases exist, and the phases of per-command saves come before.
LEMMA Phases ==
    /\ SavePhase \in 1..(3 * MaxId) /\ TailPhase \in 1..(3 * MaxId)
    /\ \A i \in Ids : /\ i \in 1..(3 * MaxId) /\ 2 * i - 1 \in 1..(3 * MaxId)
                      /\ 2 * i \in 1..(3 * MaxId) /\ 2 * MaxId + i \in 1..(3 * MaxId)
  BY ConstantsAssumption DEF SavePhase, TailPhase, Ids

\* _apply_command_transitions yields well-formed items.
LEMMA SaveEachType ==
    ASSUME NEW S \in SUBSET Ids
    PROVE  SaveEach(S) \subseteq Item
<1> SUFFICES ASSUME NEW i \in S PROVE SaveItem(i, {i}) \in Item
  BY DEF SaveEach
<1> QED BY Phases DEF SaveItem, Item, ItemRecord

\* Trimming and superseding keep a list of commands.
LEMMA ListTypes ==
    ASSUME NEW f \in [Ids -> Command]
    PROVE  /\ Trim(f) \in [Ids -> Command]
           /\ \A i \in Ids : Trim(f)[i] = f[i] \/ Trim(f)[i] = Absent
  BY Placeholders DEF Trim

\* supersede_pending keeps a command a command, of the same kind.
LEMMA SupersededType ==
    ASSUME NEW c \in Command
    PROVE  /\ Superseded(c) \in Command
           /\ Superseded(c).kind = c.kind /\ Superseded(c).status = "superseded"
           /\ Superseded(c).cleared = c.cleared
<1>1. Superseded(c) \in Command
  BY ClosedType DEF Superseded, Status
<1> QED BY <1>1 DEF Superseded, Command

\* The list create_command leaves is a list of commands, with the new one in it.
LEMMA WithCreatedType ==
    ASSUME mem \in [Ids -> Command], NEW i \in Ids, NEW c \in Command
    PROVE  /\ WithCreated(i, c) \in [Ids -> Command]
           /\ WithCreated(i, c)[i] = c
           /\ \A j \in Ids : j # i => \/ WithCreated(i, c)[j] = mem[j]
                                      \/ /\ WithCreated(i, c)[j] = Superseded(mem[j])
                                         /\ mem[j].status \in OpenStatus
  BY SupersededType DEF WithCreated, Replaced

\* What the handlers hold after objects left the list are commands.
LEMMA DetachType ==
    ASSUME NEW f \in [Ids -> Command], held \in [Threads -> [Ids -> Command]],
           NEW gone, NEW ops
    PROVE  /\ Detach(f, gone, ops) \in [Threads -> [Ids -> Command]]
           /\ \A u \in Threads, i \in Ids :
                 \/ Detach(f, gone, ops)[u][i] = held[u][i]
                 \/ Detach(f, gone, ops)[u][i] = f[i]
  BY DEF Detach

\* A handler that goes on to save, or ends, is a handler.
LEMMA SavingType ==
    ASSUME op \in [Threads -> Operation], NEW t \in Threads, NEW w \in Operation
    PROVE  /\ Saving(t, w) \in [Threads -> Operation]
           /\ Ended(t) \in [Threads -> Operation]
           /\ \A u \in Threads : u # t => Saving(t, w)[u] = op[u]
           /\ Saving(t, w)[t] = Idle \/ Saving(t, w)[t] = [w EXCEPT !.pc = "saving"]
  BY Placeholders DEF Saving, Ended, Operation

\* An approval changes a command into a command.
LEMMA ApprovedType ==
    ASSUME NEW c \in Command, NEW w \in Operation
    PROVE  Approved(c, w) \in Command
<1>1. w.code \in BOOLEAN
  BY DEF Operation
<1>2. [c EXCEPT !.status = "verified", !.vstat = "verified", !.msg = "system",
               !.cleared = w.code] \in Command
  <2>1. [c EXCEPT !.status = "verified"] \in Command
    BY FieldTypes DEF Status
  <2>2. [[c EXCEPT !.status = "verified"] EXCEPT !.vstat = "verified"] \in Command
    BY <2>1, FieldTypes
  <2>3. [[[c EXCEPT !.status = "verified"] EXCEPT !.vstat = "verified"]
           EXCEPT !.msg = "system"] \in Command
    BY <2>2, FieldTypes
  <2>4. [[[[c EXCEPT !.status = "verified"] EXCEPT !.vstat = "verified"]
           EXCEPT !.msg = "system"] EXCEPT !.cleared = w.code] \in Command
    BY <1>1, <2>3, FieldTypes
  <2> QED BY <2>4
<1>3. [c EXCEPT !.status = "pending", !.cleared = w.code] \in Command
  <2>1. [c EXCEPT !.status = "pending"] \in Command
    BY FieldTypes DEF Status
  <2>2. [[c EXCEPT !.status = "pending"] EXCEPT !.cleared = w.code] \in Command
    BY <1>1, <2>1, FieldTypes
  <2> QED BY <2>2
<1> QED BY <1>2, <1>3 DEF Approved

\* A report or an observation changes a command into a command.
LEMMA ChangedTypes ==
    ASSUME NEW c \in Command, NEW n \in Nodes, NEW scene \in Scene,
           NEW s \in {"applied", "failed"}
    PROVE  /\ WithResult(c, s) \in Command
           /\ Observe(c, n, scene) \in Command
           /\ \A st \in Status : /\ [c EXCEPT !.status = st] \in Command
                                 /\ [c EXCEPT !.status = st, !.msg = "system"] \in Command
<1>1. WithResult(c, s) \in Command
  <2> DEFINE v == IF s = "applied" THEN "observing" ELSE c.vstat
  <2>1. v \in Verdict \cup {"not_started", "observing", "verified"}
    BY DEF Command
  <2>2. s \in Status
    BY DEF Status
  <2>3. WithResult(c, s) = [c EXCEPT !.status = s, !.msg = "agent", !.vstat = v]
    BY DEF WithResult
  <2> HIDE DEF v
  <2>4. [c EXCEPT !.status = s, !.msg = "agent", !.vstat = v] \in Command
    <3>1. [c EXCEPT !.status = s, !.msg = "agent"] \in Command
      BY <2>2, ClosedType
    <3>2. [[c EXCEPT !.status = s, !.msg = "agent"] EXCEPT !.vstat = v] \in Command
      BY <2>1, <3>1, FieldTypes
    <3> QED BY <3>2
  <2> QED BY <2>3, <2>4
<1>2. Observe(c, n, scene) \in Command
  <2> DEFINE k == IF c.obs < MaxObs THEN c.obs + 1 ELSE MaxObs
             v == Outcome(k, rate[n] = c.rate, scene)
  <2>1. k \in 0..MaxObs
    BY WindowAssumption DEF Command
  <2>2. v \in Verdict \cup {"observing"}
    BY DEF Outcome, Verdict
  <2> DEFINE st == CASE v \in {"effective", "partial"} -> "verified"
                     [] v = "failed" -> "failed"
                     [] v = "inconclusive" -> "applied"
                     [] OTHER -> c.status
             ms == IF v \in Verdict THEN "system" ELSE c.msg
  <2>3. Observe(c, n, scene) =
          IF c.vstat \in Verdict THEN c
          ELSE [c EXCEPT !.obs = k, !.vstat = v, !.msg = ms, !.status = st]
    BY DEF Observe
  <2> HIDE DEF k, v
  <2>4. st \in Status \cup {"absent"} /\ ms \in {"none", "agent", "system"}
    BY <2>2 DEF Command, Status, Verdict
  <2> HIDE DEF st, ms
  <2>5. [c EXCEPT !.obs = k, !.vstat = v, !.msg = ms, !.status = st] \in Command
    <3>1. [c EXCEPT !.obs = k] \in Command
      BY <2>1, FieldTypes
    <3>2. [[c EXCEPT !.obs = k] EXCEPT !.vstat = v] \in Command
      BY <2>2, <3>1, FieldTypes
    <3>3. [[[c EXCEPT !.obs = k] EXCEPT !.vstat = v] EXCEPT !.msg = ms] \in Command
      BY <2>4, <3>2, FieldTypes
    <3>4. [[[[c EXCEPT !.obs = k] EXCEPT !.vstat = v] EXCEPT !.msg = ms]
             EXCEPT !.status = st] \in Command
      BY <2>4, <3>3, FieldTypes
    <3> QED BY <3>4
  <2> QED BY <2>3, <2>5
<1>3. \A st \in Status : /\ [c EXCEPT !.status = st] \in Command
                         /\ [c EXCEPT !.status = st, !.msg = "system"] \in Command
  BY FieldTypes, ClosedType
<1> QED BY <1>1, <1>2, <1>3

\* create_command, as its callers use it, keeps the types of what it assigns.
LEMMA CreateType ==
    ASSUME TypeOK, NEW t \in Threads, NEW i \in Ids, NEW c \in Command,
           NEW extras \in SUBSET Item, Create(t, i, c, extras)
    PROVE  /\ mem' \in [Ids -> Command]
           /\ op' \in [Threads -> Operation]
           /\ held' \in [Threads -> [Ids -> Command]]
<1> DEFINE f == WithCreated(i, c)
           w == [Idle EXCEPT !.todo =
                   SaveEach(Replaced(c.node, c.kind))
                   \cup {SaveItem(SavePhase, {i})} \cup extras]
<1>1. f \in [Ids -> Command]
  BY WithCreatedType DEF TypeOK
<1>2. SaveEach(Replaced(c.node, c.kind)) \subseteq Item
  BY SaveEachType DEF Replaced
<1>3. SaveItem(SavePhase, {i}) \in Item
  BY Phases DEF SaveItem, Item, ItemRecord
<1>4. w \in Operation
  BY <1>2, <1>3, Placeholders DEF Operation
<1>5. /\ mem' = Trim(f) /\ op' = Saving(t, w)
      /\ held' = Detach(f, Present(f) \ Present(Trim(f)), op')
  BY DEF Create
<1> QED BY <1>1, <1>4, <1>5, ListTypes, SavingType, DetachType DEF TypeOK

\* The follow-up work of proposals and decisions is well formed.
LEMMA TailTypes ==
    ASSUME NEW i \in Ids, NEW k \in Kind \cup {None}, NEW o \in Orders \cup {None},
           NEW w \in Operation, w.id = i,
           NEW a \in OrderStatus, NEW b \in SuggestionStatus
    PROVE  /\ ProposalTail(k, i, o) \subseteq Item
           /\ DecisionTail(w, a, b) \subseteq Item
<1>1. OrderItem(TailPhase, i, o, "awaiting_approval") \in Item
  BY Phases, ItemTypes DEF OrderStatus, SuggestionStatus
<1>2. SuggestItem(TailPhase, i, "pending_human_review") \in Item
  BY Phases, ItemTypes DEF OrderStatus, SuggestionStatus
<1>3. OrderItem(TailPhase, i, w.ord, a) \in Item
  BY Phases, ItemTypes DEF Operation
<1>4. SuggestItem(TailPhase, i, b) \in Item
  BY Phases, ItemTypes
<1> QED BY <1>1, <1>2, <1>3, <1>4 DEF ProposalTail, DecisionTail

-----------------------------------------------------------------------------
(* Type correctness *)

\* The actions of operators keep the types.
LEMMA ProposalType == TypeOK /\ Proposal => TypeOK'
<1> SUFFICES ASSUME TypeOK, Proposal PROVE TypeOK'
  OBVIOUS
<1> USE DEF central, edge, budget
<1>1. ASSUME NEW t \in Threads, NEW k \in Issued, NEW n \in Nodes,
             NEW o \in Orders \cup {None}, NEW r \in Rates \cup {None},
             Issue(t, k, n, o, r)
      PROVE  TypeOK'
  <2>1. k \in Kind /\ FirstStatus(k) \in Status
    BY ConstantsAssumption DEF FirstStatus, Status
  <2>2. PICK i \in Ids :
          Create(t, i, NewCommand(n, k, o, k = "dispatch", r, FirstStatus(k), FALSE),
                 ProposalTail(k, i, o))
    BY <1>1 DEF Issue
  <2>3. NewCommand(n, k, o, k = "dispatch", r, FirstStatus(k), FALSE) \in Command
    BY <2>1, NewCommandType
  <2>4. ProposalTail(k, i, o) \subseteq Item
    <3>1. OrderItem(TailPhase, i, o, "awaiting_approval") \in Item
      BY Phases, ItemTypes DEF OrderStatus, SuggestionStatus
    <3>2. SuggestItem(TailPhase, i, "pending_human_review") \in Item
      BY Phases, ItemTypes DEF OrderStatus, SuggestionStatus
    <3> QED BY <3>1, <3>2 DEF ProposalTail
  <2>6. /\ mem' \in [Ids -> Command] /\ op' \in [Threads -> Operation]
        /\ held' \in [Threads -> [Ids -> Command]]
    BY <2>2, <2>3, <2>4, CreateType
  <2>7. requests' \in 0..MaxRequests
    BY <1>1, ConstantsAssumption DEF Issue, Request, TypeOK
  <2> QED BY <1>1, <2>6, <2>7 DEF Issue, TypeOK
<1>2. ASSUME NEW t \in Threads, NEW i \in Ids, ReissueDispatch(t, i)
      PROVE  TypeOK'
  <2>1. mem[i].order \in Orders \cup {None}
    BY DEF TypeOK, Command
  <2>2. OrderItem(TailPhase, i, mem[i].order, "awaiting_approval") \in Item
    BY <2>1, Phases, ItemTypes DEF OrderStatus, SuggestionStatus
  <2>3. ProposalTail("dispatch", i, mem[i].order) \subseteq Item
    BY <2>2 DEF ProposalTail
  <2>4. [Idle EXCEPT !.todo = ProposalTail("dispatch", i, mem[i].order)] \in Operation
    BY <2>3, Placeholders DEF Operation
  <2>5. op' \in [Threads -> Operation]
    BY <1>2, <2>4, SavingType DEF ReissueDispatch, TypeOK
  <2>6. requests' \in 0..MaxRequests
    BY <1>2, ConstantsAssumption DEF ReissueDispatch, Request, TypeOK
  <2> QED BY <1>2, <2>5, <2>6 DEF ReissueDispatch, TypeOK
<1>3. ASSUME NEW n \in Nodes, NEW i \in Ids, NEW saved \in BOOLEAN,
             Isolate(n, i, saved)
      PROVE  TypeOK'
  <2> DEFINE c == NewCommand(n, "isolate", None, FALSE, None, "executed", TRUE)
             f == WithCreated(i, c)
  <2>1. c \in Command
    <3>1. "isolate" \in Kind /\ "executed" \in Status
      BY DEF Kind, Status
    <3> QED BY <3>1, NewCommandType
  <2>2. f \in [Ids -> Command]
    BY <2>1, WithCreatedType DEF TypeOK
  <2>3. /\ mem' = Trim(f) /\ held' = Detach(f, Present(f) \ Present(Trim(f)), op)
        /\ \/ db' = [db EXCEPT ![i] = c] /\ fails' = fails
           \/ db' = db /\ fails < MaxFails /\ fails' = fails + 1
    BY <1>3 DEF Isolate
  <2> HIDE DEF c, f
  <2>4. mem' \in [Ids -> Command] /\ held' \in [Threads -> [Ids -> Command]]
    BY <2>2, <2>3, ListTypes, DetachType DEF TypeOK
  <2>5. db' \in [Ids -> Command] /\ fails' \in 0..MaxFails
    <3>1. [db EXCEPT ![i] = c] \in [Ids -> Command]
      BY <2>1 DEF TypeOK
    <3>2. fails < MaxFails => fails + 1 \in 0..MaxFails
      BY ConstantsAssumption DEF TypeOK
    <3> QED BY <2>3, <3>1, <3>2 DEF TypeOK
  <2>6. requests' \in 0..MaxRequests
    BY <1>3, ConstantsAssumption DEF Isolate, Request, TypeOK
  <2> QED BY <1>3, <2>4, <2>5, <2>6 DEF Isolate, TypeOK
<1> QED BY <1>1, <1>2, <1>3 DEF Proposal

\* A decision that changes the command in place keeps the types.
LEMMA DecideType ==
    ASSUME TypeOK, NEW t \in Threads, NEW a, NEW c \in Command,
           NEW todo \in SUBSET Item, Decide(t, a, c, todo)
    PROVE  TypeOK'
<1> USE DEF central, edge, budget
<1>1. [Idle EXCEPT !.todo = todo] \in Operation
  BY Placeholders DEF Operation
<1>2. op' \in [Threads -> Operation]
  BY <1>1, SavingType DEF Decide, TypeOK
<1>3. mem' \in [Ids -> Command]
  BY DEF Decide, TypeOK
<1> QED BY <1>2, <1>3 DEF Decide, TypeOK

\* The actions of a deciding operator keep the types (ReviewedHasId says that
\* a review names a command).
ReviewedHasId == \A t \in Threads : op[t].pc = "reviewed" => op[t].id \in Ids

\* Operator decisions keep the types; a review must name a command.
LEMMA DecisionType == TypeOK /\ ReviewedHasId /\ Decision => TypeOK'
<1> SUFFICES ASSUME TypeOK, ReviewedHasId, Decision PROVE TypeOK'
  OBVIOUS
<1> USE DEF central, edge, budget
<1>1. ASSUME NEW t \in Threads, NEW a \in Decisions, NEW i \in Ids,
             NEW code \in BOOLEAN, Review(t, a, i, code)
      PROVE  TypeOK'
  <2>1. /\ mem[i].kind \in Kind \cup {None} /\ mem[i].order \in Orders \cup {None}
        /\ i \in 0..MaxId
    BY ConstantsAssumption DEF TypeOK, Command, Ids
  <2>2. a \in {"approve", "reject", "cancel", "retry"}
    BY ConstantsAssumption
  <2>3. [Idle EXCEPT !.pc = "reviewed", !.act = a, !.id = i, !.kind = mem[i].kind,
                     !.ord = mem[i].order, !.code = code] \in Operation
    BY <2>1, <2>2, Placeholders DEF Operation
  <2>4. op' \in [Threads -> Operation]
    BY <1>1, <2>3 DEF Review, TypeOK
  <2>5. requests' \in 0..MaxRequests
    BY <1>1, ConstantsAssumption DEF Review, Request, TypeOK
  <2> QED BY <1>1, <2>4, <2>5 DEF Review, TypeOK
<1>2. ASSUME NEW t \in Threads, Refused(t) PROVE TypeOK'
  <2>1. op' \in [Threads -> Operation]
    BY <1>2, Placeholders DEF Refused, Ended, TypeOK
  <2> QED BY <1>2, <2>1 DEF Refused, TypeOK
<1>3. ASSUME NEW t \in Threads, op[t].pc = "reviewed",
             NEW a \in OrderStatus, NEW b \in SuggestionStatus
      PROVE  /\ op[t].id \in Ids /\ op[t] \in Operation /\ mem[op[t].id] \in Command
             /\ DecisionTail(op[t], a, b) \subseteq Item
             /\ SaveItem(SavePhase, {op[t].id}) \in Item
  <2>1. op[t].id \in Ids
    BY <1>3 DEF ReviewedHasId
  <2>2. op[t] \in Operation /\ mem[op[t].id] \in Command
    BY <2>1 DEF TypeOK
  <2>3. DecisionTail(op[t], a, b) \subseteq Item
    BY <2>1, <2>2, TailTypes DEF Operation
  <2>4. SaveItem(SavePhase, {op[t].id}) \in Item
    BY <2>1, Phases DEF SaveItem, Item, ItemRecord
  <2> QED BY <2>1, <2>2, <2>3, <2>4
<1>4. "dispatched" \in OrderStatus /\ "rejected" \in OrderStatus
      /\ "cancelled" \in OrderStatus /\ "accepted" \in SuggestionStatus
      /\ "rejected" \in SuggestionStatus /\ {"rejected", "cancelled"} \subseteq Status
  BY DEF OrderStatus, SuggestionStatus, Status
<1>5. ASSUME NEW t \in Threads, Approve(t) PROVE TypeOK'
  <2>1. op[t].pc = "reviewed"
    BY <1>5 DEF Approve, Decide
  <2>2. Approved(mem[op[t].id], op[t]) \in Command
    <3>1. op[t] \in Operation /\ mem[op[t].id] \in Command
      BY <1>3, <1>4, <2>1
    <3> QED BY <3>1, ApprovedType
  <2>3. {SaveItem(SavePhase, {op[t].id})}
        \cup DecisionTail(op[t], "dispatched", "accepted") \in SUBSET Item
    BY <1>3, <1>4, <2>1
  <2> QED BY <1>5, <2>2, <2>3, DecideType DEF Approve
<1>6. ASSUME NEW t \in Threads, Reject(t) PROVE TypeOK'
  <2>1. op[t].pc = "reviewed"
    BY <1>6 DEF Reject, Decide
  <2>2. [mem[op[t].id] EXCEPT !.status = "rejected"] \in Command
    <3>1. mem[op[t].id] \in Command
      BY <1>3, <1>4, <2>1
    <3> QED BY <3>1, <1>4 DEF Command
  <2>3. {SaveItem(SavePhase, {op[t].id})}
        \cup DecisionTail(op[t], "rejected", "rejected") \in SUBSET Item
    BY <1>3, <1>4, <2>1
  <2> QED BY <1>6, <2>2, <2>3, DecideType DEF Reject
<1>7. ASSUME NEW t \in Threads, Cancel(t) PROVE TypeOK'
  <2> DEFINE again == mem[op[t].id].status = "cancelled"
             c == IF again THEN mem[op[t].id]
                  ELSE [mem[op[t].id] EXCEPT !.status = "cancelled", !.msg = "system"]
             td == (IF again THEN {} ELSE {SaveItem(SavePhase, {op[t].id})})
                   \cup DecisionTail(op[t], "cancelled", "rejected")
  <2>1. op[t].pc = "reviewed" /\ Decide(t, "cancel", c, td)
    BY <1>7 DEF Cancel, Decide
  <2>2. c \in Command
    <3>1. mem[op[t].id] \in Command
      BY <1>3, <1>4, <2>1
    <3>2. [mem[op[t].id] EXCEPT !.status = "cancelled", !.msg = "system"] \in Command
      BY <1>4, <3>1, ClosedType
    <3> QED BY <3>1, <3>2
  <2>3. td \in SUBSET Item
    BY <1>3, <1>4, <2>1
  <2> QED BY <2>1, <2>2, <2>3, DecideType
<1>8. ASSUME NEW t \in Threads, NEW i \in Ids, Retry(t, i) PROVE TypeOK'
  <2> DEFINE o == mem[op[t].id]
             c == NewCommand(o.node, o.kind, o.order, FALSE, o.rate, "pending", op[t].code)
  <2>1. op[t].pc = "reviewed" /\ Create(t, i, c, {})
    BY <1>8 DEF Retry
  <2>2. op[t] \in Operation /\ o \in Command
    BY <1>3, <1>4, <2>1
  <2>3. c \in Command
    <3>1. "pending" \in Status
      BY DEF Status
    <3>2. /\ o.node \in Nodes \cup {None} /\ o.kind \in Kind \cup {None}
          /\ o.order \in Orders \cup {None} /\ o.rate \in Rates \cup {None}
          /\ op[t].code \in BOOLEAN
      BY <2>2 DEF Command, Operation
    <3> HIDE DEF o
    <3> QED BY <3>1, <3>2, NewCommandType
  <2> HIDE DEF c, o
  <2>6. /\ mem' \in [Ids -> Command] /\ op' \in [Threads -> Operation]
        /\ held' \in [Threads -> [Ids -> Command]]
    BY <2>1, <2>3, CreateType
  <2> QED BY <1>8, <2>6 DEF Retry, TypeOK
<1> QED BY <1>1, <1>2, <1>5, <1>6, <1>7, <1>8 DEF Decision

\* The agents' requests and the heartbeats keep the types.
LEMMA AgentRequestType == TypeOK /\ AgentRequest => TypeOK'
<1> SUFFICES ASSUME TypeOK, AgentRequest PROVE TypeOK'
  OBVIOUS
<1> USE DEF central, edge, budget
<1>0. {"expired", "claimed", "cancelled"} \subseteq Status
  BY DEF Status
<1>1. ASSUME NEW t \in Threads, NEW n \in Nodes, NEW S \in SUBSET Ids, Claim(t, n, S)
      PROVE  TypeOK'
  <2> DEFINE C == {i \in Ids : Claimable(i, n)}
             td == SaveEach(S) \cup (IF C = {} THEN {} ELSE {SaveItem(SavePhase, C)})
             w == [Idle EXCEPT !.act = "claim", !.node = n, !.reply = C, !.todo = td]
  <2>1. /\ mem' = AfterClaim(n, S) /\ op' = Saving(t, w)
        /\ fetch' = [fetch EXCEPT ![n] = t]
        /\ handouts' = [i \in Ids |-> IF i \in C /\ handouts[i] < 2
                                      THEN handouts[i] + 1 ELSE handouts[i]]
    BY <1>1 DEF Claim
  <2>2. td \subseteq Item
    BY Phases, SaveEachType DEF SaveItem, Item, ItemRecord
  <2>3. w \in Operation
    <3> HIDE DEF td
    <3> QED BY <2>2, Placeholders DEF Operation
  <2> HIDE DEF w
  <2>4. op' \in [Threads -> Operation]
    BY <2>1, <2>3, SavingType DEF TypeOK
  <2>5. mem' \in [Ids -> Command]
    <3> SUFFICES ASSUME NEW i \in Ids
                 PROVE  /\ [mem[i] EXCEPT !.status = "expired", !.msg = "system"] \in Command
                        /\ [mem[i] EXCEPT !.status = "claimed"] \in Command
                        /\ mem[i] \in Command
      BY <2>1 DEF AfterClaim
    <3>1. mem[i] \in Command
      BY DEF TypeOK
    <3>2. "expired" \in Status /\ "claimed" \in Status
      BY DEF Status
    <3> QED BY <3>1, <3>2, FieldTypes, ClosedType
  <2>6. handouts' \in [Ids -> 0..2] /\ fetch' \in [Nodes -> Threads \cup {None}]
    BY <2>1 DEF TypeOK
  <2> QED BY <1>1, <2>4, <2>5, <2>6 DEF Claim, TypeOK
<1>2. ASSUME NEW t \in Threads, NEW S \in SUBSET Ids, ExpireScan(t, S)
      PROVE  TypeOK'
  <2>1. [Idle EXCEPT !.todo = SaveEach(S)] \in Operation
    BY SaveEachType, Placeholders DEF Operation
  <2>2. op' \in [Threads -> Operation]
    BY <1>2, <2>1, SavingType DEF ExpireScan, TypeOK
  <2>3. mem' \in [Ids -> Command]
    <3> SUFFICES ASSUME NEW i \in Ids
                 PROVE  /\ [mem[i] EXCEPT !.status = "expired", !.msg = "system"] \in Command
                        /\ mem[i] \in Command
      BY <1>2 DEF ExpireScan
    <3>1. mem[i] \in Command
      BY DEF TypeOK
    <3> QED BY <3>1, <1>0 DEF Command
  <2> QED BY <1>2, <2>2, <2>3 DEF ExpireScan, TypeOK
<1>3. ASSUME NEW t \in Threads, NEW n \in Nodes, NEW i \in Ids, RecordResult(t, n, i)
      PROVE  TypeOK'
  <2> DEFINE c == mem[i]
             s == ResultStatus(n, i)
             w == [Idle EXCEPT !.act = "result", !.node = n, !.id = i]
             v == [w EXCEPT !.todo = {SaveItem(SavePhase, {i})}]
  <2>1. /\ posts' = [posts EXCEPT ![n][i] = @ - 1] /\ posts[n][i] > 0
        /\ \/ mem' = [mem EXCEPT ![i] = WithResult(c, s)] /\ op' = Saving(t, v)
           \/ mem' = mem /\ op' = Saving(t, w)
           \/ mem' = mem /\ op' = op
    BY <1>3 DEF RecordResult
  <2>2. SaveItem(SavePhase, {i}) \in Item /\ i \in 0..MaxId
    BY Phases, ConstantsAssumption DEF SaveItem, Item, ItemRecord, Ids
  <2>3. w \in Operation
    BY <2>2, Placeholders DEF Operation
  <2>4. v \in Operation
    <3> HIDE DEF w
    <3> QED BY <2>2, <2>3 DEF Operation
  <2>5. c \in Command /\ s \in {"applied", "failed"}
    BY DEF TypeOK, ResultStatus
  <2>6. WithResult(c, s) \in Command
    <3> DEFINE u == IF s = "applied" THEN "observing" ELSE c.vstat
    <3>1. u \in Verdict \cup {"not_started", "observing", "verified"}
      BY <2>5 DEF Command
    <3>2. s \in Status
      BY <2>5 DEF Status
    <3>3. WithResult(c, s) = [c EXCEPT !.status = s, !.msg = "agent", !.vstat = u]
      BY DEF WithResult
    <3> HIDE DEF u, c, s
    <3>4. [c EXCEPT !.status = s, !.msg = "agent", !.vstat = u] \in Command
      BY <2>5, <3>1, <3>2 DEF Command
    <3> QED BY <3>3, <3>4
  <2> HIDE DEF c, s, w, v
  <2>7. mem' \in [Ids -> Command]
    BY <2>1, <2>6 DEF TypeOK
  <2>8. op' \in [Threads -> Operation]
    <3>1. op \in [Threads -> Operation]
      BY DEF TypeOK
    <3>2. Saving(t, v) \in [Threads -> Operation]
      BY <2>4, <3>1, SavingType
    <3>3. Saving(t, w) \in [Threads -> Operation]
      BY <2>3, <3>1, SavingType
    <3> QED BY <2>1, <3>1, <3>2, <3>3
  <2>9. posts' \in [Nodes -> [Ids -> 0..MaxPosts]]
    BY <2>1, ConstantsAssumption DEF TypeOK
  <2> QED BY <1>3, <2>7, <2>8, <2>9 DEF RecordResult, TypeOK
<1>4. ASSUME NEW t \in Threads, NEW n \in Nodes, NEW scene \in [Ids -> Scenes],
             Heartbeat(t, n, scene)
      PROVE  TypeOK'
  <2> DEFINE seen(i) == IF i \in Observed(n) THEN Observe(mem[i], n, scene[i]) ELSE mem[i]
             judged == {i \in Observed(n) :
                          seen(i).vstat \in Verdict /\ mem[i].vstat \notin Verdict}
             A == {[SaveItem(2 * i - 1, {i}) EXCEPT !.what = "shadow"] : i \in Observed(n)}
             B == {[OrderItem(2 * i, i, mem[i].order, None) EXCEPT !.what = "verdict"]
                      : i \in Observed(n)}
             D == {SaveItem(2 * MaxId + i, {i}) : i \in judged}
             w == [Idle EXCEPT !.todo = A \cup B \cup D]
  <2>1. mem' = [i \in Ids |-> seen(i)] /\ op' = Saving(t, w)
    BY <1>4 DEF Heartbeat
  <2>2. Observed(n) \subseteq Ids /\ judged \subseteq Observed(n)
    BY DEF Observed
  <2>3. A \subseteq Item
    <3> SUFFICES ASSUME NEW i \in Ids
                 PROVE  [SaveItem(2 * i - 1, {i}) EXCEPT !.what = "shadow"] \in Item
      BY <2>2
    <3> QED BY Phases DEF SaveItem, Item, ItemRecord
  <2>4. B \subseteq Item
    <3> SUFFICES ASSUME NEW i \in Ids
                 PROVE  [OrderItem(2 * i, i, mem[i].order, None) EXCEPT !.what = "verdict"]
                          \in Item
      BY <2>2
    <3>1. mem[i].order \in Orders \cup {None}
      BY DEF TypeOK, Command
    <3> QED BY <3>1, Phases DEF OrderItem, Item, ItemRecord
  <2>5. D \subseteq Item
    <3> SUFFICES ASSUME NEW i \in Ids PROVE SaveItem(2 * MaxId + i, {i}) \in Item
      BY <2>2
    <3> QED BY Phases DEF SaveItem, Item, ItemRecord
  <2> HIDE DEF A, B, D
  <2>6. w \in Operation
    BY <2>3, <2>4, <2>5, Placeholders DEF Operation
  <2> HIDE DEF w
  <2>7. op' \in [Threads -> Operation]
    BY <2>1, <2>6, SavingType DEF TypeOK
  <2>8. mem' \in [Ids -> Command]
    <3> SUFFICES ASSUME NEW i \in Ids PROVE seen(i) \in Command
      BY <2>1
    <3>1. mem[i] \in Command /\ scene[i] \in Scene
      BY ConstantsAssumption DEF TypeOK
    <3>2. Observe(mem[i], n, scene[i]) \in Command
      BY <3>1, ChangedTypes
    <3> QED BY <3>1, <3>2
  <2> QED BY <1>4, <2>7, <2>8 DEF Heartbeat, TypeOK
<1> QED BY <1>1, <1>2, <1>3, <1>4 DEF AgentRequest

\* A handler that goes on with a part of its work keeps the types.
LEMMA ContinueType ==
    ASSUME TypeOK, NEW t \in Threads, NEW td \in SUBSET Item, Continue(t, td)
    PROVE  /\ op' \in [Threads -> Operation]
           /\ held' \in [Threads -> [Ids -> Command]]
<1>1. op[t] \in Operation
  BY DEF TypeOK
<1>2. [op[t] EXCEPT !.todo = td] \in Operation
  BY <1>1 DEF Operation
<1>3. op' \in [Threads -> Operation]
  BY <1>2, SavingType DEF Continue, TypeOK
<1>4. Released(t) \in [Threads -> [Ids -> Command]]
  BY Placeholders DEF Released, TypeOK
<1> QED BY <1>3, <1>4 DEF Continue, TypeOK

\* update_dispatch_control_status keeps the statuses of orders.
LEMMA SetOrderType ==
    ASSUME order \in [Orders -> OrderStatus], NEW o \in Orders \cup {None},
           NEW s \in OrderStatus, SetOrder(o, s)
    PROVE  order' \in [Orders -> OrderStatus]
<1>1. CASE o = None
  BY <1>1 DEF SetOrder
<1>2. CASE o # None
  BY <1>2 DEF SetOrder
<1> QED BY <1>1, <1>2

\* The unlocked steps of the handlers keep the types.
LEMMA UnlockedType == TypeOK /\ Unlocked => TypeOK'
<1> SUFFICES ASSUME TypeOK, Unlocked PROVE TypeOK'
  OBVIOUS
<1> USE DEF central, edge, budget
<1>1. ASSUME NEW t \in Threads, NEW it \in op[t].todo
      PROVE  /\ it \in Item /\ op[t].todo \ {it} \in SUBSET Item
             /\ op[t] \in Operation
  BY DEF TypeOK, Operation
<1>2. ASSUME NEW t \in Threads, NEW it \in op[t].todo, Done(t, it)
      PROVE  /\ op' \in [Threads -> Operation]
             /\ held' \in [Threads -> [Ids -> Command]]
  BY <1>1, <1>2, ContinueType DEF Done
<1>3. ASSUME NEW t \in Threads PROVE [snap EXCEPT ![t] = Nothing] \in [Threads -> [Ids -> Command]]
  BY Placeholders DEF TypeOK
<1>4. ASSUME NEW t \in Threads, NEW i \in Ids PROVE Object(t, i) \in Command
  BY DEF Object, TypeOK
<1>5. ASSUME NEW t \in Threads, NEW it \in op[t].todo, Prepare(t, it) PROVE TypeOK'
  <2>1. op' \in [Threads -> Operation]
    <3>1. op[t] \in Operation
      BY <1>1
    <3>2. [op[t] EXCEPT !.pc = "writing"] \in Operation
      BY <3>1 DEF Operation
    <3> QED BY <1>5, <3>2 DEF Prepare, TypeOK
  <2>2. snap' \in [Threads -> [Ids -> Command]]
    BY <1>4, <1>5, Placeholders DEF Prepare, TypeOK
  <2> QED BY <1>5, <2>1, <2>2 DEF Prepare, TypeOK
<1>6. ASSUME NEW t \in Threads, NEW it \in op[t].todo, Save(t, it) PROVE TypeOK'
  <2>1. db' \in [Ids -> Command]
    BY <1>6 DEF Save, TypeOK
  <2>2. op' \in [Threads -> Operation] /\ held' \in [Threads -> [Ids -> Command]]
    BY <1>2, <1>6 DEF Save
  <2>3. snap' \in [Threads -> [Ids -> Command]]
    BY <1>3, <1>6 DEF Save
  <2> QED BY <1>6, <2>1, <2>2, <2>3 DEF Save, TypeOK
<1>7. ASSUME NEW t \in Threads, NEW it \in op[t].todo, ProjectOrder(t, it) PROVE TypeOK'
  <2>1. order' \in [Orders -> OrderStatus]
    <3>1. it.ord \in Orders \cup {None} /\ (it.what = "order" => it.as \in OrderStatus)
      BY <1>1 DEF Item, ItemRecord
    <3>2. it.as \in OrderStatus /\ SetOrder(it.ord, it.as)
      BY <1>7, <3>1 DEF ProjectOrder
    <3> QED BY <3>1, <3>2, SetOrderType DEF TypeOK
  <2>2. op' \in [Threads -> Operation] /\ held' \in [Threads -> [Ids -> Command]]
    BY <1>2, <1>7 DEF ProjectOrder
  <2> QED BY <1>7, <2>1, <2>2 DEF ProjectOrder, TypeOK
<1>8. ASSUME NEW t \in Threads, NEW it \in op[t].todo, ProjectVerdict(t, it) PROVE TypeOK'
  <2>1. order' \in [Orders -> OrderStatus]
    <3>1. it.ord \in Orders \cup {None} /\ it.ids \subseteq Ids
      BY <1>1 DEF Item, ItemRecord
    <3>2. \A v : OrderOfVerdict(v) \in OrderStatus
      BY DEF OrderOfVerdict, OrderStatus
    <3>3. order' = order \/ \E v : SetOrder(it.ord, OrderOfVerdict(v))
      BY <1>8 DEF ProjectVerdict
    <3> QED BY <3>1, <3>2, <3>3, SetOrderType DEF TypeOK
  <2>2. op' \in [Threads -> Operation] /\ held' \in [Threads -> [Ids -> Command]]
    BY <1>2, <1>8 DEF ProjectVerdict
  <2> QED BY <1>8, <2>1, <2>2 DEF ProjectVerdict, TypeOK
<1>9. ASSUME NEW t \in Threads, NEW it \in op[t].todo, SetSuggestion(t, it) PROVE TypeOK'
  <2>1. sugg' \in [Ids -> SuggestionStatus \cup {None}]
    <3>1. it.what = "suggest" => it.as \in SuggestionStatus
      BY <1>1 DEF Item
    <3> QED BY <1>9, <3>1 DEF SetSuggestion, TypeOK
  <2>2. op' \in [Threads -> Operation] /\ held' \in [Threads -> [Ids -> Command]]
    BY <1>2, <1>9 DEF SetSuggestion
  <2> QED BY <1>9, <2>1, <2>2 DEF SetSuggestion, TypeOK
<1>10. fails < MaxFails => fails + 1 \in 0..MaxFails
  BY ConstantsAssumption DEF TypeOK
<1>11. ASSUME NEW t \in Threads, NEW it \in op[t].todo, SaveFails(t, it) PROVE TypeOK'
  <2>1. /\ op' \in [Threads -> Operation] /\ held' \in [Threads -> [Ids -> Command]]
    <3>1. CASE Primary /\ it.what = "save"
      <4>1. op' = Ended(t) /\ held' = Released(t)
        BY <1>11, <3>1 DEF SaveFails
      <4> QED BY <4>1, Placeholders DEF Ended, Released, TypeOK
    <3>2. CASE ~(Primary /\ it.what = "save")
      <4>1. Done(t, it)
        BY <1>11, <3>2 DEF SaveFails
      <4> QED BY <1>2, <4>1
    <3> QED BY <3>1, <3>2
  <2>2. snap' \in [Threads -> [Ids -> Command]]
    BY <1>3, <1>11 DEF SaveFails
  <2> QED BY <1>10, <1>11, <2>1, <2>2 DEF SaveFails, TypeOK
<1>12. ASSUME NEW t \in Threads, NEW it \in op[t].todo, SuggestionFails(t, it)
       PROVE  TypeOK'
  <2>1. it.ids \subseteq Ids
    BY <1>1 DEF Item, ItemRecord
  <2>2. PICK i \in Ids :
          LET open == mem[i].status \in (Status \ TerminalStatus) \ {"executed"}
          IN  /\ mem' = IF open
                        THEN [mem EXCEPT ![i].status = "cancelled", ![i].msg = "system"]
                        ELSE mem
              /\ Continue(t, IF open THEN {SaveItem(SavePhase, {i})} ELSE {})
    BY <1>12, <2>1 DEF SuggestionFails
  <2>3. mem' \in [Ids -> Command]
    <3>1. mem[i] \in Command /\ "cancelled" \in Status
      BY DEF TypeOK, Status
    <3>2. [mem[i] EXCEPT !.status = "cancelled", !.msg = "system"] \in Command
      BY <3>1 DEF Command
    <3>3. [mem EXCEPT ![i].status = "cancelled", ![i].msg = "system"]
            = [mem EXCEPT ![i] = [mem[i] EXCEPT !.status = "cancelled", !.msg = "system"]]
      BY DEF TypeOK
    <3> QED BY <2>2, <3>2, <3>3 DEF TypeOK
  <2>4. {SaveItem(SavePhase, {i})} \in SUBSET Item /\ {} \in SUBSET Item
    BY Phases DEF SaveItem, Item, ItemRecord
  <2>5. op' \in [Threads -> Operation] /\ held' \in [Threads -> [Ids -> Command]]
    BY <2>2, <2>4, ContinueType
  <2> QED BY <1>10, <1>12, <2>3, <2>5 DEF SuggestionFails, TypeOK
<1>13. ASSUME NEW t \in Threads, NEW delivered \in BOOLEAN, Finish(t, delivered)
       PROVE  TypeOK'
  <2>1. op' \in [Threads -> Operation] /\ held' \in [Threads -> [Ids -> Command]]
    BY <1>13, Placeholders DEF Finish, Ended, Released, TypeOK
  <2>2. fetch' \in [Nodes -> Threads \cup {None}]
    BY <1>13 DEF Finish, TypeOK
  <2>3. inbox' \in [Nodes -> SUBSET Message]
    <3>1. op[t].reply \subseteq Ids
      BY DEF TypeOK, Operation
    <3>2. ASSUME NEW i \in Ids PROVE Handed(t, i) \in Message
      BY <1>4 DEF Handed, Message, Command
    <3>3. {Handed(t, i) : i \in op[t].reply} \subseteq Message
      BY <3>1, <3>2
    <3> QED BY <1>13, <3>3 DEF Finish, TypeOK
  <2>4. ledger' \in [Nodes -> [Ids -> Entry]]
    <3>1. ledger' = ledger
          \/ ledger' = [ledger EXCEPT ![op[t].node][op[t].id].reported = TRUE]
      BY <1>13 DEF Finish
    <3>2. ASSUME NEW n \in Nodes, NEW i \in Ids
          PROVE  [ledger[n][i] EXCEPT !.reported = TRUE] \in Entry
      <4>1. ledger[n][i] \in Entry
        BY DEF TypeOK
      <4> QED BY <4>1 DEF Entry
    <3>3. ledger \in [Nodes -> [Ids -> Entry]]
      BY DEF TypeOK
    <3>4. CASE ledger' = [ledger EXCEPT ![op[t].node][op[t].id].reported = TRUE]
      <4> DEFINE nd == op[t].node
                 id == op[t].id
      <4>1. ledger' = [ledger EXCEPT ![nd] =
                         [ledger[nd] EXCEPT ![id] = [ledger[nd][id] EXCEPT !.reported = TRUE]]]
        BY <3>4
      <4> HIDE DEF nd, id
      <4>2. CASE nd \in Nodes /\ id \in Ids
        <5>1. [ledger[nd] EXCEPT ![id] = [ledger[nd][id] EXCEPT !.reported = TRUE]]
                \in [Ids -> Entry]
          BY <3>2, <3>3, <4>2
        <5> QED BY <3>3, <4>1, <4>2, <5>1
      <4>3. CASE nd \in Nodes /\ id \notin Ids
        <5>1. [ledger[nd] EXCEPT ![id] = [ledger[nd][id] EXCEPT !.reported = TRUE]]
                \in [Ids -> Entry]
          BY <3>3, <4>3
        <5> QED BY <3>3, <4>1, <4>3, <5>1
      <4>4. CASE nd \notin Nodes
        BY <3>3, <4>1, <4>4
      <4> QED BY <4>2, <4>3, <4>4
    <3> QED BY <3>1, <3>3, <3>4
  <2> QED BY <1>13, <2>1, <2>2, <2>3, <2>4 DEF Finish, TypeOK
<1> QED BY <1>5, <1>6, <1>7, <1>8, <1>9, <1>11, <1>12, <1>13 DEF Unlocked

\* What the agent and the network do keeps the types.
LEMMA EdgeType == TypeOK /\ Edge => TypeOK'
<1> SUFFICES ASSUME TypeOK, Edge PROVE TypeOK'
  OBVIOUS
<1> USE DEF central, edge, budget
<1>1. ASSUME NEW n \in Nodes, NEW m \in inbox[n], EdgeIgnore(n, m) PROVE TypeOK'
  <2>1. inbox' \in [Nodes -> SUBSET Message]
    BY <1>1 DEF EdgeIgnore, TypeOK
  <2> QED BY <1>1, <2>1 DEF EdgeIgnore, TypeOK
<1>2. ASSUME NEW n \in Nodes, NEW m \in inbox[n], NEW res \in {"executed", "failed"},
             EdgeApply(n, m, res)
      PROVE  TypeOK'
  <2>1. m \in Message
    BY DEF TypeOK
  <2>2. /\ m.id \in Ids /\ m.kind \in Kind \cup {None} /\ m.order \in Orders \cup {None}
        /\ m.rate \in Rates \cup {None} /\ m.cleared \in BOOLEAN
    BY <2>1 DEF Message
  <2> DEFINE key == IF m.keyed THEN m.order ELSE None
             e == [res |-> res, reported |-> FALSE, kind |-> m.kind, key |-> key,
                   rate |-> m.rate, cleared |-> m.cleared]
  <2>3. key \in Orders \cup {None}
    BY <2>2
  <2>4. /\ ledger' = [ledger EXCEPT ![n][m.id] = e]
        /\ rate' = IF res = "executed" THEN [rate EXCEPT ![n] = m.rate] ELSE rate
        /\ inbox' = [inbox EXCEPT ![n] = @ \ {m}]
    BY <1>2 DEF EdgeApply
  <2> HIDE DEF key
  <2>5. e \in Entry
    BY <2>2, <2>3 DEF Entry
  <2> HIDE DEF e
  <2>6. ledger' \in [Nodes -> [Ids -> Entry]]
    BY <2>2, <2>4, <2>5 DEF TypeOK
  <2>7. rate' \in [Nodes -> Rates \cup {None}] /\ inbox' \in [Nodes -> SUBSET Message]
    BY <2>2, <2>4 DEF TypeOK
  <2> QED BY <1>2, <2>6, <2>7 DEF EdgeApply, TypeOK
<1>3. ASSUME NEW n \in Nodes, NEW i \in Ids, EdgePost(n, i) \/ PostLost(n, i)
      PROVE  TypeOK'
  <2>1. posts' \in [Nodes -> [Ids -> 0..MaxPosts]]
    <3>1. posts[n][i] \in 0..MaxPosts /\ posts \in [Nodes -> [Ids -> 0..MaxPosts]]
      BY DEF TypeOK
    <3>2. PICK k \in 0..MaxPosts : posts' = [posts EXCEPT ![n][i] = k]
      <4>1. CASE EdgePost(n, i)
        <5>1. posts' = [posts EXCEPT ![n][i] = posts[n][i] + 1] /\ posts[n][i] < MaxPosts
          BY <4>1 DEF EdgePost
        <5>2. posts[n][i] + 1 \in 0..MaxPosts
          BY <3>1, <5>1, ConstantsAssumption
        <5> QED BY <5>1, <5>2
      <4>2. CASE PostLost(n, i)
        <5>1. posts' = [posts EXCEPT ![n][i] = posts[n][i] - 1] /\ posts[n][i] > 0
          BY <4>2 DEF PostLost
        <5>2. posts[n][i] - 1 \in 0..MaxPosts
          BY <3>1, <5>1, ConstantsAssumption
        <5> QED BY <5>1, <5>2
      <4> QED BY <1>3, <4>1, <4>2
    <3> QED BY <3>1, <3>2
  <2> QED BY <1>3, <2>1 DEF EdgePost, PostLost, TypeOK
<1>4. ASSUME NEW n \in Nodes, EdgeGivesUp(n) PROVE TypeOK'
  <2>1. fetch' \in [Nodes -> Threads \cup {None}] /\ inbox' \in [Nodes -> SUBSET Message]
    BY <1>4 DEF EdgeGivesUp, TypeOK
  <2> QED BY <1>4, <2>1 DEF EdgeGivesUp, TypeOK
<1> QED BY <1>1, <1>2, <1>3, <1>4 DEF Edge

\* Reloading the list, and a restart, keep the types.
LEMMA ReloadType == TypeOK /\ (Refresh \/ Restart) => TypeOK'
<1> SUFFICES ASSUME TypeOK, Refresh \/ Restart PROVE TypeOK'
  OBVIOUS
<1> USE DEF central, edge, budget
<1>1. mem' \in [Ids -> Command]
  <2>1. mem' = Trim(db) /\ db \in [Ids -> Command]
    BY DEF Refresh, Restart, TypeOK
  <2> QED BY <2>1, ListTypes
<1>2. CASE Refresh
  <2>1. held' \in [Threads -> [Ids -> Command]]
    BY <1>2, DetachType DEF Refresh, TypeOK
  <2> QED BY <1>1, <1>2, <2>1 DEF Refresh, TypeOK
<1>3. CASE Restart
  <2>1. /\ op' \in [Threads -> Operation] /\ held' \in [Threads -> [Ids -> Command]]
        /\ snap' \in [Threads -> [Ids -> Command]]
    BY <1>3, Placeholders DEF Restart
  <2>2. restarts' \in 0..MaxRestarts /\ fetch' \in [Nodes -> Threads \cup {None}]
    BY <1>3, ConstantsAssumption DEF Restart, TypeOK
  <2> QED BY <1>1, <1>3, <2>1, <2>2 DEF Restart, TypeOK
<1> QED BY <1>2, <1>3

\* The initial state is of the right types.
LEMMA InitType == Init => TypeOK
<1> SUFFICES ASSUME Init PROVE TypeOK
  OBVIOUS
<1>1. /\ mem \in [Ids -> Command] /\ db \in [Ids -> Command]
      /\ op \in [Threads -> Operation]
      /\ held \in [Threads -> [Ids -> Command]] /\ snap \in [Threads -> [Ids -> Command]]
      /\ ledger \in [Nodes -> [Ids -> Entry]]
  BY Placeholders DEF Init
<1>2. order \in [Orders -> OrderStatus] /\ sugg \in [Ids -> SuggestionStatus \cup {None}]
  BY DEF Init, OrderStatus
<1>3. /\ rate \in [Nodes -> Rates \cup {None}] /\ inbox \in [Nodes -> SUBSET Message]
      /\ fetch \in [Nodes -> Threads \cup {None}]
  BY DEF Init
<1>4. /\ posts \in [Nodes -> [Ids -> 0..MaxPosts]] /\ handouts \in [Ids -> 0..2]
      /\ requests \in 0..MaxRequests /\ fails \in 0..MaxFails /\ restarts \in 0..MaxRestarts
  BY ConstantsAssumption DEF Init
<1> QED BY <1>1, <1>2, <1>3, <1>4 DEF TypeOK

-----------------------------------------------------------------------------
(* What a step may do to a handler *)

\* A handler with nothing left to save, and one that waits between review and
\* lock, refers to no object.
Quiet(w) == w.reply = {} /\ w.todo = {}
IdleIsQuiet ==
    \A t \in Threads : op[t].pc \in {"idle", "reviewed"} => Quiet(op[t])

\* How thread u may change: it leaves the review behind with no more answers
\* than it had, it has just reviewed a command, or it has just claimed some.
Shrinks(u) ==
    /\ op'[u].pc # "reviewed" /\ op'[u].reply \subseteq op[u].reply
    /\ op'[u].pc = "idle" => Quiet(op'[u])
Reviews(u) ==
    /\ Quiet(op'[u]) /\ op'[u].pc = "reviewed" /\ op[u].pc = "idle"
    /\ op'[u].id \in Ids /\ mem[op'[u].id].status # "absent"
    /\ op'[u].kind = mem[op'[u].id].kind
    /\ op'[u].act \in {"approve", "retry"} => ConfirmationGate(HighRisk(op'[u].kind), op'[u].code)
Claims(u) ==
    /\ op'[u].pc \notin {"idle", "reviewed"} /\ op[u].pc = "idle"
    /\ \A i \in op'[u].reply : i \in Ids /\ mem[i].status = "pending"
OpShrinks == \A u \in Threads : op'[u] = op[u] \/ Shrinks(u)
OpMoves == \A u \in Threads : op'[u] = op[u] \/ Shrinks(u) \/ Reviews(u) \/ Claims(u)

\* Saving moves one handler, away from any review.
LEMMA SavingMoves ==
    ASSUME op \in [Threads -> Operation], NEW t \in Threads, NEW w,
           op' = Saving(t, w), w.reply \subseteq op[t].reply,
           [w EXCEPT !.pc = "saving"].pc = "saving",
           [w EXCEPT !.pc = "saving"].reply = w.reply
    PROVE  OpMoves /\ OpShrinks
<1>1. Idle.pc = "idle" /\ Idle.reply = {} /\ Idle.todo = {}
  BY DEF Idle
<1>2. op'[t] = Idle \/ op'[t] = [w EXCEPT !.pc = "saving"]
  BY DEF Saving
<1>3. Shrinks(t)
  BY <1>1, <1>2 DEF Shrinks, Quiet
<1>4. \A u \in Threads : u # t => op'[u] = op[u]
  BY DEF Saving
<1> QED BY <1>3, <1>4 DEF OpMoves, OpShrinks

\* A handler that starts with nothing but saves hands out nothing.
LEMMA FreshMoves ==
    ASSUME op \in [Threads -> Operation], NEW t \in Threads, NEW td,
           op' = Saving(t, [Idle EXCEPT !.todo = td])
    PROVE  OpMoves /\ OpShrinks
<1> DEFINE w == [Idle EXCEPT !.todo = td]
<1>1. /\ w.reply = {} /\ [w EXCEPT !.pc = "saving"].pc = "saving"
      /\ [w EXCEPT !.pc = "saving"].reply = w.reply
  BY DEF Idle
<1> HIDE DEF w
<1>2. op' = Saving(t, w)
  BY DEF w
<1> QED BY <1>1, <1>2, SavingMoves

\* A handler that goes on with its saves hands out nothing new.
LEMMA ContinueMoves ==
    ASSUME op \in [Threads -> Operation], NEW t \in Threads, NEW td, Continue(t, td)
    PROVE  OpMoves /\ OpShrinks
<1> DEFINE w == [op[t] EXCEPT !.todo = td]
<1>1. /\ w.reply = op[t].reply /\ [w EXCEPT !.pc = "saving"].pc = "saving"
      /\ [w EXCEPT !.pc = "saving"].reply = w.reply
  BY DEF Operation
<1>2. op' = Saving(t, w)
  BY DEF Continue
<1> HIDE DEF w
<1> QED BY <1>1, <1>2, SavingMoves

\* A handler that ends refers to no object any more.
LEMMA EndedMoves ==
    ASSUME op \in [Threads -> Operation], NEW t \in Threads, op' = Ended(t)
    PROVE  OpMoves /\ OpShrinks
<1>1. Idle.pc = "idle" /\ Idle.reply = {} /\ Idle.todo = {}
  BY DEF Idle
<1>2. op'[t] = Idle /\ \A u \in Threads : u # t => op'[u] = op[u]
  BY DEF Ended
<1> QED BY <1>1, <1>2 DEF OpMoves, OpShrinks, Shrinks, Quiet

\* Every step moves the handlers in one of these ways.
LEMMA OpStep == TypeOK /\ Next => OpMoves
<1> SUFFICES ASSUME TypeOK, Next PROVE OpMoves
  OBVIOUS
<1>0. op \in [Threads -> Operation]
  BY DEF TypeOK
<1>1. ASSUME UNCHANGED op PROVE OpMoves
  BY <1>1 DEF OpMoves
<1>2. ASSUME Proposal PROVE OpMoves
  <2>1. ASSUME NEW t \in Threads, NEW i, NEW c, NEW x, Create(t, i, c, x) PROVE OpMoves
    BY <1>0, <2>1, FreshMoves DEF Create
  <2>2. ASSUME NEW t \in Threads, NEW i \in Ids, ReissueDispatch(t, i) PROVE OpMoves
    BY <1>0, <2>2, FreshMoves DEF ReissueDispatch
  <2>3. ASSUME NEW t \in Threads, NEW k \in Issued, NEW n \in Nodes,
               NEW o \in Orders \cup {None}, NEW r \in Rates \cup {None}, Issue(t, k, n, o, r)
        PROVE  OpMoves
    BY <2>1, <2>3 DEF Issue
  <2>4. ASSUME NEW n \in Nodes, NEW i \in Ids, NEW saved \in BOOLEAN, Isolate(n, i, saved)
        PROVE  OpMoves
    BY <1>1, <2>4 DEF Isolate
  <2> QED BY <1>2, <2>2, <2>3, <2>4 DEF Proposal
<1>3. ASSUME Decision PROVE OpMoves
  <2>1. ASSUME NEW t \in Threads, NEW a \in Decisions, NEW i \in Ids,
               NEW code \in BOOLEAN, Review(t, a, i, code)
        PROVE  OpMoves
    <3> DEFINE w == [Idle EXCEPT !.pc = "reviewed", !.act = a, !.id = i,
                       !.kind = mem[i].kind, !.ord = mem[i].order, !.code = code]
    <3>1. /\ w.pc = "reviewed" /\ w.act = a /\ w.id = i /\ w.kind = mem[i].kind
          /\ w.code = code /\ w.reply = {} /\ w.todo = {}
      BY DEF Idle
    <3>2. /\ op[t].pc = "idle" /\ mem[i].status # "absent" /\ op' = [op EXCEPT ![t] = w]
          /\ a \in {"approve", "retry"} => ConfirmationGate(HighRisk(mem[i].kind), code)
      BY <2>1 DEF Review
    <3> HIDE DEF w
    <3>3. op'[t] = w /\ \A u \in Threads : u # t => op'[u] = op[u]
      BY <1>0, <3>2
    <3>4. Reviews(t)
      BY <3>1, <3>2, <3>3 DEF Reviews, Quiet
    <3> QED BY <3>3, <3>4 DEF OpMoves
  <2>2. ASSUME NEW t \in Threads, NEW a, NEW c, NEW td, Decide(t, a, c, td) PROVE OpMoves
    BY <1>0, <2>2, FreshMoves DEF Decide
  <2>3. ASSUME NEW t \in Threads, NEW i \in Ids, Retry(t, i) PROVE OpMoves
    BY <1>0, <2>3, FreshMoves DEF Retry, Create
  <2>4. ASSUME NEW t \in Threads, Refused(t) PROVE OpMoves
    BY <1>0, <2>4, EndedMoves DEF Refused
  <2> QED BY <1>3, <2>1, <2>2, <2>3, <2>4 DEF Decision, Approve, Reject, Cancel
<1>4. ASSUME AgentRequest PROVE OpMoves
  <2>1. ASSUME NEW t \in Threads, NEW n \in Nodes, NEW S \in SUBSET Ids, Claim(t, n, S)
        PROVE  OpMoves
    <3> DEFINE C == {i \in Ids : Claimable(i, n)}
               td == SaveEach(S) \cup (IF C = {} THEN {} ELSE {SaveItem(SavePhase, C)})
               w == [Idle EXCEPT !.act = "claim", !.node = n, !.reply = C, !.todo = td]
    <3>1. op[t].pc = "idle" /\ op' = Saving(t, w)
      BY <2>1 DEF Claim
    <3>2. /\ w.act = "claim" /\ [w EXCEPT !.pc = "saving"].pc = "saving"
          /\ [w EXCEPT !.pc = "saving"].reply = C
      BY DEF Idle
    <3>3. \A i \in C : i \in Ids /\ mem[i].status = "pending"
      BY DEF Claimable
    <3> HIDE DEF w, C
    <3>4. op'[t] = [w EXCEPT !.pc = "saving"] /\ \A u \in Threads : u # t => op'[u] = op[u]
      BY <1>0, <3>1, <3>2 DEF Saving
    <3>5. Claims(t)
      BY <3>1, <3>2, <3>3, <3>4 DEF Claims
    <3> QED BY <3>4, <3>5 DEF OpMoves
  <2>2. ASSUME NEW t \in Threads, NEW S \in SUBSET Ids, ExpireScan(t, S) PROVE OpMoves
    BY <1>0, <2>2, FreshMoves DEF ExpireScan
  <2>3. ASSUME NEW t \in Threads, NEW n \in Nodes, NEW i \in Ids, RecordResult(t, n, i)
        PROVE  OpMoves
    <3> DEFINE w == [Idle EXCEPT !.act = "result", !.node = n, !.id = i]
               v == [w EXCEPT !.todo = {SaveItem(SavePhase, {i})}]
    <3>1. /\ w.reply = {} /\ [w EXCEPT !.pc = "saving"].pc = "saving"
          /\ [w EXCEPT !.pc = "saving"].reply = w.reply
      BY DEF Idle
    <3>2. /\ v.reply = {} /\ [v EXCEPT !.pc = "saving"].pc = "saving"
          /\ [v EXCEPT !.pc = "saving"].reply = v.reply
      BY DEF Idle
    <3>3. op' = op \/ op' = Saving(t, w) \/ op' = Saving(t, v)
      BY <2>3 DEF RecordResult
    <3> HIDE DEF w, v
    <3>4. CASE op' = Saving(t, w)
      BY <1>0, <3>1, <3>4, SavingMoves
    <3>5. CASE op' = Saving(t, v)
      BY <1>0, <3>2, <3>5, SavingMoves
    <3> QED BY <1>1, <3>3, <3>4, <3>5
  <2>4. ASSUME NEW t \in Threads, NEW n \in Nodes, NEW scene \in [Ids -> Scenes],
               Heartbeat(t, n, scene)
        PROVE  OpMoves
    BY <1>0, <2>4, FreshMoves DEF Heartbeat
  <2> QED BY <1>4, <2>1, <2>2, <2>3, <2>4 DEF AgentRequest
<1>5. ASSUME Unlocked PROVE OpMoves
  <2>1. ASSUME NEW t \in Threads, NEW it, Prepare(t, it) PROVE OpMoves
    <3>1. /\ op'[t].pc = "writing" /\ op'[t].reply = op[t].reply
          /\ \A u \in Threads : u # t => op'[u] = op[u]
      BY <1>0, <2>1 DEF Prepare, Operation
    <3> QED BY <3>1 DEF OpMoves, Shrinks
  <2>2. ASSUME NEW t \in Threads, NEW td, Continue(t, td) PROVE OpMoves
    BY <1>0, <2>2, ContinueMoves
  <2>3. ASSUME NEW t \in Threads, op' = Ended(t) PROVE OpMoves
    BY <1>0, <2>3, EndedMoves
  <2>4. ASSUME NEW t \in Threads, NEW it,
               Save(t, it) \/ ProjectOrder(t, it) \/ ProjectVerdict(t, it)
               \/ SetSuggestion(t, it)
        PROVE  OpMoves
    <3>1. Continue(t, op[t].todo \ {it})
      BY <2>4 DEF Save, ProjectOrder, ProjectVerdict, SetSuggestion, Done
    <3> QED BY <2>2, <3>1
  <2>5. ASSUME NEW t \in Threads, NEW it, SaveFails(t, it) PROVE OpMoves
    <3>1. op' = Ended(t) \/ Continue(t, op[t].todo \ {it})
      BY <2>5 DEF SaveFails, Done
    <3> QED BY <2>2, <2>3, <3>1
  <2>6. ASSUME NEW t \in Threads, NEW it, SuggestionFails(t, it) PROVE OpMoves
    <3>1. \E td : Continue(t, td)
      BY <2>6 DEF SuggestionFails
    <3> QED BY <2>2, <3>1
  <2>7. ASSUME NEW t \in Threads, NEW d \in BOOLEAN, Finish(t, d) PROVE OpMoves
    <3>1. op' = Ended(t)
      BY <2>7 DEF Finish
    <3> QED BY <2>3, <3>1
  <2> QED BY <1>5, <2>1, <2>4, <2>5, <2>6, <2>7 DEF Unlocked
<1>6. ASSUME Restart PROVE OpMoves
  <2>1. Idle.pc = "idle" /\ Idle.reply = {} /\ Idle.todo = {}
    BY DEF Idle
  <2>2. \A u \in Threads : op'[u] = Idle
    BY <1>6 DEF Restart
  <2> QED BY <2>1, <2>2 DEF OpMoves, Shrinks, Quiet
<1>7. ASSUME Edge \/ Refresh PROVE OpMoves
  BY <1>1, <1>7 DEF Edge, Refresh, EdgeIgnore, EdgeApply, EdgePost, PostLost, EdgeGivesUp,
                    central
<1> QED BY <1>2, <1>3, <1>4, <1>5, <1>6, <1>7 DEF Next

\* A review names its command, and an idle handler refers to no object.
LEMMA HandlerStep ==
    TypeOK /\ ReviewedHasId /\ IdleIsQuiet /\ Next => ReviewedHasId' /\ IdleIsQuiet'
  BY OpStep DEF OpMoves, Shrinks, Reviews, Claims, ReviewedHasId, IdleIsQuiet

\* The types of CommandLoop: every field, also of the copies that requests,
\* rows, answers and ledgers carry, stays in its domain, whatever the order of
\* saves, failures, reloads and restarts.
THEOREM TypeCorrect == Spec => []TypeOK
<1> DEFINE Inv == TypeOK /\ ReviewedHasId
<1>1. Init => Inv
  BY InitType DEF Init, ReviewedHasId, Idle
<1>2. Inv /\ [Next]_vars => Inv'
  <2> SUFFICES ASSUME TypeOK, ReviewedHasId, [Next]_vars PROVE TypeOK' /\ ReviewedHasId'
    OBVIOUS
  <2>1. CASE UNCHANGED vars
    BY <2>1 DEF vars, TypeOK, ReviewedHasId
  <2>2. CASE Next
    <3>1. TypeOK'
      BY <2>2, ProposalType, DecisionType, AgentRequestType, UnlockedType, ReloadType,
         EdgeType DEF Next
    <3>2. ReviewedHasId'
      BY <2>2, OpStep DEF OpMoves, Shrinks, Reviews, Claims, ReviewedHasId
    <3> QED BY <3>1, <3>2
  <2> QED BY <2>1, <2>2
<1>3. Inv => TypeOK
  OBVIOUS
<1> QED BY <1>1, <1>2, <1>3, PTL DEF Spec

\* The agent's ledger makes delivery idempotent: a second delivery, a repeated
\* answer or a reused id never replaces the result recorded for an id.
THEOREM LedgerIsFinal == Spec => ExecutedOnce
<1> DEFINE Keep == \A n \in Nodes, i \in Ids :
                     ledger[n][i].res # "none" => ledger'[n][i].res = ledger[n][i].res
<1>1. TypeOK /\ [Next]_vars => [Keep]_vars
  <2> SUFFICES ASSUME TypeOK, Next PROVE Keep
    OBVIOUS
  <2> USE DEF central, edge, budget
  <2>0. ledger \in [Nodes -> [Ids -> Entry]]
    BY DEF TypeOK
  <2>1. CASE UNCHANGED ledger
    BY <2>1
  <2>2. ASSUME NEW t \in Threads,
               ledger' = [ledger EXCEPT ![op[t].node][op[t].id].reported = TRUE]
        PROVE  Keep
    <3> SUFFICES ASSUME NEW n \in Nodes, NEW i \in Ids PROVE ledger'[n][i].res = ledger[n][i].res
      OBVIOUS
    <3>1. ledger[n][i] \in Entry
      BY <2>0
    <3>2. \/ ledger'[n][i] = ledger[n][i]
          \/ ledger'[n][i] = [ledger[n][i] EXCEPT !.reported = TRUE]
      BY <2>0, <2>2
    <3> QED BY <3>1, <3>2 DEF Entry
  <2>3. ASSUME NEW n \in Nodes, NEW m \in inbox[n], NEW res \in {"executed", "failed"},
               EdgeApply(n, m, res)
        PROVE  Keep
    <3>1. ledger[n][m.id].res = "none"
      BY <2>3 DEF EdgeApply, InLedger
    <3>2. \A p \in Nodes, i \in Ids : p # n \/ i # m.id => ledger'[p][i] = ledger[p][i]
      BY <2>0, <2>3 DEF EdgeApply
    <3> QED BY <3>1, <3>2
  <2>4. CASE Proposal \/ Decision \/ AgentRequest \/ Refresh \/ Restart
    <3>1. CASE Proposal
      <4>1. ASSUME NEW t \in Threads, NEW k \in Issued, NEW n \in Nodes,
                   NEW o \in Orders \cup {None}, NEW r \in Rates \cup {None},
                   Issue(t, k, n, o, r)
            PROVE  Keep
        BY <2>1, <4>1 DEF Issue
      <4>2. ASSUME NEW t \in Threads, NEW i \in Ids, ReissueDispatch(t, i) PROVE Keep
        BY <2>1, <4>2 DEF ReissueDispatch
      <4>3. ASSUME NEW n \in Nodes, NEW i \in Ids, NEW saved \in BOOLEAN, Isolate(n, i, saved)
            PROVE  Keep
        BY <2>1, <4>3 DEF Isolate
      <4> QED BY <3>1, <4>1, <4>2, <4>3 DEF Proposal
    <3>2. CASE Decision
      BY <2>1, <3>2 DEF Decision, Review, Refused, Approve, Reject, Cancel, Decide, Retry
    <3>3. CASE AgentRequest
      <4>1. ASSUME NEW t \in Threads, NEW n \in Nodes, NEW S \in SUBSET Ids, Claim(t, n, S)
            PROVE  Keep
        BY <2>1, <4>1 DEF Claim
      <4>2. ASSUME NEW t \in Threads, NEW S \in SUBSET Ids, ExpireScan(t, S) PROVE Keep
        BY <2>1, <4>2 DEF ExpireScan
      <4>3. ASSUME NEW t \in Threads, NEW n \in Nodes, NEW i \in Ids, RecordResult(t, n, i)
            PROVE  Keep
        BY <2>1, <4>3 DEF RecordResult
      <4>4. ASSUME NEW t \in Threads, NEW n \in Nodes, NEW scene \in [Ids -> Scenes],
                   Heartbeat(t, n, scene)
            PROVE  Keep
        BY <2>1, <4>4 DEF Heartbeat
      <4> QED BY <3>3, <4>1, <4>2, <4>3, <4>4 DEF AgentRequest
    <3>4. CASE Refresh \/ Restart
      BY <2>1, <3>4 DEF Refresh, Restart
    <3> QED BY <2>4, <3>1, <3>2, <3>3, <3>4
  <2>5. CASE Unlocked
    <3>1. ASSUME NEW t \in Threads, NEW delivered \in BOOLEAN, Finish(t, delivered)
          PROVE  Keep
      BY <2>1, <2>2, <3>1 DEF Finish
    <3>2. ASSUME NEW t \in Threads, NEW it \in op[t].todo,
                 \/ Prepare(t, it) \/ Save(t, it) \/ ProjectOrder(t, it)
                 \/ ProjectVerdict(t, it) \/ SetSuggestion(t, it) \/ SaveFails(t, it)
                 \/ SuggestionFails(t, it)
          PROVE  Keep
      <4>1. UNCHANGED ledger
        BY <3>2 DEF Prepare, Save, ProjectOrder, ProjectVerdict, SetSuggestion, SaveFails,
                    SuggestionFails
      <4> QED BY <2>1, <4>1
    <3> QED BY <2>5, <3>1, <3>2 DEF Unlocked
  <2>6. CASE Edge
    BY <2>1, <2>3, <2>6 DEF Edge, EdgeIgnore, EdgePost, PostLost, EdgeGivesUp
  <2> QED BY <2>4, <2>5, <2>6 DEF Next
<1>2. Spec => []TypeOK
  BY TypeCorrect
<1> QED BY <1>1, <1>2, PTL DEF Spec, ExecutedOnce

-----------------------------------------------------------------------------
(***************************************************************************)
(* No high-risk command is released without a confirmed review, for every  *)
(* number of nodes, handlers and ids, when the in-memory list is not       *)
(* reloaded while the central API runs (~Primary).                         *)
(*                                                                         *)
(* HighRiskGoverned is not inductive.  A review is made before the lock is *)
(* taken, so its kind must still be the command's kind (ReviewedKinds),    *)
(* which fails if an evicted id could be given out again (OldIds).  An     *)
(* answer is built from the command objects after the lock is released,    *)
(* so what a handler is about to answer must stay cleared (AnswersClear),  *)
(* whoever cancels or evicts the command meanwhile; and a handler that     *)
(* starts must not find copies of an earlier request (IdleHoldsNothing).   *)
(***************************************************************************)

Clear(c) == HighRisk(c.kind) => c.cleared

ReviewedKinds ==
    \A t \in Threads : op[t].pc = "reviewed" =>
        /\ op[t].act \in {"approve", "retry"} =>
              ConfirmationGate(HighRisk(op[t].kind), op[t].code)
        /\ mem[op[t].id].status # "absent" => mem[op[t].id].kind = op[t].kind

\* List f has a command at least as new as i.
Outlived(f, i) == \E j \in Present(f) : i <= j

OldIds ==
    \A t \in Threads : /\ op[t].pc = "reviewed" => Outlived(mem, op[t].id)
                       /\ \A i \in op[t].reply : Outlived(mem, i)

AnswersClear == \A t \in Threads : \A i \in op[t].reply : Clear(Object(t, i))

IdleHoldsNothing ==
    \A t \in Threads, i \in Ids :
        op[t].pc \in {"idle", "reviewed"} => held[t][i].status = "absent"

Handlers == ReviewedKinds /\ OldIds /\ AnswersClear /\ IdleHoldsNothing

IInv == TypeOK /\ ReviewedHasId /\ IdleIsQuiet /\ HighRiskGoverned /\ Handlers

-----------------------------------------------------------------------------
(* Steps that change listed commands in place *)

Keeps(c, d) ==
    /\ d.kind = c.kind /\ Governed(d)
    /\ c.status = "absent" <=> d.status = "absent"
    /\ Clear(c) => Clear(d)

KeepsAll == \A i \in Ids : Keeps(mem[i], mem'[i])

\* A handler's copies stay while it may need them.
HeldMoves ==
    \A u \in Threads :
        \/ /\ held'[u] = held[u]
           /\ op[u].pc \notin {"idle", "reviewed"} => op'[u].pc \notin {"idle", "reviewed"}
        \/ held'[u] = Nothing /\ Quiet(op'[u]) /\ op'[u].pc = "idle"

\* An absent command is governed and clear.
LEMMA AbsentFacts ==
    /\ Absent.status = "absent" /\ Governed(Absent) /\ Clear(Absent)
    /\ \A i \in Ids : Nothing[i] = Absent
  BY DEF Absent, Governed, Withheld, Clear, HighRisk, None, Nothing

\* A step that leaves the list alone keeps every command.
LEMMA UnchangedKeeps ==
    ASSUME HighRiskGoverned, mem' = mem PROVE KeepsAll
  BY DEF KeepsAll, Keeps, HighRiskGoverned

\* In-place steps preserve what reviews and answers rely on.
LEMMA InPlaceHandlers ==
    ASSUME IInv, OpMoves, KeepsAll, HeldMoves, TypeOK'
    PROVE  Handlers'
<1> USE DEF IInv, Handlers
<1>0. op \in [Threads -> Operation] /\ op' \in [Threads -> Operation]
  BY DEF TypeOK
<1>1. \A i \in Ids : /\ mem'[i].kind = mem[i].kind
                     /\ mem[i].status = "absent" <=> mem'[i].status = "absent"
                     /\ Clear(mem[i]) => Clear(mem'[i])
  BY DEF KeepsAll, Keeps
<1>2. \A i \in Ids : Outlived(mem, i) => Outlived(mem', i)
  BY <1>1 DEF Outlived, Present
<1>3. ReviewedKinds'
  <2> SUFFICES ASSUME NEW u \in Threads, op'[u].pc = "reviewed"
               PROVE  /\ op'[u].act \in {"approve", "retry"} =>
                            ConfirmationGate(HighRisk(op'[u].kind), op'[u].code)
                      /\ mem'[op'[u].id].status # "absent" =>
                            mem'[op'[u].id].kind = op'[u].kind
    BY DEF ReviewedKinds
  <2>1. CASE op'[u] = op[u]
    <3>1. op[u].id \in Ids
      BY <2>1 DEF ReviewedHasId
    <3> QED BY <1>1, <2>1, <3>1 DEF ReviewedKinds
  <2>2. CASE Reviews(u)
    BY <1>1, <2>2 DEF Reviews
  <2> QED BY <2>1, <2>2 DEF OpMoves, Shrinks, Claims
<1>4. OldIds'
  <2> SUFFICES ASSUME NEW u \in Threads
               PROVE  /\ op'[u].pc = "reviewed" => Outlived(mem', op'[u].id)
                      /\ \A i \in op'[u].reply : Outlived(mem', i)
    BY DEF OldIds
  <2>0. op[u].reply \subseteq Ids /\ (op[u].pc = "reviewed" => op[u].id \in Ids)
    BY <1>0 DEF Operation, ReviewedHasId
  <2>1. CASE op'[u] = op[u] \/ Shrinks(u)
    BY <1>2, <2>0, <2>1 DEF OldIds, Shrinks
  <2>2. \A i \in Ids : mem[i].status # "absent" => Outlived(mem, i)
    BY DEF Outlived, Present, Ids
  <2>3. CASE Reviews(u)
    BY <1>2, <2>2, <2>3 DEF Reviews, Quiet
  <2>4. CASE Claims(u)
    BY <1>2, <2>2, <2>4 DEF Claims
  <2> QED BY <2>1, <2>3, <2>4 DEF OpMoves
<1>5. AnswersClear'
  <2> SUFFICES ASSUME NEW u \in Threads, NEW i \in op'[u].reply
               PROVE  Clear(Object(u, i)')
    BY DEF AnswersClear, Clear
  <2>1. i \in Ids
    BY <1>0 DEF Operation
  <2>2. held'[u] = held[u]
    BY DEF HeldMoves, Quiet
  <2>3. Clear(Object(u, i)) => Clear(Object(u, i)')
    BY <1>1, <2>1, <2>2 DEF Object
  <2>4. CASE op'[u] = op[u] \/ Shrinks(u)
    BY <2>3, <2>4 DEF Shrinks, AnswersClear
  <2>5. CASE Claims(u)
    <3>1. mem[i].status = "pending" /\ op[u].pc = "idle"
      BY <2>5 DEF Claims
    <3>2. Clear(mem[i])
      BY <2>1, <3>1 DEF HighRiskGoverned, Governed, Withheld, Clear
    <3>3. Object(u, i) = mem[i]
      BY <2>1, <3>1 DEF IdleHoldsNothing, Object
    <3> QED BY <2>3, <3>2, <3>3
  <2> QED BY <2>4, <2>5 DEF OpMoves, Reviews, Quiet
<1>6. IdleHoldsNothing'
  BY AbsentFacts DEF IdleHoldsNothing, HeldMoves
<1> QED BY <1>3, <1>4, <1>5, <1>6

\* Handlers whose copies and objects are left alone.
LEMMA SameHeld ==
    ASSUME held' = held, NEW t \in Threads, op[t].pc \in {"idle", "reviewed"},
           \A u \in Threads : u # t => op'[u] = op[u]
    PROVE  HeldMoves
  BY DEF HeldMoves

-----------------------------------------------------------------------------
(* Steps that create a command *)

Creates(i, c) ==
    LET f == WithCreated(i, c)
    IN  /\ IsNextId(i) /\ mem' = Trim(f)
        /\ held' = Detach(f, Present(f) \ Present(Trim(f)), op')

\* The command just created survives the trimming of the list.
LEMMA NewestStays ==
    ASSUME TypeOK, NEW i \in Ids, NEW c \in Command, c.status # "absent", IsNextId(i)
    PROVE  i \in Present(Trim(WithCreated(i, c)))
<1> DEFINE f == WithCreated(i, c)
<1>1. /\ f[i] = c
      /\ \A j \in Ids : j # i /\ f[j].status # "absent" => mem[j].status # "absent"
  BY DEF WithCreated, Replaced, OpenStatus
<1>2. \A j \in Present(f) : j = i \/ j < i
  BY <1>1 DEF Present, IsNextId
<1>3. {j \in Present(f) : j >= i} = {i}
  <2>1. i \in Present(f)
    BY <1>1 DEF Present
  <2>2. Present(f) \subseteq Nat /\ i \in Nat
    BY DEF Present, Ids
  <2> HIDE DEF f
  <2> QED BY <1>2, <2>1, <2>2
<1>4. Cardinality({i}) = 1
  BY FS_Singleton
<1>5. Trim(f)[i] = c
  <2> HIDE DEF f
  <2>1. Trim(f)[i] = IF Cardinality({j \in Present(f) : j >= i}) <= HistoryLimit
                     THEN f[i] ELSE Absent
    BY DEF Trim
  <2>2. Cardinality({j \in Present(f) : j >= i}) = 1
    BY <1>3, <1>4
  <2>3. 1 <= HistoryLimit
    BY ConstantsAssumption
  <2> QED BY <1>1, <2>1, <2>2, <2>3
<1> QED BY <1>5 DEF Present

\* What becomes of an older command in the list.
LEMMA CreatedKeeps ==
    ASSUME TypeOK, HighRiskGoverned, NEW i \in Ids, NEW c \in Command, Governed(c)
    PROVE  /\ \A j \in Ids : j # i => Keeps(mem[j], WithCreated(i, c)[j])
           /\ \A j \in Ids : Governed(WithCreated(i, c)[j])
<1>1. ASSUME NEW j \in Ids, j # i PROVE Keeps(mem[j], WithCreated(i, c)[j])
  <2>1. mem[j] \in Command /\ Governed(mem[j])
    BY DEF TypeOK, HighRiskGoverned
  <2>2. CASE WithCreated(i, c)[j] = mem[j]
    BY <2>1, <2>2 DEF Keeps
  <2>3. CASE WithCreated(i, c)[j] = Superseded(mem[j]) /\ mem[j].status \in OpenStatus
    BY <2>1, <2>3, SupersededType DEF Keeps, Governed, Withheld, Clear, OpenStatus
  <2> QED BY <1>1, <2>2, <2>3, WithCreatedType DEF TypeOK
<1>2. WithCreated(i, c)[i] = c
  BY WithCreatedType DEF TypeOK
<1> QED BY <1>1, <1>2 DEF Keeps

\* So does create_command, although it may evict the oldest command.
LEMMA CreateHandlers ==
    ASSUME IInv, NEW i \in Ids, NEW c \in Command, Governed(c), c.status # "absent",
           Creates(i, c), OpShrinks, TypeOK', IdleIsQuiet',
           \A u \in Threads : op'[u] = op[u] \/ op[u].pc \in {"idle", "reviewed"}
    PROVE  /\ Handlers'
           /\ \A j \in Ids : Governed(mem'[j])
           /\ \A u \in Threads, j \in Ids : Governed(held'[u][j])
<1> USE DEF IInv, Handlers
<1> DEFINE f == WithCreated(i, c)
<1>0. /\ op \in [Threads -> Operation] /\ op' \in [Threads -> Operation]
      /\ f \in [Ids -> Command]
  BY WithCreatedType DEF TypeOK
<1>1. /\ \A j \in Ids : j # i => Keeps(mem[j], f[j])
      /\ \A j \in Ids : Governed(f[j])
  BY CreatedKeeps
<1>2. i \in Present(Trim(f)) /\ IsNextId(i)
  BY NewestStays DEF Creates
<1>3. mem' = Trim(f) /\ held' = Detach(f, Present(f) \ Present(Trim(f)), op')
  BY DEF Creates
<1> HIDE DEF f
<1>4. \A j \in Ids : mem'[j] = f[j] \/ mem'[j] = Absent
  BY <1>0, <1>3, ListTypes
<1>5. \A u \in Threads, j \in Ids :
         \/ held'[u][j] = held[u][j]
         \/ held'[u][j] = f[j] /\ held[u][j].status = "absent" /\ j \in Touched(op'[u])
  BY <1>3 DEF Detach
<1>6. \A j \in Ids : Outlived(mem, j) => j # i /\ Outlived(mem', j)
  <2> SUFFICES ASSUME NEW j \in Ids, Outlived(mem, j) PROVE j # i /\ Outlived(mem', j)
    OBVIOUS
  <2>1. PICK k \in Present(mem) : j <= k
    BY DEF Outlived
  <2>2. k < i /\ k \in Ids
    BY <1>2 DEF IsNextId, Present
  <2>3. j # i /\ j <= i
    BY <2>1, <2>2 DEF Ids
  <2> QED BY <1>2, <1>3, <2>3 DEF Outlived
<1>7. ReviewedKinds'
  <2> SUFFICES ASSUME NEW u \in Threads, op'[u].pc = "reviewed"
               PROVE  /\ op'[u].act \in {"approve", "retry"} =>
                            ConfirmationGate(HighRisk(op'[u].kind), op'[u].code)
                      /\ mem'[op'[u].id].status # "absent" =>
                            mem'[op'[u].id].kind = op'[u].kind
    BY DEF ReviewedKinds
  <2>1. op'[u] = op[u]
    BY DEF OpShrinks, Shrinks
  <2>2. op[u].id \in Ids /\ op[u].id # i
    BY <1>6, <2>1 DEF ReviewedHasId, OldIds
  <2>3. Keeps(mem[op[u].id], f[op[u].id])
    BY <1>1, <2>2
  <2>4. mem'[op[u].id] = f[op[u].id] \/ mem'[op[u].id] = Absent
    BY <1>4, <2>2
  <2> QED BY <2>1, <2>2, <2>3, <2>4, AbsentFacts DEF ReviewedKinds, Keeps
<1>8. OldIds'
  <2> SUFFICES ASSUME NEW u \in Threads
               PROVE  /\ op'[u].pc = "reviewed" => Outlived(mem', op'[u].id)
                      /\ \A j \in op'[u].reply : Outlived(mem', j)
    BY DEF OldIds
  <2>0. op[u].reply \subseteq Ids /\ (op[u].pc = "reviewed" => op[u].id \in Ids)
    BY <1>0 DEF Operation, ReviewedHasId
  <2> QED BY <1>6, <2>0 DEF OldIds, Shrinks, OpShrinks
<1>9. AnswersClear'
  <2> SUFFICES ASSUME NEW u \in Threads, NEW j \in op'[u].reply
               PROVE  Clear(Object(u, j)')
    BY DEF AnswersClear, Clear
  <2>1. j \in Ids /\ j \in op[u].reply
    BY <1>0 DEF Operation, OpShrinks, Shrinks
  <2>2. j # i /\ Clear(Object(u, j))
    BY <1>6, <2>1 DEF OldIds, AnswersClear
  <2>3. Clear(mem[j]) => Clear(f[j])
    BY <1>1, <2>1, <2>2 DEF Keeps
  <2>4. CASE held[u][j].status # "absent"
    BY <1>5, <2>1, <2>2, <2>4 DEF Object
  <2>5. CASE held[u][j].status = "absent"
    <3>1. Clear(f[j])
      BY <2>2, <2>3, <2>5 DEF Object
    <3>2. Object(u, j)' = f[j] \/ Object(u, j)' = Absent
      BY <1>4, <1>5, <2>1, <2>5 DEF Object
    <3> QED BY <3>1, <3>2, AbsentFacts
  <2> QED BY <2>4, <2>5
<1>10. IdleHoldsNothing'
  <2> SUFFICES ASSUME NEW u \in Threads, NEW j \in Ids, op'[u].pc \in {"idle", "reviewed"}
               PROVE  held'[u][j].status = "absent"
    BY DEF IdleHoldsNothing
  <2>1. Touched(op'[u]) = {}
    BY DEF IdleIsQuiet, Quiet, Touched
  <2>2. op[u].pc \in {"idle", "reviewed"}
    OBVIOUS
  <2> QED BY <1>5, <2>1, <2>2 DEF IdleHoldsNothing
<1>11. \A j \in Ids : Governed(mem'[j])
  BY <1>1, <1>4, AbsentFacts
<1>12. \A u \in Threads, j \in Ids : Governed(held'[u][j])
  BY <1>1, <1>5 DEF HighRiskGoverned
<1> QED BY <1>7, <1>8, <1>9, <1>10, <1>11, <1>12
-----------------------------------------------------------------------------
(* The actions *)

\* What the other copies must satisfy after a step.
Elsewhere ==
    /\ \A i \in Ids : Governed(db[i])
    /\ \A t \in Threads, i \in Ids : Governed(snap[t][i])
    /\ \A n \in Nodes : \A m \in inbox[n] : HighRisk(m.kind) => m.cleared
    /\ \A n \in Nodes, i \in Ids : HighRisk(ledger[n][i].kind) => ledger[n][i].cleared

\* An in-place step is safe when its effects outside the list are.
LEMMA InPlaceStep ==
    ASSUME IInv, OpMoves, KeepsAll, HeldMoves, TypeOK', Elsewhere'
    PROVE  HighRiskGoverned' /\ Handlers'
<1>1. Handlers'
  BY InPlaceHandlers
<1>2. \A i \in Ids : Governed(mem'[i])
  BY DEF KeepsAll, Keeps
<1>3. \A t \in Threads, i \in Ids : Governed(held'[t][i])
  BY AbsentFacts DEF HeldMoves, IInv, HighRiskGoverned
<1> QED BY <1>1, <1>2, <1>3 DEF HighRiskGoverned, Elsewhere

\* The part of HighRiskGoverned outside the list and the copies.
LEMMA ElsewhereNow == HighRiskGoverned => Elsewhere
  BY DEF HighRiskGoverned, Elsewhere

\* Proposals: a high-risk proposal is withheld, isolation is cleared.
LEMMA ProposalGoverned ==
    ASSUME IInv, Proposal, OpMoves, TypeOK', IdleIsQuiet'
    PROVE  HighRiskGoverned' /\ Handlers'
<1> USE DEF central, edge, budget
<1>0. TypeOK /\ HighRiskGoverned /\ Elsewhere /\ op \in [Threads -> Operation]
  BY ElsewhereNow DEF IInv, TypeOK
<1>1. ASSUME NEW t \in Threads, NEW k \in Issued, NEW n \in Nodes,
             NEW o \in Orders \cup {None}, NEW r \in Rates \cup {None},
             Issue(t, k, n, o, r)
      PROVE  HighRiskGoverned' /\ Handlers'
  <2> DEFINE c == NewCommand(n, k, o, k = "dispatch", r, FirstStatus(k), FALSE)
  <2>1. k \in Kind /\ FirstStatus(k) \in Status /\ k # "isolate"
    BY <1>1, ConstantsAssumption DEF FirstStatus, Status, Issue
  <2>2. PICK i \in Ids : IsNextId(i) /\ Create(t, i, c, ProposalTail(k, i, o))
    BY <1>1 DEF Issue
  <2>3. c \in Command /\ c.kind = k /\ c.status = FirstStatus(k)
    <3>1. c \in Command
      BY <2>1, NewCommandType
    <3> QED BY <3>1 DEF NewCommand
  <2>4. op[t].pc = "idle" /\ UNCHANGED <<db, snap, inbox, ledger>>
    BY <1>1 DEF Issue
  <2> HIDE DEF c
  <2>5. Governed(c) /\ c.status # "absent"
    <3>1. k \in {"manual", "cleanup", "policy", "dispatch", "ai_review"}
      BY <2>1 DEF Kind
    <3>2. FirstStatus(k) = IF k \in {"manual", "cleanup"} THEN "pending" ELSE "waiting_approval"
      BY <3>1 DEF FirstStatus
    <3>3. HighRisk(k) => k \notin {"manual", "cleanup"}
      BY DEF HighRisk
    <3> QED BY <2>3, <3>2, <3>3 DEF Governed, Withheld
  <2>6. Creates(i, c) /\ OpShrinks
    BY <1>0, <2>2, FreshMoves DEF Create, Creates
  <2>7. \A u \in Threads : op'[u] = op[u] \/ op[u].pc \in {"idle", "reviewed"}
    BY <1>0, <2>2, <2>4 DEF Create, Saving
  <2>8. /\ Handlers' /\ \A j \in Ids : Governed(mem'[j])
        /\ \A u \in Threads, j \in Ids : Governed(held'[u][j])
    BY <2>3, <2>5, <2>6, <2>7, CreateHandlers
  <2> QED BY <1>0, <2>4, <2>8 DEF HighRiskGoverned, Elsewhere
<1>2. ASSUME NEW t \in Threads, NEW i \in Ids, ReissueDispatch(t, i)
      PROVE  HighRiskGoverned' /\ Handlers'
  <2>1. KeepsAll
    BY <1>0, <1>2, UnchangedKeeps DEF ReissueDispatch
  <2>2. HeldMoves
    <3>1. \A u \in Threads : u # t => op'[u] = op[u]
      BY <1>0, <1>2 DEF ReissueDispatch, Saving
    <3> QED BY <1>2, <3>1, SameHeld DEF ReissueDispatch
  <2>3. Elsewhere'
    BY <1>0, <1>2 DEF ReissueDispatch, Elsewhere
  <2> QED BY <2>1, <2>2, <2>3, InPlaceStep
<1>3. ASSUME NEW n \in Nodes, NEW i \in Ids, NEW saved \in BOOLEAN, Isolate(n, i, saved)
      PROVE  HighRiskGoverned' /\ Handlers'
  <2> DEFINE c == NewCommand(n, "isolate", None, FALSE, None, "executed", TRUE)
  <2>1. c \in Command /\ c.status = "executed" /\ c.cleared
    <3>1. "isolate" \in Kind /\ "executed" \in Status
      BY DEF Kind, Status
    <3>2. c \in Command
      BY <3>1, NewCommandType
    <3> QED BY <3>2 DEF NewCommand
  <2>2. /\ Creates(i, c) /\ op' = op /\ UNCHANGED <<snap, inbox, ledger>>
        /\ db' = [db EXCEPT ![i] = c] \/ db' = db
    BY <1>3 DEF Isolate, Creates
  <2> HIDE DEF c
  <2>3. Governed(c) /\ c.status # "absent" /\ OpShrinks
    BY <2>1, <2>2 DEF Governed, OpShrinks
  <2>4. /\ Handlers' /\ \A j \in Ids : Governed(mem'[j])
        /\ \A u \in Threads, j \in Ids : Governed(held'[u][j])
    BY <2>1, <2>2, <2>3, CreateHandlers
  <2>5. \A j \in Ids : Governed(db'[j])
    BY <1>0, <2>2, <2>3 DEF Elsewhere, TypeOK
  <2> QED BY <1>0, <2>2, <2>4, <2>5 DEF HighRiskGoverned, Elsewhere
<1> QED BY <1>1, <1>2, <1>3 DEF Proposal

\* Decisions: only a confirmed review clears or retries a high-risk command.
LEMMA DecisionGoverned ==
    ASSUME IInv, Decision, OpMoves, TypeOK', IdleIsQuiet'
    PROVE  HighRiskGoverned' /\ Handlers'
<1> USE DEF central, edge, budget
<1>0. /\ TypeOK /\ HighRiskGoverned /\ Elsewhere /\ op \in [Threads -> Operation]
      /\ mem \in [Ids -> Command] /\ ReviewedHasId /\ ReviewedKinds
  BY ElsewhereNow DEF IInv, TypeOK, Handlers
<1>1. ASSUME NEW t \in Threads, op[t].pc \in {"idle", "reviewed"}, KeepsAll,
             \A u \in Threads : u # t => op'[u] = op[u],
             UNCHANGED <<held, db, snap, inbox, ledger>>
      PROVE  HighRiskGoverned' /\ Handlers'
  <2>1. HeldMoves
    BY <1>1, SameHeld
  <2>2. Elsewhere'
    BY <1>0, <1>1 DEF Elsewhere
  <2> QED BY <1>1, <2>1, <2>2, InPlaceStep
<1>2. ASSUME NEW t \in Threads, NEW a \in Decisions, NEW i \in Ids,
             NEW code \in BOOLEAN, Review(t, a, i, code)
      PROVE  HighRiskGoverned' /\ Handlers'
  <2>1. KeepsAll
    BY <1>0, <1>2, UnchangedKeeps DEF Review
  <2>2. \A u \in Threads : u # t => op'[u] = op[u]
    BY <1>0, <1>2 DEF Review
  <2> QED BY <1>1, <1>2, <2>1, <2>2 DEF Review
<1>3. ASSUME NEW t \in Threads, Refused(t) PROVE HighRiskGoverned' /\ Handlers'
  <2>1. KeepsAll
    BY <1>0, <1>3, UnchangedKeeps DEF Refused
  <2>2. \A u \in Threads : u # t => op'[u] = op[u]
    BY <1>0, <1>3 DEF Refused, Ended
  <2> QED BY <1>1, <1>3, <2>1, <2>2 DEF Refused
<1>4. ASSUME NEW t \in Threads, NEW a, NEW c, NEW td, Decide(t, a, c, td),
             Keeps(mem[op[t].id], c)
      PROVE  HighRiskGoverned' /\ Handlers'
  <2>1. KeepsAll
    BY <1>0, <1>4 DEF Decide, KeepsAll, Keeps, HighRiskGoverned
  <2>2. \A u \in Threads : u # t => op'[u] = op[u]
    BY <1>0, <1>4 DEF Decide, Saving
  <2> QED BY <1>1, <1>4, <2>1, <2>2 DEF Decide
<1>5. ASSUME NEW t \in Threads, op[t].pc = "reviewed", Permitted(op[t])
      PROVE  /\ op[t] \in Operation /\ mem[op[t].id] \in Command
             /\ mem[op[t].id].status # "absent" /\ mem[op[t].id].kind = op[t].kind
             /\ op[t].act \in {"approve", "retry"} /\ HighRisk(op[t].kind) => op[t].code
  <2>1. op[t].id \in Ids
    BY <1>0, <1>5 DEF ReviewedHasId
  <2>2. op[t] \in Operation /\ mem[op[t].id] \in Command
    BY <1>0, <2>1
  <2>3. mem[op[t].id].status # "absent"
    BY <1>5 DEF Permitted, Status, TerminalStatus, RetryableStatus
  <2> QED BY <1>0, <1>5, <2>2, <2>3 DEF ReviewedKinds, ConfirmationGate
<1>6. ASSUME NEW t \in Threads, Approve(t) PROVE HighRiskGoverned' /\ Handlers'
  <2>1. op[t].pc = "reviewed" /\ Permitted(op[t]) /\ op[t].act = "approve"
    BY <1>6 DEF Approve, Decide
  <2> DEFINE o == mem[op[t].id]
             w == op[t]
  <2>2. /\ w \in Operation /\ o \in Command /\ o.status # "absent" /\ o.kind = w.kind
        /\ HighRisk(w.kind) => w.code
    BY <1>5, <2>1
  <2>3. Decide(t, "approve", Approved(o, w),
               {SaveItem(SavePhase, {op[t].id})}
               \cup DecisionTail(op[t], "dispatched", "accepted"))
    BY <1>6 DEF Approve
  <2> HIDE DEF o, w
  <2>4. /\ Approved(o, w).kind = o.kind /\ Approved(o, w).cleared = w.code
        /\ Approved(o, w).status # "absent"
    BY <2>2 DEF Approved, Command
  <2>5. Keeps(o, Approved(o, w))
    BY <2>2, <2>4 DEF Keeps, Governed, Clear
  <2> QED BY <1>4, <2>3, <2>5 DEF o
<1>7. ASSUME NEW t \in Threads, Reject(t) PROVE HighRiskGoverned' /\ Handlers'
  <2> DEFINE o == mem[op[t].id]
  <2>1. op[t].pc = "reviewed" /\ Permitted(op[t])
    BY <1>7 DEF Reject, Decide
  <2>2. o \in Command /\ o.status # "absent"
    BY <1>5, <2>1
  <2>3. Decide(t, "reject", [o EXCEPT !.status = "rejected"],
               {SaveItem(SavePhase, {op[t].id})}
               \cup DecisionTail(op[t], "rejected", "rejected"))
    BY <1>7 DEF Reject
  <2> HIDE DEF o
  <2>4. Keeps(o, [o EXCEPT !.status = "rejected"])
    BY <2>2 DEF Keeps, Governed, Clear, Withheld, Command
  <2> QED BY <1>4, <2>3, <2>4 DEF o
<1>8. ASSUME NEW t \in Threads, Cancel(t) PROVE HighRiskGoverned' /\ Handlers'
  <2> DEFINE o == mem[op[t].id]
             c == IF o.status = "cancelled" THEN o
                  ELSE [o EXCEPT !.status = "cancelled", !.msg = "system"]
             td == (IF o.status = "cancelled" THEN {} ELSE {SaveItem(SavePhase, {op[t].id})})
                   \cup DecisionTail(op[t], "cancelled", "rejected")
  <2>1. op[t].pc = "reviewed" /\ Permitted(op[t]) /\ Decide(t, "cancel", c, td)
    BY <1>8 DEF Cancel, Decide
  <2>2. o \in Command /\ o.status # "absent"
    BY <1>5, <2>1
  <2> HIDE DEF o, td
  <2>3. Keeps(o, c)
    BY <2>2 DEF Keeps, Governed, Clear, Withheld, Command
  <2> QED BY <1>4, <2>1, <2>3 DEF o
<1>9. ASSUME NEW t \in Threads, NEW i \in Ids, Retry(t, i)
      PROVE  HighRiskGoverned' /\ Handlers'
  <2> DEFINE o == mem[op[t].id]
             c == NewCommand(o.node, o.kind, o.order, FALSE, o.rate, "pending", op[t].code)
  <2>1. /\ op[t].pc = "reviewed" /\ Permitted(op[t]) /\ op[t].act = "retry"
        /\ IsNextId(i) /\ Create(t, i, c, {}) /\ UNCHANGED <<db, snap, inbox, ledger>>
    BY <1>9 DEF Retry
  <2>2. /\ op[t] \in Operation /\ o \in Command /\ o.kind = op[t].kind
        /\ HighRisk(op[t].kind) => op[t].code
    BY <1>5, <2>1
  <2>3. /\ c \in Command /\ c.kind = o.kind /\ c.status = "pending"
        /\ c.cleared = op[t].code
    <3>1. "pending" \in Status
      BY DEF Status
    <3>2. /\ o.node \in Nodes \cup {None} /\ o.kind \in Kind \cup {None}
          /\ o.order \in Orders \cup {None} /\ o.rate \in Rates \cup {None}
          /\ op[t].code \in BOOLEAN
      BY <2>2 DEF Command, Operation
    <3> HIDE DEF o
    <3>3. c \in Command
      BY <3>1, <3>2, NewCommandType
    <3> QED BY <3>3 DEF NewCommand
  <2> HIDE DEF c, o
  <2>5. Governed(c) /\ c.status # "absent"
    BY <2>2, <2>3 DEF Governed
  <2>6. Creates(i, c) /\ OpShrinks
    BY <1>0, <2>1, FreshMoves DEF Create, Creates
  <2>7. \A u \in Threads : op'[u] = op[u] \/ op[u].pc \in {"idle", "reviewed"}
    BY <1>0, <2>1 DEF Create, Saving
  <2>8. /\ Handlers' /\ \A j \in Ids : Governed(mem'[j])
        /\ \A u \in Threads, j \in Ids : Governed(held'[u][j])
    BY <2>3, <2>5, <2>6, <2>7, CreateHandlers
  <2> QED BY <1>0, <2>1, <2>8 DEF HighRiskGoverned, Elsewhere
<1> QED BY <1>2, <1>3, <1>6, <1>7, <1>8, <1>9 DEF Decision
\* Requests of agents and heartbeats change commands in place.
LEMMA AgentRequestGoverned ==
    ASSUME IInv, AgentRequest, OpMoves, TypeOK'
    PROVE  HighRiskGoverned' /\ Handlers'
<1> USE DEF central, edge, budget
<1>0. /\ TypeOK /\ HighRiskGoverned /\ Elsewhere /\ op \in [Threads -> Operation]
      /\ mem \in [Ids -> Command]
  BY ElsewhereNow DEF IInv, TypeOK
<1>1. ASSUME NEW t \in Threads, op[t].pc = "idle", KeepsAll,
             \A u \in Threads : u # t => op'[u] = op[u],
             UNCHANGED <<held, db, snap, inbox, ledger>>
      PROVE  HighRiskGoverned' /\ Handlers'
  <2>1. HeldMoves
    BY <1>1, SameHeld
  <2>2. Elsewhere'
    BY <1>0, <1>1 DEF Elsewhere
  <2> QED BY <1>1, <2>1, <2>2, InPlaceStep
<1>2. ASSUME NEW i \in Ids, mem[i].status \notin Withheld PROVE Clear(mem[i])
  BY <1>0, <1>2 DEF HighRiskGoverned, Governed, Clear
<1>3. ASSUME NEW i \in Ids PROVE Keeps(mem[i], mem[i])
  BY <1>0 DEF Keeps, HighRiskGoverned
<1>4. ASSUME NEW i \in Ids, mem[i].status \notin Withheld, NEW d,
             d.kind = mem[i].kind, d.cleared = mem[i].cleared, d.status # "absent"
      PROVE  Keeps(mem[i], d)
  BY <1>2, <1>4 DEF Keeps, Governed, Clear, Withheld
<1>5. ASSUME NEW i \in Ids, Claimed(i)
      PROVE  Keeps(mem[i], [mem[i] EXCEPT !.status = "expired", !.msg = "system"])
  <2> DEFINE d == [mem[i] EXCEPT !.status = "expired", !.msg = "system"]
  <2>1. d.kind = mem[i].kind /\ d.cleared = mem[i].cleared /\ d.status # "absent"
    BY <1>0 DEF Command
  <2> HIDE DEF d
  <2>2. mem[i].status \notin Withheld
    BY <1>5 DEF Claimed, Withheld
  <2>3. Keeps(mem[i], d)
    BY <1>4, <2>1, <2>2
  <2> QED BY <2>3 DEF d
<1>6. ASSUME NEW t \in Threads, NEW n \in Nodes, NEW S \in SUBSET Ids, Claim(t, n, S)
      PROVE  HighRiskGoverned' /\ Handlers'
  <2>1. KeepsAll
    <3> SUFFICES ASSUME NEW i \in Ids PROVE Keeps(mem[i], AfterClaim(n, S)[i])
      BY <1>6 DEF Claim, KeepsAll
    <3>1. ASSUME Claimable(i, n) PROVE Keeps(mem[i], [mem[i] EXCEPT !.status = "claimed"])
      <4> DEFINE d == [mem[i] EXCEPT !.status = "claimed"]
      <4>1. d.kind = mem[i].kind /\ d.cleared = mem[i].cleared /\ d.status # "absent"
        BY <1>0 DEF Command
      <4> HIDE DEF d
      <4>2. mem[i].status \notin Withheld
        BY <3>1 DEF Claimable, Withheld
      <4>3. Keeps(mem[i], d)
        BY <1>4, <4>1, <4>2
      <4> QED BY <4>3 DEF d
    <3>2. i \in S => Claimed(i)
      BY <1>6 DEF Claim
    <3> QED BY <1>3, <1>5, <3>1, <3>2 DEF AfterClaim
  <2>2. \A u \in Threads : u # t => op'[u] = op[u]
    BY <1>0, <1>6 DEF Claim, Saving
  <2> QED BY <1>1, <1>6, <2>1, <2>2 DEF Claim
<1>7. ASSUME NEW t \in Threads, NEW S \in SUBSET Ids, ExpireScan(t, S)
      PROVE  HighRiskGoverned' /\ Handlers'
  <2>1. KeepsAll
    BY <1>3, <1>5, <1>7 DEF ExpireScan, KeepsAll
  <2>2. \A u \in Threads : u # t => op'[u] = op[u]
    BY <1>0, <1>7 DEF ExpireScan, Saving
  <2> QED BY <1>1, <1>7, <2>1, <2>2 DEF ExpireScan
<1>8. ASSUME NEW t \in Threads, NEW n \in Nodes, NEW i \in Ids, RecordResult(t, n, i)
      PROVE  HighRiskGoverned' /\ Handlers'
  <2> DEFINE d == WithResult(mem[i], ResultStatus(n, i))
  <2>1. mem' = mem \/ (AcceptsResult(mem[i]) /\ mem' = [mem EXCEPT ![i] = d])
    BY <1>8 DEF RecordResult
  <2>2. d.kind = mem[i].kind /\ d.cleared = mem[i].cleared /\ d.status # "absent"
    BY <1>0 DEF Command, WithResult, ResultStatus
  <2> HIDE DEF d
  <2>3. AcceptsResult(mem[i]) => mem[i].status \notin Withheld
    BY DEF AcceptsResult, Withheld
  <2>4. AcceptsResult(mem[i]) => Keeps(mem[i], d)
    BY <1>4, <2>2, <2>3
  <2>5. KeepsAll
    BY <1>0, <1>3, <2>1, <2>4 DEF KeepsAll
  <2>6. \A u \in Threads : u # t => op'[u] = op[u]
    BY <1>0, <1>8 DEF RecordResult, Saving
  <2> QED BY <1>1, <1>8, <2>5, <2>6 DEF RecordResult
<1>9. ASSUME NEW t \in Threads, NEW n \in Nodes, NEW scene \in [Ids -> Scenes],
             Heartbeat(t, n, scene)
      PROVE  HighRiskGoverned' /\ Handlers'
  <2>1. mem' = [i \in Ids |-> IF i \in Observed(n) THEN Observe(mem[i], n, scene[i]) ELSE mem[i]]
    BY <1>9 DEF Heartbeat
  <2>2. ASSUME NEW i \in Observed(n) PROVE Keeps(mem[i], Observe(mem[i], n, scene[i]))
    <3> DEFINE d == Observe(mem[i], n, scene[i])
    <3>0. i \in Ids /\ mem[i].status \in {"applied", "executed"} /\ mem[i] \in Command
      BY <1>0 DEF Observed
    <3>1. d.kind = mem[i].kind /\ d.cleared = mem[i].cleared /\ d.status # "absent"
      <4> DEFINE k == IF mem[i].obs < MaxObs THEN mem[i].obs + 1 ELSE MaxObs
                 v == Outcome(k, rate[n] = mem[i].rate, scene[i])
                 ms == IF v \in Verdict THEN "system" ELSE mem[i].msg
                 st == CASE v \in {"effective", "partial"} -> "verified"
                         [] v = "failed" -> "failed"
                         [] v = "inconclusive" -> "applied"
                         [] OTHER -> mem[i].status
      <4>1. d = IF mem[i].vstat \in Verdict THEN mem[i]
                ELSE [mem[i] EXCEPT !.obs = k, !.vstat = v, !.msg = ms, !.status = st]
        BY DEF Observe
      <4> HIDE DEF v, k
      <4>2. st # "absent"
        BY <3>0
      <4> HIDE DEF st, ms, d
      <4> QED BY <3>0, <4>1, <4>2 DEF Command
    <3> HIDE DEF d
    <3>2. mem[i].status \notin Withheld
      BY <3>0 DEF Withheld
    <3>3. Keeps(mem[i], d)
      BY <1>4, <3>0, <3>1, <3>2
    <3> QED BY <3>3 DEF d
  <2>3. KeepsAll
    BY <1>3, <2>1, <2>2 DEF KeepsAll
  <2>4. \A u \in Threads : u # t => op'[u] = op[u]
    BY <1>0, <1>9 DEF Heartbeat, Saving
  <2> QED BY <1>1, <1>9, <2>3, <2>4 DEF Heartbeat
<1> QED BY <1>6, <1>7, <1>8, <1>9 DEF AgentRequest

\* A handler that goes on, or ends, keeps or drops its own copies.
LEMMA UnlockedHeld ==
    ASSUME TypeOK, NEW t \in Threads,
           (\E td : Continue(t, td)) \/ (op' = Ended(t) /\ held' = Released(t))
    PROVE  HeldMoves
<1>0. op \in [Threads -> Operation] /\ held \in [Threads -> [Ids -> Command]]
  BY DEF TypeOK
<1>1. Idle.pc = "idle" /\ Quiet(Idle)
  BY DEF Idle, Quiet
<1>2. \A u \in Threads : u # t => op'[u] = op[u] /\ held'[u] = held[u]
  BY <1>0 DEF Continue, Saving, Ended, Released
<1>3. CASE op'[t] = Idle
  <2>1. held'[t] = Nothing
    BY <1>0, <1>3 DEF Continue, Ended, Released
  <2> QED BY <1>1, <1>2, <1>3, <2>1 DEF HeldMoves
<1>4. CASE op'[t] # Idle
  <2>1. PICK td : Continue(t, td)
    BY <1>0, <1>4 DEF Ended
  <2>2. held' = held /\ op'[t] = [[op[t] EXCEPT !.todo = td] EXCEPT !.pc = "saving"]
    BY <1>0, <1>4, <2>1 DEF Continue, Saving
  <2>3. op'[t].pc = "saving"
    BY <1>0, <2>2 DEF Operation
  <2> QED BY <1>2, <2>2, <2>3 DEF HeldMoves
<1> QED BY <1>3, <1>4

\* Saves, projections and answers, which run without the lock.
LEMMA UnlockedGoverned ==
    ASSUME IInv, Unlocked, OpMoves, TypeOK'
    PROVE  HighRiskGoverned' /\ Handlers'
<1> USE DEF central, edge, budget
<1>0. /\ TypeOK /\ HighRiskGoverned /\ Elsewhere /\ op \in [Threads -> Operation]
      /\ mem \in [Ids -> Command] /\ AnswersClear
  BY ElsewhereNow DEF IInv, TypeOK, Handlers
<1>1. ASSUME NEW t \in Threads, NEW i \in Ids PROVE Governed(Object(t, i))
  BY <1>0 DEF HighRiskGoverned, Object
<1>2. ASSUME NEW t \in Threads, NEW it \in op[t].todo, Prepare(t, it)
      PROVE  HighRiskGoverned' /\ Handlers'
  <2>1. KeepsAll
    BY <1>0, <1>2, UnchangedKeeps DEF Prepare
  <2>2. HeldMoves
    <3>1. op'[t].pc = "writing" /\ \A u \in Threads : u # t => op'[u] = op[u]
      BY <1>0, <1>2 DEF Prepare, Operation
    <3> QED BY <1>2, <3>1 DEF Prepare, HeldMoves
  <2>3. Elsewhere'
    <3>1. \A u \in Threads, i \in Ids : Governed(snap'[u][i])
      BY <1>0, <1>1, <1>2, AbsentFacts DEF Prepare, Elsewhere, TypeOK
    <3> QED BY <1>0, <1>2, <3>1 DEF Prepare, Elsewhere
  <2> QED BY <2>1, <2>2, <2>3, InPlaceStep
<1>3. ASSUME NEW t \in Threads PROVE
        \A u \in Threads, i \in Ids : Governed([snap EXCEPT ![t] = Nothing][u][i])
  BY <1>0, AbsentFacts DEF Elsewhere, TypeOK
<1>4. ASSUME NEW t \in Threads, NEW it \in op[t].todo, Save(t, it)
      PROVE  HighRiskGoverned' /\ Handlers'
  <2>1. KeepsAll
    BY <1>0, <1>4, UnchangedKeeps DEF Save
  <2>2. HeldMoves
    BY <1>0, <1>4, UnlockedHeld DEF Save, Done
  <2>3. Elsewhere'
    <3>1. \A i \in Ids : Governed(db'[i])
      BY <1>0, <1>4 DEF Save, Elsewhere
    <3>2. snap' = [snap EXCEPT ![t] = Nothing] /\ UNCHANGED <<inbox, ledger>>
      BY <1>4 DEF Save
    <3> QED BY <1>0, <1>3, <3>1, <3>2 DEF Elsewhere
  <2> QED BY <2>1, <2>2, <2>3, InPlaceStep
<1>5. ASSUME NEW t \in Threads, NEW it \in op[t].todo,
             ProjectOrder(t, it) \/ ProjectVerdict(t, it) \/ SetSuggestion(t, it)
      PROVE  HighRiskGoverned' /\ Handlers'
  <2>1. KeepsAll
    BY <1>0, <1>5, UnchangedKeeps DEF ProjectOrder, ProjectVerdict, SetSuggestion
  <2>2. HeldMoves
    BY <1>0, <1>5, UnlockedHeld DEF ProjectOrder, ProjectVerdict, SetSuggestion, Done
  <2>3. Elsewhere'
    BY <1>0, <1>5 DEF ProjectOrder, ProjectVerdict, SetSuggestion, Elsewhere
  <2> QED BY <2>1, <2>2, <2>3, InPlaceStep
<1>6. ASSUME NEW t \in Threads, NEW it \in op[t].todo, SaveFails(t, it)
      PROVE  HighRiskGoverned' /\ Handlers'
  <2>1. KeepsAll
    BY <1>0, <1>6, UnchangedKeeps DEF SaveFails
  <2>2. HeldMoves
    BY <1>0, <1>6, UnlockedHeld DEF SaveFails, Done
  <2>3. Elsewhere'
    <3>1. snap' = [snap EXCEPT ![t] = Nothing] /\ UNCHANGED <<db, inbox, ledger>>
      BY <1>6 DEF SaveFails
    <3> QED BY <1>0, <1>3, <3>1 DEF Elsewhere
  <2> QED BY <2>1, <2>2, <2>3, InPlaceStep
<1>7. ASSUME NEW t \in Threads, NEW it \in op[t].todo, SuggestionFails(t, it)
      PROVE  HighRiskGoverned' /\ Handlers'
  <2>1. it.ids \subseteq Ids
    BY <1>0 DEF Operation, Item, ItemRecord
  <2>2. PICK i \in Ids :
          LET open == mem[i].status \in (Status \ TerminalStatus) \ {"executed"}
          IN  /\ mem' = IF open
                        THEN [mem EXCEPT ![i].status = "cancelled", ![i].msg = "system"]
                        ELSE mem
              /\ Continue(t, IF open THEN {SaveItem(SavePhase, {i})} ELSE {})
    BY <1>7, <2>1 DEF SuggestionFails
  <2>3. KeepsAll
    <3> DEFINE d == [mem[i] EXCEPT !.status = "cancelled", !.msg = "system"]
    <3>1. CASE mem' = mem
      BY <1>0, <3>1, UnchangedKeeps
    <3>2. CASE mem' # mem
      <4>1. mem[i].status # "absent" /\ mem' = [mem EXCEPT ![i] = d]
        BY <1>0, <2>2, <3>2 DEF Status
      <4>2. d.kind = mem[i].kind /\ d.cleared = mem[i].cleared /\ d.status = "cancelled"
        BY <1>0 DEF Command
      <4> HIDE DEF d
      <4>3. Keeps(mem[i], d)
        BY <4>1, <4>2 DEF Keeps, Governed, Withheld, Clear
      <4>4. \A j \in Ids : Keeps(mem[j], mem[j])
        BY <1>0 DEF Keeps, HighRiskGoverned
      <4> QED BY <1>0, <4>1, <4>3, <4>4 DEF KeepsAll
    <3> QED BY <3>1, <3>2
  <2>4. HeldMoves
    BY <1>0, <2>2, UnlockedHeld
  <2>5. Elsewhere'
    BY <1>0, <1>7 DEF SuggestionFails, Elsewhere
  <2> QED BY <2>3, <2>4, <2>5, InPlaceStep
<1>8. ASSUME NEW t \in Threads, NEW delivered \in BOOLEAN, Finish(t, delivered)
      PROVE  HighRiskGoverned' /\ Handlers'
  <2>1. KeepsAll
    BY <1>0, <1>8, UnchangedKeeps DEF Finish
  <2>2. HeldMoves
    BY <1>0, <1>8, UnlockedHeld DEF Finish
  <2>3. \A n \in Nodes : \A m \in inbox'[n] : HighRisk(m.kind) => m.cleared
    <3>1. \A i \in op[t].reply : HighRisk(Handed(t, i).kind) => Handed(t, i).cleared
      BY <1>0 DEF AnswersClear, Clear, Handed
    <3>2. CASE inbox' = inbox
      BY <1>0, <3>2 DEF Elsewhere
    <3>3. CASE inbox' = [inbox EXCEPT ![op[t].node] = {Handed(t, i) : i \in op[t].reply}]
      <4> SUFFICES ASSUME NEW n \in Nodes, NEW m \in inbox'[n] PROVE HighRisk(m.kind) => m.cleared
        OBVIOUS
      <4>1. inbox'[n] = inbox[n] \/ inbox'[n] = {Handed(t, i) : i \in op[t].reply}
        BY <1>0, <3>3 DEF TypeOK
      <4>2. CASE inbox'[n] = inbox[n]
        BY <1>0, <4>2 DEF Elsewhere
      <4>3. CASE inbox'[n] = {Handed(t, i) : i \in op[t].reply}
        BY <3>1, <4>3
      <4> QED BY <4>1, <4>2, <4>3
    <3> QED BY <1>8, <3>2, <3>3 DEF Finish
  <2>4. \A n \in Nodes, i \in Ids : HighRisk(ledger'[n][i].kind) => ledger'[n][i].cleared
    <3>1. \A n \in Nodes, i \in Ids : /\ ledger'[n][i].kind = ledger[n][i].kind
                                     /\ ledger'[n][i].cleared = ledger[n][i].cleared
      <4>1. CASE ledger' = ledger
        BY <4>1
      <4>2. CASE ledger' = [ledger EXCEPT ![op[t].node][op[t].id].reported = TRUE]
        <5> SUFFICES ASSUME NEW n \in Nodes, NEW i \in Ids
                     PROVE  /\ ledger'[n][i].kind = ledger[n][i].kind
                            /\ ledger'[n][i].cleared = ledger[n][i].cleared
          OBVIOUS
        <5>1. ledger[n][i] \in Entry /\ ledger \in [Nodes -> [Ids -> Entry]]
          BY <1>0 DEF TypeOK
        <5>2. ledger'[n][i] = ledger[n][i] \/ ledger'[n][i] = [ledger[n][i] EXCEPT !.reported = TRUE]
          BY <4>2, <5>1
        <5> QED BY <5>1, <5>2 DEF Entry
      <4> QED BY <1>8, <4>1, <4>2 DEF Finish
    <3> QED BY <1>0, <3>1 DEF Elsewhere
  <2>5. Elsewhere'
    BY <1>0, <1>8, <2>3, <2>4 DEF Finish, Elsewhere
  <2> QED BY <2>1, <2>2, <2>5, InPlaceStep
<1> QED BY <1>2, <1>4, <1>5, <1>6, <1>7, <1>8 DEF Unlocked

\* The agent records what it was handed.
LEMMA EdgeGoverned ==
    ASSUME IInv, Edge, OpMoves, TypeOK'
    PROVE  HighRiskGoverned' /\ Handlers'
<1> USE DEF central, edge, budget
<1>0. TypeOK /\ HighRiskGoverned /\ Elsewhere
  BY ElsewhereNow DEF IInv
<1>1. UNCHANGED <<mem, db, op, held, snap>>
  BY DEF Edge, EdgeIgnore, EdgeApply, EdgePost, PostLost, EdgeGivesUp
<1>2. KeepsAll /\ HeldMoves
  BY <1>0, <1>1, UnchangedKeeps DEF HeldMoves
<1>3. ASSUME NEW n \in Nodes, NEW m \in inbox[n], NEW res \in {"executed", "failed"},
             EdgeApply(n, m, res)
      PROVE  Elsewhere'
  <2>1. HighRisk(m.kind) => m.cleared
    BY <1>0 DEF Elsewhere
  <2>2. ASSUME NEW p \in Nodes, NEW i \in Ids
        PROVE  HighRisk(ledger'[p][i].kind) => ledger'[p][i].cleared
    <3>1. \/ ledger'[p][i] = ledger[p][i]
          \/ ledger'[p][i].kind = m.kind /\ ledger'[p][i].cleared = m.cleared
      BY <1>0, <1>3 DEF EdgeApply, TypeOK
    <3> QED BY <1>0, <2>1, <3>1 DEF Elsewhere
  <2>3. \A p \in Nodes : inbox'[p] \subseteq inbox[p]
    BY <1>0, <1>3 DEF EdgeApply, TypeOK
  <2> QED BY <1>0, <1>1, <2>2, <2>3 DEF Elsewhere
<1>4. ASSUME NEW n \in Nodes, NEW m \in inbox[n], EdgeIgnore(n, m) PROVE Elsewhere'
  BY <1>0, <1>1, <1>4 DEF Elsewhere, EdgeIgnore, TypeOK
<1>5. ASSUME NEW n \in Nodes, NEW i \in Ids, EdgePost(n, i) \/ PostLost(n, i)
      PROVE  Elsewhere'
  BY <1>0, <1>5 DEF Elsewhere, EdgePost, PostLost
<1>6. ASSUME NEW n \in Nodes, EdgeGivesUp(n) PROVE Elsewhere'
  BY <1>0, <1>1, <1>6 DEF Elsewhere, EdgeGivesUp, TypeOK
<1>7. Elsewhere'
  BY <1>3, <1>4, <1>5, <1>6 DEF Edge
<1> QED BY <1>2, <1>7, InPlaceStep

\* A restart forgets the handlers and keeps what the rows say.
LEMMA RestartGoverned ==
    ASSUME IInv, Restart
    PROVE  HighRiskGoverned' /\ Handlers'
<1>0. TypeOK /\ HighRiskGoverned /\ Elsewhere /\ db \in [Ids -> Command]
  BY ElsewhereNow DEF IInv, TypeOK
<1>1. \A i \in Ids : Governed(mem'[i])
  BY <1>0, ListTypes, AbsentFacts DEF Restart, Elsewhere
<1>2. \A t \in Threads, i \in Ids : held'[t][i] = Absent /\ snap'[t][i] = Absent
  BY AbsentFacts DEF Restart
<1>3. HighRiskGoverned'
  BY <1>0, <1>1, <1>2, AbsentFacts DEF Restart, HighRiskGoverned, Elsewhere
<1>4. \A t \in Threads : op'[t].pc = "idle" /\ op'[t].reply = {}
  BY DEF Restart, Idle
<1>5. Handlers'
  BY <1>2, <1>4, AbsentFacts
     DEF Handlers, ReviewedKinds, OldIds, AnswersClear, IdleHoldsNothing
<1> QED BY <1>3, <1>5

-----------------------------------------------------------------------------
\* IInv holds when the central API starts on empty tables ...
LEMMA InitGoverned == Init => IInv
<1> SUFFICES ASSUME Init PROVE IInv
  OBVIOUS
<1>1. TypeOK
  BY InitType
<1>2. \A t \in Threads : op[t].pc = "idle" /\ op[t].reply = {} /\ op[t].todo = {}
  BY DEF Init, Idle
<1>3. /\ \A i \in Ids : mem[i] = Absent /\ db[i] = Absent
      /\ \A t \in Threads, i \in Ids : held[t][i] = Absent /\ snap[t][i] = Absent
  BY AbsentFacts DEF Init
<1>4. \A n \in Nodes, i \in Ids : ~HighRisk(ledger[n][i].kind)
  BY DEF Init, NoEntry, HighRisk, None
<1>5. HighRiskGoverned
  BY <1>3, <1>4, AbsentFacts DEF HighRiskGoverned, Init
<1>6. Handlers
  BY <1>2, <1>3, AbsentFacts
     DEF Handlers, ReviewedKinds, OldIds, AnswersClear, IdleHoldsNothing
<1> QED BY <1>1, <1>2, <1>5, <1>6 DEF IInv, ReviewedHasId, IdleIsQuiet, Quiet

\* ... and every step keeps it.
LEMMA NextGoverned == ASSUME ~Primary PROVE IInv /\ [Next]_vars => IInv'
<1> SUFFICES ASSUME IInv, [Next]_vars PROVE IInv'
  OBVIOUS
<1>1. CASE UNCHANGED vars
  BY <1>1 DEF vars, IInv, TypeOK, ReviewedHasId, IdleIsQuiet, HighRiskGoverned, Handlers,
     ReviewedKinds, OldIds, AnswersClear, IdleHoldsNothing, Outlived, Present, Object
<1>2. CASE Next
  <2>1. TypeOK'
    BY <1>2, ProposalType, DecisionType, AgentRequestType, UnlockedType, ReloadType,
       EdgeType DEF Next, IInv
  <2>2. OpMoves /\ ReviewedHasId' /\ IdleIsQuiet'
    BY <1>2, OpStep, HandlerStep DEF IInv
  <2>3. ~Refresh
    BY DEF Refresh
  <2>4. HighRiskGoverned' /\ Handlers'
    BY <1>2, <2>1, <2>2, <2>3, ProposalGoverned, DecisionGoverned, AgentRequestGoverned,
       UnlockedGoverned, EdgeGoverned, RestartGoverned DEF Next
  <2> QED BY <2>1, <2>2, <2>4 DEF IInv
<1> QED BY <1>1, <1>2

\* No high-risk command is released, saved as released, handed out or executed
\* without an administrator's confirmation: the Safety Governor's review holds
\* although it is made before the lock is taken and used after it, and
\* although saves, answers and evictions interleave with it.
THEOREM Governance == ASSUME ~Primary PROVE Spec => []HighRiskGoverned
<1>1. IInv => HighRiskGoverned
  BY DEF IInv
<1> QED BY <1>1, InitGoverned, NextGoverned, PTL DEF Spec

-----------------------------------------------------------------------------
(***************************************************************************)
(* The life of a command while the central API stays up: one open command  *)
(* per node and type, handed out once, never run after it was withdrawn,   *)
(* and the newest one decides the rate.  A restart or a reload loads rows  *)
(* that may be behind, so these hold for ~Primary and MaxRestarts = 0.     *)
(*                                                                         *)
(* The argument follows a rate from the list to the agent: it is Waiting   *)
(* in an open command, Coming in the answer of the poll the agent waits    *)
(* for or in its inbox, and then it Ran.  At most one rate is Waiting and  *)
(* one is Coming for a node, and whatever is behind on that way has the    *)
(* larger id.                                                              *)
(***************************************************************************)

Ran(n, j) == ledger[n][j].res = "executed"
Coming(n, i) ==
    \/ \E m \in inbox[n] : m.id = i /\ SetsRate(m.kind)
    \/ \E t \in Threads : /\ fetch[n] = t /\ i \in op[t].reply
                          /\ SetsRate(Object(t, i).kind)
Waiting(n, i) ==
    mem[i].status \in OpenStatus /\ mem[i].node = n /\ SetsRate(mem[i].kind)

Withdrawn == {"superseded", "rejected"}

\* Ids grow: an id that was handed out is not above every listed one.
UsedIds == \A i \in Ids : handouts[i] # 0 => Outlived(mem, i)

\* Neither an open command nor a withdrawn one was ever handed out.
Unhanded == \A i \in Ids : mem[i].status \in OpenStatus \cup Withdrawn => handouts[i] = 0

\* Only handed-out ids are in answers, inboxes and ledgers.
AtAgents ==
    \A i \in Ids : handouts[i] = 0 =>
        /\ \A n \in Nodes : ledger[n][i].res = "none" /\ \A m \in inbox[n] : m.id # i
        /\ \A t \in Threads : i \notin op[t].reply

\* The agent waits for a handler of its own poll, with an empty inbox.
Fetching ==
    \A n \in Nodes, t \in Threads : fetch[n] = t =>
        /\ op[t].act = "claim" /\ op[t].node = n /\ op[t].pc \in {"saving", "writing"}
        /\ inbox[n] = {}

OneRateFetched ==
    \A n \in Nodes : \A m, k \in inbox[n] : SetsRate(m.kind) /\ SetsRate(k.kind) => m = k

RatesInOrder ==
    \A n \in Nodes, i, j \in Ids :
        /\ Coming(n, i) /\ Coming(n, j) => i = j
        /\ Coming(n, i) /\ Ran(n, j) => j < i
        /\ Waiting(n, i) /\ (Ran(n, j) \/ Coming(n, j)) => j < i

LifeInv ==
    /\ OneOpenPerSlot /\ ClaimedOnce /\ LatestWins
    /\ UsedIds /\ Unhanded /\ AtAgents /\ Fetching /\ OneRateFetched /\ RatesInOrder

\* How a listed command may change in place.
Lives(c, d) ==
    /\ d.node = c.node /\ d.kind = c.kind
    /\ c.status = "absent" <=> d.status = "absent"
    /\ d.status \in OpenStatus => c.status \in OpenStatus
    /\ d.status \in Withdrawn => c.status \in OpenStatus \cup Withdrawn
LivesAll == \A i \in Ids : Lives(mem[i], mem'[i])

-----------------------------------------------------------------------------
(* Kinds of step *)

\* A step that hands out and executes nothing, and brings no rate nearer to an agent.
LEMMA CalmStep ==
    ASSUME TypeOK, LifeInv, LivesAll, UNCHANGED <<handouts, rate>>,
           \A n \in Nodes, i \in Ids : /\ ledger'[n][i].res = ledger[n][i].res
                                       /\ ledger'[n][i].rate = ledger[n][i].rate,
           AtAgents', Fetching', OneRateFetched',
           \A n \in Nodes, i \in Ids : Coming(n, i)' => Coming(n, i)
    PROVE  LifeInv'
<1> USE DEF LifeInv
<1>1. \A i \in Ids : /\ mem'[i].node = mem[i].node /\ mem'[i].kind = mem[i].kind
                     /\ mem[i].status = "absent" <=> mem'[i].status = "absent"
                     /\ mem'[i].status \in OpenStatus => mem[i].status \in OpenStatus
                     /\ mem'[i].status \in Withdrawn
                          => mem[i].status \in OpenStatus \cup Withdrawn
  BY DEF LivesAll, Lives
<1>2. OneOpenPerSlot' /\ ClaimedOnce'
  BY <1>1 DEF OneOpenPerSlot, ClaimedOnce
<1>3. LatestWins'
  BY DEF LatestWins
<1>4. UsedIds' /\ Unhanded'
  BY <1>1 DEF UsedIds, Unhanded, Outlived, Present
<1>5. RatesInOrder'
  <2>1. \A n \in Nodes, i \in Ids : /\ Waiting(n, i)' => Waiting(n, i)
                                    /\ Ran(n, i)' <=> Ran(n, i)
    BY <1>1 DEF Waiting, Ran
  <2> SUFFICES ASSUME NEW n \in Nodes, NEW i \in Ids, NEW j \in Ids
               PROVE  /\ Coming(n, i)' /\ Coming(n, j)' => i = j
                      /\ Coming(n, i)' /\ Ran(n, j)' => j < i
                      /\ Waiting(n, i)' /\ (Ran(n, j)' \/ Coming(n, j)') => j < i
    BY DEF RatesInOrder
  <2> QED BY <2>1 DEF RatesInOrder
<1> QED BY <1>2, <1>3, <1>4, <1>5

\* How a handler may change, and its copies, while its agent waits for it.
Serves(u) ==
    \/ op'[u] = op[u] /\ held'[u] = held[u]
    \/ op[u].pc \in {"idle", "reviewed"} /\ op'[u].reply = {}
    \/ /\ op'[u].reply = op[u].reply /\ op'[u].act = op[u].act /\ op'[u].node = op[u].node
       /\ op'[u].pc \in {"saving", "writing"} /\ held'[u] = held[u]
    \/ op[u].act # "claim" /\ op'[u].reply = {}

\* A step of the central API that changes listed commands in place.
LEMMA InPlaceLife ==
    ASSUME TypeOK, LifeInv, LivesAll, \A u \in Threads : Serves(u),
           UNCHANGED <<ledger, rate, inbox, fetch, handouts>>
    PROVE  LifeInv'
<1> USE DEF LifeInv
<1>1. Fetching'
  BY DEF Fetching, Serves
<1>2. \A u \in Threads : op'[u].reply \subseteq op[u].reply
  BY DEF Serves
<1>3. AtAgents'
  BY <1>2 DEF AtAgents
<1>4. OneRateFetched'
  BY DEF OneRateFetched
<1>5. ASSUME NEW n \in Nodes, NEW i \in Ids, Coming(n, i)' PROVE Coming(n, i)
  <2>1. CASE \E m \in inbox[n] : m.id = i /\ SetsRate(m.kind)
    BY <2>1 DEF Coming
  <2>2. ASSUME NEW t \in Threads, fetch[n] = t, i \in op'[t].reply,
               SetsRate(Object(t, i)'.kind)
        PROVE  Coming(n, i)
    <3>1. op[t].act = "claim" /\ op[t].pc \in {"saving", "writing"}
      BY <2>2 DEF Fetching
    <3>2. held'[t] = held[t] /\ op'[t].reply = op[t].reply
      BY <2>2, <3>1 DEF Serves
    <3>3. Object(t, i)'.kind = Object(t, i).kind
      BY <3>2 DEF Object, LivesAll, Lives
    <3> QED BY <2>2, <3>2, <3>3 DEF Coming
  <2> QED BY <1>5, <2>1, <2>2 DEF Coming
<1> QED BY <1>1, <1>3, <1>4, <1>5, CalmStep


\* create_command: the new id is above every one handed out, and what the new
\* command competes with is superseded under the same lock.
LEMMA CreateLife ==
    ASSUME IInv, LifeInv, TypeOK', NEW i \in Ids, NEW c \in Command, c.status # "absent",
           c.status \notin Withdrawn, c.node \in Nodes \cup {None}, Creates(i, c),
           \A u \in Threads : \/ op'[u] = op[u]
                              \/ op[u].pc \in {"idle", "reviewed"} /\ op'[u].reply = {},
           UNCHANGED <<ledger, rate, inbox, fetch, handouts>>
    PROVE  LifeInv'
<1> USE DEF LifeInv, IInv, Handlers
<1> DEFINE f == WithCreated(i, c)
<1>0. f \in [Ids -> Command] /\ mem \in [Ids -> Command] /\ op \in [Threads -> Operation]
  BY WithCreatedType DEF TypeOK
<1>1. f[i] = c /\ IsNextId(i) /\ i \in Present(Trim(f))
  BY WithCreatedType, NewestStays DEF Creates, TypeOK
<1>2. \A j \in Ids : j # i =>
         \/ f[j] = mem[j] /\ j \notin Replaced(c.node, c.kind)
         \/ f[j] = Superseded(mem[j]) /\ mem[j].status \in OpenStatus
  BY DEF WithCreated, Replaced
<1>3. \A j \in Ids : /\ Superseded(mem[j]).status = "superseded"
                     /\ Superseded(mem[j]).kind = mem[j].kind
  BY <1>0, SupersededType
<1>4. mem' = Trim(f) /\ held' = Detach(f, Present(f) \ Present(Trim(f)), op')
  BY DEF Creates
<1> HIDE DEF f
<1>5. \A j \in Ids : mem'[j] = f[j] \/ mem'[j] = Absent
  BY <1>0, <1>4, ListTypes
<1>6. \A j \in Ids : handouts[j] # 0 => j # i /\ j < i /\ Outlived(mem', j)
  <2> SUFFICES ASSUME NEW j \in Ids, handouts[j] # 0
               PROVE  j # i /\ j < i /\ Outlived(mem', j)
    OBVIOUS
  <2>1. PICK k \in Present(mem) : j <= k
    BY DEF UsedIds, Outlived
  <2>2. k < i /\ k \in Ids
    BY <1>1 DEF IsNextId, Present
  <2>3. j # i /\ j < i /\ j <= i
    BY <2>1, <2>2 DEF Ids
  <2> QED BY <1>1, <1>4, <2>3 DEF Outlived
<1>7. mem'[i] = c
  BY <1>1, <1>4, <1>5, AbsentFacts DEF Present
<1>8. \A j \in Ids : j # i /\ mem'[j].status \in OpenStatus =>
         /\ mem'[j] = mem[j] /\ j \notin Replaced(c.node, c.kind)
  BY <1>2, <1>3, <1>5, AbsentFacts DEF OpenStatus
<1>9. \A j \in Ids : j # i /\ mem'[j].status \in Withdrawn =>
         mem[j].status \in OpenStatus \cup Withdrawn
  BY <1>2, <1>3, <1>5, AbsentFacts DEF Withdrawn
<1>10. OneOpenPerSlot'
  <2> SUFFICES ASSUME NEW j \in Ids, NEW k \in Ids,
                      mem'[j].status \in OpenStatus, mem'[k].status \in OpenStatus,
                      mem'[j].node = mem'[k].node, SameType(mem'[j].kind, mem'[k].kind)
               PROVE  j = k
    BY DEF OneOpenPerSlot
  <2>1. CASE j # i /\ k # i
    BY <1>8, <2>1 DEF OneOpenPerSlot
  <2>2. CASE j = i /\ k # i
    BY <1>7, <1>8, <2>2 DEF Replaced, SameType
  <2>3. CASE j # i /\ k = i
    BY <1>7, <1>8, <2>3 DEF Replaced
  <2> QED BY <2>1, <2>2, <2>3
<1>11. ClaimedOnce' /\ LatestWins' /\ UsedIds' /\ OneRateFetched'
  BY <1>6 DEF ClaimedOnce, LatestWins, UsedIds, OneRateFetched
<1>12. Unhanded'
  <2>1. handouts[i] = 0
    BY <1>6
  <2> QED BY <1>8, <1>9, <2>1 DEF Unhanded
<1>13. AtAgents' /\ Fetching'
  BY DEF AtAgents, Fetching
<1>14. RatesInOrder'
  <2>1. ASSUME NEW n \in Nodes, NEW j \in Ids, Coming(n, j)'
        PROVE  Coming(n, j) /\ handouts[j] # 0
    <3>1. CASE \E m \in inbox[n] : m.id = j /\ SetsRate(m.kind)
      BY <3>1 DEF Coming, AtAgents
    <3>2. ASSUME NEW t \in Threads, fetch[n] = t, j \in op'[t].reply,
                 SetsRate(Object(t, j)'.kind)
          PROVE  Coming(n, j) /\ handouts[j] # 0
      <4>1. op'[t] = op[t] /\ op[t].pc \notin {"idle", "reviewed"}
        BY <3>2 DEF Fetching
      <4>2. handouts[j] # 0
        BY <3>2, <4>1 DEF AtAgents
      <4>3. f[j].kind = mem[j].kind
        BY <1>2, <1>3, <1>6, <4>2
      <4>4. \/ held'[t][j] = held[t][j] /\ held[t][j].status # "absent"
            \/ held[t][j].status = "absent" /\ held'[t][j] = held[t][j]
            \/ held[t][j].status = "absent" /\ held'[t][j] = f[j]
        BY <1>4 DEF Detach
      <4>5. SetsRate(Object(t, j).kind)
        <5>1. CASE held[t][j].status # "absent"
          BY <3>2, <4>4, <5>1 DEF Object
        <5>2. CASE held[t][j].status = "absent"
          <6>1. Object(t, j)' \in {f[j], Absent}
            BY <1>5, <4>4, <5>2 DEF Object
          <6>2. ~SetsRate(Absent.kind)
            BY DEF Absent, SetsRate, None
          <6> QED BY <3>2, <4>3, <5>2, <6>1, <6>2 DEF Object
        <5> QED BY <5>1, <5>2
      <4> QED BY <3>2, <4>1, <4>2, <4>5 DEF Coming
    <3> QED BY <2>1, <3>1, <3>2 DEF Coming
  <2>2. \A n \in Nodes, j \in Ids : Ran(n, j)' => Ran(n, j) /\ handouts[j] # 0
    BY DEF Ran, AtAgents
  <2>3. \A n \in Nodes, j \in Ids : j # i /\ Waiting(n, j)' => Waiting(n, j)
    BY <1>8 DEF Waiting
  <2> SUFFICES ASSUME NEW n \in Nodes, NEW k \in Ids, NEW j \in Ids
               PROVE  /\ Coming(n, k)' /\ Coming(n, j)' => k = j
                      /\ Coming(n, k)' /\ Ran(n, j)' => j < k
                      /\ Waiting(n, k)' /\ (Ran(n, j)' \/ Coming(n, j)') => j < k
    BY DEF RatesInOrder
  <2>4. Coming(n, k)' /\ Coming(n, j)' => k = j
    BY <2>1 DEF RatesInOrder
  <2>5. Coming(n, k)' /\ Ran(n, j)' => j < k
    BY <2>1, <2>2 DEF RatesInOrder
  <2>6. Waiting(n, k)' /\ (Ran(n, j)' \/ Coming(n, j)') => j < k
    BY <1>6, <2>1, <2>2, <2>3 DEF RatesInOrder
  <2> QED BY <2>4, <2>5, <2>6
<1> QED BY <1>10, <1>11, <1>12, <1>13, <1>14

\* A poll takes the open commands of its node, at most one of them a rate.
LEMMA ClaimLife ==
    ASSUME IInv, LifeInv, TypeOK', LivesAll, NEW t \in Threads, NEW n \in Nodes,
           NEW S \in SUBSET Ids, Claim(t, n, S)
    PROVE  LifeInv'
<1> USE DEF LifeInv, IInv, Handlers, edge, budget
<1> DEFINE C == {i \in Ids : Claimable(i, n)}
           w == [Idle EXCEPT !.act = "claim", !.node = n, !.reply = C,
                   !.todo = SaveEach(S) \cup (IF C = {} THEN {} ELSE {SaveItem(SavePhase, C)})]
<1>0. /\ op \in [Threads -> Operation] /\ mem \in [Ids -> Command]
      /\ handouts \in [Ids -> 0..2] /\ fetch \in [Nodes -> Threads \cup {None}]
      /\ None \notin Threads
  BY ConstantsAssumption DEF TypeOK
<1>1. /\ op[t].pc = "idle" /\ inbox[n] = {} /\ op' = Saving(t, w)
      /\ fetch' = [fetch EXCEPT ![n] = t] /\ UNCHANGED <<held, ledger, rate, inbox>>
  BY DEF Claim
<1>2. \A i \in Ids : i \in C => mem[i].status = "pending" /\ mem[i].node = n
  BY DEF Claimable
<1>3. /\ w.act = "claim" /\ [w EXCEPT !.pc = "saving"].act = "claim"
      /\ [w EXCEPT !.pc = "saving"].pc = "saving" /\ [w EXCEPT !.pc = "saving"].node = n
      /\ [w EXCEPT !.pc = "saving"].reply = C
  BY DEF Idle
<1>4. \A i \in Ids : /\ i \in C => handouts'[i] = handouts[i] + (IF handouts[i] < 2 THEN 1 ELSE 0)
                     /\ i \notin C => handouts'[i] = handouts[i]
  BY <1>0 DEF Claim
<1>5. \A i \in Ids : i \in C => mem'[i].status \in {"claimed", "expired"}
  <2> SUFFICES ASSUME NEW i \in Ids, Claimable(i, n)
               PROVE  AfterClaim(n, S)[i].status \in {"claimed", "expired"}
    BY DEF Claim
  <2>1. /\ [mem[i] EXCEPT !.status = "expired", !.msg = "system"].status = "expired"
        /\ [mem[i] EXCEPT !.status = "claimed"].status = "claimed"
    BY <1>0 DEF Command
  <2> QED BY <2>1 DEF AfterClaim
<1> HIDE DEF w, C
<1>6. /\ op'[t].act = "claim" /\ op'[t].pc = "saving" /\ op'[t].node = n /\ op'[t].reply = C
      /\ \A u \in Threads : u # t => op'[u] = op[u]
  BY <1>0, <1>1, <1>3 DEF Saving
<1>7. \A i \in Ids : i \in C => handouts[i] = 0 /\ handouts'[i] = 1
  BY <1>2, <1>4 DEF Unhanded, OpenStatus
<1>8. \A i \in Ids : /\ mem'[i].node = mem[i].node /\ mem'[i].kind = mem[i].kind
                     /\ mem[i].status = "absent" <=> mem'[i].status = "absent"
                     /\ mem'[i].status \in OpenStatus => mem[i].status \in OpenStatus
                     /\ mem'[i].status \in Withdrawn
                          => mem[i].status \in OpenStatus \cup Withdrawn
  BY DEF LivesAll, Lives
<1>9. \A i \in Ids : mem'[i].status \in OpenStatus \cup Withdrawn => i \notin C
  BY <1>5 DEF OpenStatus, Withdrawn
<1>10. OneOpenPerSlot'
  BY <1>8 DEF OneOpenPerSlot
<1>11. ClaimedOnce'
  BY <1>4, <1>7 DEF ClaimedOnce
<1>12. LatestWins' /\ OneRateFetched'
  BY <1>1 DEF LatestWins, OneRateFetched
<1>13. UsedIds'
  <2> SUFFICES ASSUME NEW i \in Ids, handouts'[i] # 0 PROVE Outlived(mem', i)
    BY DEF UsedIds
  <2>1. CASE i \in C
    <3>1. i \in Present(mem') /\ i <= i
      BY <1>5, <2>1 DEF Present, Ids
    <3> QED BY <3>1 DEF Outlived
  <2>2. CASE i \notin C
    BY <1>4, <1>8, <2>2 DEF UsedIds, Outlived, Present
  <2> QED BY <2>1, <2>2
<1>14. Unhanded'
  BY <1>4, <1>8, <1>9 DEF Unhanded
<1>15. AtAgents'
  <2> SUFFICES ASSUME NEW i \in Ids, handouts'[i] = 0
               PROVE  /\ \A p \in Nodes : ledger'[p][i].res = "none" /\ \A m \in inbox'[p] : m.id # i
                      /\ \A u \in Threads : i \notin op'[u].reply
    BY DEF AtAgents
  <2>1. i \notin C /\ handouts[i] = 0
    BY <1>4, <1>7
  <2> QED BY <1>1, <1>6, <2>1 DEF AtAgents
<1>16. Fetching'
  <2> SUFFICES ASSUME NEW p \in Nodes, NEW u \in Threads, fetch'[p] = u
               PROVE  /\ op'[u].act = "claim" /\ op'[u].node = p
                      /\ op'[u].pc \in {"saving", "writing"} /\ inbox'[p] = {}
    BY DEF Fetching
  <2>1. CASE p = n
    BY <1>0, <1>1, <1>6, <2>1
  <2>2. CASE p # n
    <3>1. fetch[p] = u /\ u # t
      BY <1>0, <1>1, <2>2 DEF Fetching
    <3> QED BY <1>1, <1>6, <3>1 DEF Fetching
  <2> QED BY <2>1, <2>2
<1>17. RatesInOrder'
  <2>1. ASSUME NEW i \in Ids, Coming(n, i)' PROVE i \in C /\ Waiting(n, i)
    <3>1. i \in C /\ SetsRate(Object(t, i)'.kind)
      BY <1>0, <1>1, <1>6, <2>1 DEF Coming
    <3>2. held'[t][i].status = "absent"
      BY <1>1 DEF IdleHoldsNothing
    <3>3. SetsRate(mem[i].kind)
      BY <1>8, <3>1, <3>2 DEF Object
    <3> QED BY <1>2, <3>1, <3>3 DEF Waiting, OpenStatus
  <2>2. ASSUME NEW p \in Nodes, p # n, NEW i \in Ids, Coming(p, i)' PROVE Coming(p, i)
    <3>1. CASE \E m \in inbox[p] : m.id = i /\ SetsRate(m.kind)
      BY <3>1 DEF Coming
    <3>2. ASSUME NEW u \in Threads, fetch'[p] = u, i \in op'[u].reply,
                 SetsRate(Object(u, i)'.kind)
          PROVE  Coming(p, i)
      <4>1. fetch[p] = u /\ u # t /\ op'[u] = op[u]
        BY <1>0, <1>1, <1>6, <2>2, <3>2 DEF Fetching
      <4>2. Object(u, i)'.kind = Object(u, i).kind
        BY <1>1, <1>8 DEF Object
      <4> QED BY <3>2, <4>1, <4>2 DEF Coming
    <3> QED BY <1>1, <2>2, <3>1, <3>2 DEF Coming
  <2>3. \A p \in Nodes, i \in Ids : /\ Waiting(p, i)' => Waiting(p, i) /\ i \notin C
                                    /\ Ran(p, i)' <=> Ran(p, i)
    BY <1>1, <1>8, <1>9 DEF Waiting, Ran
  <2>4. \A i, j \in Ids : Waiting(n, i) /\ Waiting(n, j) => i = j
    BY DEF OneOpenPerSlot, Waiting, SameType, SetsRate
  <2> SUFFICES ASSUME NEW p \in Nodes, NEW i \in Ids, NEW j \in Ids
               PROVE  /\ Coming(p, i)' /\ Coming(p, j)' => i = j
                      /\ Coming(p, i)' /\ Ran(p, j)' => j < i
                      /\ Waiting(p, i)' /\ (Ran(p, j)' \/ Coming(p, j)') => j < i
    BY DEF RatesInOrder
  <2>5. CASE p = n
    BY <2>1, <2>3, <2>4, <2>5 DEF RatesInOrder
  <2>6. CASE p # n
    BY <2>2, <2>3, <2>6 DEF RatesInOrder
  <2> QED BY <2>5, <2>6
<1> QED BY <1>10, <1>11, <1>12, <1>13, <1>14, <1>15, <1>16, <1>17

\* An answered report marks its entry and changes nothing else in the ledger.
LEMMA ReportedOnly ==
    ASSUME ledger \in [Nodes -> [Ids -> Entry]], NEW p, NEW k,
           ledger' = [ledger EXCEPT ![p][k].reported = TRUE]
    PROVE  \A n \in Nodes, i \in Ids :
              ledger'[n][i].res = ledger[n][i].res /\ ledger'[n][i].rate = ledger[n][i].rate
<1> SUFFICES ASSUME NEW n \in Nodes, NEW i \in Ids
             PROVE  ledger'[n][i].res = ledger[n][i].res /\ ledger'[n][i].rate = ledger[n][i].rate
  OBVIOUS
<1>1. ledger[n][i] \in Entry
  OBVIOUS
<1>2. CASE n = p /\ i = k
  <2>1. ledger'[n][i] = [ledger[n][i] EXCEPT !.reported = TRUE]
    BY <1>2
  <2> QED BY <1>1, <2>1 DEF Entry
<1>3. CASE ~(n = p /\ i = k)
  <2>1. ledger'[n][i] = ledger[n][i]
    BY <1>3
  <2> QED BY <2>1
<1> QED BY <1>2, <1>3

\* The answer of a poll moves what was answered to the inbox, or is lost.
LEMMA FinishLife ==
    ASSUME IInv, LifeInv, TypeOK', NEW t \in Threads, NEW delivered \in BOOLEAN,
           Finish(t, delivered)
    PROVE  LifeInv'
<1> USE DEF LifeInv, IInv, Handlers
<1>0. /\ op \in [Threads -> Operation] /\ held \in [Threads -> [Ids -> Command]]
      /\ mem \in [Ids -> Command] /\ ledger \in [Nodes -> [Ids -> Entry]]
      /\ fetch \in [Nodes -> Threads \cup {None}] /\ inbox \in [Nodes -> SUBSET Message]
      /\ None \notin Threads
  BY ConstantsAssumption DEF TypeOK
<1>1. /\ op[t].pc = "saving" /\ op' = Ended(t) /\ held' = Released(t)
      /\ UNCHANGED <<mem, rate, handouts>>
  BY DEF Finish, budget
<1>2. /\ op'[t].reply = {}
      /\ \A u \in Threads : u # t => op'[u] = op[u] /\ held'[u] = held[u]
  BY <1>0, <1>1 DEF Ended, Released, Idle
<1>3. LivesAll
  BY <1>1 DEF LivesAll, Lives
<1>4. ASSUME \A n \in Nodes, u \in Threads : fetch'[n] = u => u # t /\ fetch[n] = u /\ inbox'[n] = inbox[n],
             \A n \in Nodes, i \in Ids : /\ ledger'[n][i].res = ledger[n][i].res
                                         /\ ledger'[n][i].rate = ledger[n][i].rate,
             \A n \in Nodes : inbox'[n] = inbox[n] \/
                /\ fetch[n] = t /\ inbox'[n] = {Handed(t, i) : i \in op[t].reply}
      PROVE  LifeInv'
  <2>1. \A i \in op[t].reply : /\ i \in Ids /\ Handed(t, i).id = i
                               /\ Handed(t, i).kind = Object(t, i).kind
    BY <1>0 DEF Operation, Handed
  <2>2. AtAgents'
    <3> SUFFICES ASSUME NEW i \in Ids, handouts[i] = 0
                 PROVE  /\ \A n \in Nodes : ledger'[n][i].res = "none" /\ \A m \in inbox'[n] : m.id # i
                        /\ \A u \in Threads : i \notin op'[u].reply
      BY <1>1 DEF AtAgents
    <3>1. \A n \in Nodes : \A m \in inbox'[n] : m.id # i
      BY <1>4, <2>1 DEF AtAgents
    <3> QED BY <1>2, <1>4, <3>1 DEF AtAgents
  <2>3. Fetching'
    BY <1>2, <1>4 DEF Fetching
  <2>4. \A n \in Nodes, i \in Ids : Coming(n, i)' => Coming(n, i)
    <3> SUFFICES ASSUME NEW n \in Nodes, NEW i \in Ids, Coming(n, i)' PROVE Coming(n, i)
      OBVIOUS
    <3>1. CASE \E m \in inbox'[n] : m.id = i /\ SetsRate(m.kind)
      BY <1>4, <2>1, <3>1 DEF Coming
    <3>2. CASE \E u \in Threads : fetch'[n] = u /\ i \in op'[u].reply /\ SetsRate(Object(u, i)'.kind)
      <4>1. PICK u \in Threads : fetch'[n] = u /\ i \in op'[u].reply /\ SetsRate(Object(u, i)'.kind)
        BY <3>2
      <4>2. u # t /\ fetch[n] = u
        BY <1>4, <4>1
      <4>3. Object(u, i)' = Object(u, i)
        BY <1>1, <1>2, <4>2 DEF Object
      <4> QED BY <1>2, <4>1, <4>2, <4>3 DEF Coming
    <3> QED BY <3>1, <3>2 DEF Coming
  <2>5. OneRateFetched'
    <3> SUFFICES ASSUME NEW n \in Nodes, NEW m \in inbox'[n], NEW k \in inbox'[n],
                        SetsRate(m.kind), SetsRate(k.kind)
                 PROVE  m = k
      BY DEF OneRateFetched
    <3>1. CASE inbox'[n] = inbox[n]
      BY <3>1 DEF OneRateFetched
    <3>2. CASE inbox'[n] # inbox[n]
      <4>1. PICK i \in op[t].reply, j \in op[t].reply : m = Handed(t, i) /\ k = Handed(t, j)
        BY <1>4, <3>2
      <4>2. Coming(n, i) /\ Coming(n, j)
        BY <1>4, <2>1, <3>2, <4>1 DEF Coming
      <4> QED BY <2>1, <4>1, <4>2 DEF RatesInOrder
    <3> QED BY <3>1, <3>2
  <2> QED BY <1>1, <1>3, <1>4, <2>2, <2>3, <2>4, <2>5, CalmStep
<1>5. CASE /\ op[t].act = "claim" /\ fetch[op[t].node] = t
           /\ inbox' = [inbox EXCEPT ![op[t].node] = {Handed(t, i) : i \in op[t].reply}]
           /\ fetch' = [fetch EXCEPT ![op[t].node] = None] /\ ledger' = ledger
  <2>1. \A n \in Nodes, u \in Threads : fetch'[n] = u =>
           u # t /\ fetch[n] = u /\ inbox'[n] = inbox[n]
    BY <1>0, <1>5 DEF Fetching
  <2>2. \A n \in Nodes : inbox'[n] = inbox[n] \/
           /\ fetch[n] = t /\ inbox'[n] = {Handed(t, i) : i \in op[t].reply}
    BY <1>0, <1>5
  <2> QED BY <1>4, <1>5, <2>1, <2>2
<1>6. CASE /\ op[t].act = "result" /\ UNCHANGED <<inbox, fetch>>
           /\ ledger' = [ledger EXCEPT ![op[t].node][op[t].id].reported = TRUE]
  <2>1. \A n \in Nodes, u \in Threads : fetch'[n] = u =>
           u # t /\ fetch[n] = u /\ inbox'[n] = inbox[n]
    BY <1>6 DEF Fetching
  <2>2. \A n \in Nodes, i \in Ids :
           ledger'[n][i].res = ledger[n][i].res /\ ledger'[n][i].rate = ledger[n][i].rate
    BY <1>0, <1>6, ReportedOnly
  <2> QED BY <1>4, <1>6, <2>1, <2>2
<1>7. CASE /\ fetch' = [n \in Nodes |-> IF fetch[n] = t THEN None ELSE fetch[n]]
           /\ UNCHANGED <<ledger, inbox>>
  <2>1. \A n \in Nodes, u \in Threads : fetch'[n] = u =>
           u # t /\ fetch[n] = u /\ inbox'[n] = inbox[n]
    BY <1>0, <1>7
  <2> QED BY <1>4, <1>7, <2>1
<1> QED BY <1>5, <1>6, <1>7 DEF Finish

\* What the agent does: the rate it applies is ahead of every other on its way.
LEMMA EdgeLife ==
    ASSUME IInv, LifeInv, TypeOK', Edge
    PROVE  LifeInv'
<1> USE DEF LifeInv, IInv
<1>0. /\ ledger \in [Nodes -> [Ids -> Entry]] /\ inbox \in [Nodes -> SUBSET Message]
      /\ fetch \in [Nodes -> Threads \cup {None}] /\ rate \in [Nodes -> Rates \cup {None}]
      /\ None \notin Threads
  BY ConstantsAssumption DEF TypeOK
<1>1. UNCHANGED <<mem, op, held, handouts>>
  BY DEF Edge, EdgeIgnore, EdgeApply, EdgePost, PostLost, EdgeGivesUp, central
<1>2. LivesAll
  BY <1>1 DEF LivesAll, Lives
<1>3. ASSUME UNCHANGED <<ledger, rate>>, \A n \in Nodes : inbox'[n] \subseteq inbox[n],
             \A n \in Nodes, u \in Threads : fetch'[n] = u => fetch[n] = u
      PROVE  LifeInv'
  <2>1. AtAgents' /\ OneRateFetched'
    BY <1>1, <1>3 DEF AtAgents, OneRateFetched
  <2>2. Fetching'
    BY <1>1, <1>3 DEF Fetching
  <2>3. ASSUME NEW n \in Nodes, NEW i \in Ids, Coming(n, i)' PROVE Coming(n, i)
    <3>1. \A u \in Threads : Object(u, i)' = Object(u, i)
      BY <1>1 DEF Object
    <3> QED BY <1>1, <1>3, <2>3, <3>1 DEF Coming
  <2> QED BY <1>1, <1>2, <1>3, <2>1, <2>2, <2>3, CalmStep
<1>4. ASSUME NEW n \in Nodes, NEW m \in inbox[n], EdgeIgnore(n, m) PROVE LifeInv'
  BY <1>0, <1>3, <1>4 DEF EdgeIgnore
<1>5. ASSUME NEW n \in Nodes, NEW i \in Ids, EdgePost(n, i) \/ PostLost(n, i) PROVE LifeInv'
  BY <1>0, <1>3, <1>5 DEF EdgePost, PostLost
<1>6. ASSUME NEW n \in Nodes, EdgeGivesUp(n) PROVE LifeInv'
  BY <1>0, <1>3, <1>6 DEF EdgeGivesUp
<1>7. ASSUME NEW n \in Nodes, NEW m \in inbox[n], NEW res \in {"executed", "failed"},
             EdgeApply(n, m, res)
      PROVE  LifeInv'
  <2>1. /\ m.id \in Ids /\ m.rate \in Rates \cup {None} /\ ledger[n][m.id].res = "none"
        /\ inbox' = [inbox EXCEPT ![n] = @ \ {m}] /\ fetch' = fetch
        /\ res = "executed" => SetsRate(m.kind)
        /\ rate' = IF res = "executed" THEN [rate EXCEPT ![n] = m.rate] ELSE rate
    BY <1>0, <1>7 DEF EdgeApply, InLedger, Message
  <2>2. /\ ledger'[n][m.id].res = res /\ ledger'[n][m.id].rate = m.rate
        /\ \A p \in Nodes, i \in Ids : p # n \/ i # m.id => ledger'[p][i] = ledger[p][i]
    BY <1>0, <1>7, <2>1 DEF EdgeApply
  <2>3. /\ inbox'[n] = inbox[n] \ {m}
        /\ \A p \in Nodes : p # n => inbox'[p] = inbox[p]
    BY <1>0, <2>1
  <2>4. handouts[m.id] # 0
    BY <2>1 DEF AtAgents
  <2>5. AtAgents'
    BY <1>1, <2>2, <2>3, <2>4 DEF AtAgents
  <2>6. OneRateFetched'
    BY <2>3 DEF OneRateFetched
  <2>7. Fetching'
    BY <1>1, <2>1, <2>3 DEF Fetching
  <2>8. ASSUME NEW p \in Nodes, NEW i \in Ids, Coming(p, i)'
        PROVE  Coming(p, i) /\ (p = n => ~SetsRate(m.kind))
    <3>1. \A u \in Threads : Object(u, i)' = Object(u, i)
      BY <1>1 DEF Object
    <3>2. Coming(p, i)
      BY <1>1, <2>1, <2>3, <2>8, <3>1 DEF Coming
    <3>3. ASSUME p = n, SetsRate(m.kind) PROVE FALSE
      <4>1. fetch[n] \notin Threads
        BY DEF Fetching
      <4>2. PICK k \in inbox'[n] : SetsRate(k.kind)
        BY <2>1, <2>8, <3>3, <4>1 DEF Coming
      <4> QED BY <2>3, <3>3, <4>2 DEF OneRateFetched
    <3> QED BY <3>2, <3>3
  <2>9. CASE res = "failed"
    <3>1. \A p \in Nodes, i \in Ids : Ran(p, i)' <=> Ran(p, i)
      BY <2>1, <2>2, <2>9 DEF Ran
    <3>2. LatestWins'
      BY <2>1, <2>2, <2>9, <3>1 DEF LatestWins, Ran
    <3>3. RatesInOrder'
      BY <1>1, <2>8, <3>1 DEF RatesInOrder, Waiting
    <3> QED BY <1>1, <2>5, <2>6, <2>7, <3>2, <3>3
            DEF OneOpenPerSlot, ClaimedOnce, UsedIds, Unhanded, Outlived, Present
  <2>10. CASE res = "executed"
    <3>1. Coming(n, m.id) /\ SetsRate(m.kind)
      BY <2>1, <2>10 DEF Coming
    <3>2. \A p \in Nodes, i \in Ids : Ran(p, i)' => Ran(p, i) \/ (p = n /\ i = m.id)
      BY <2>2 DEF Ran
    <3>3. \A i \in Ids : Ran(n, i) => i < m.id
      BY <2>1, <3>1 DEF RatesInOrder
    <3>4. LatestWins'
      <4> SUFFICES ASSUME NEW p \in Nodes, NEW i \in Ids, ledger'[p][i].res = "executed",
                          \A j \in Ids : ledger'[p][j].res = "executed" => j <= i
                   PROVE  rate'[p] = ledger'[p][i].rate
        BY DEF LatestWins
      <4>1. CASE p = n
        <5>1. i = m.id
          <6>1. m.id <= i
            BY <2>1, <2>2, <2>10, <4>1
          <6>2. i = m.id \/ i < m.id
            BY <3>2, <3>3, <4>1 DEF Ran
          <6> QED BY <2>1, <6>1, <6>2 DEF Ids
        <5> QED BY <1>0, <2>1, <2>2, <2>10, <4>1, <5>1
      <4>2. CASE p # n
        <5>1. rate'[p] = rate[p] /\ \A j \in Ids : ledger'[p][j] = ledger[p][j]
          BY <1>0, <2>1, <2>2, <4>2
        <5> QED BY <5>1 DEF LatestWins
      <4> QED BY <4>1, <4>2
    <3>5. RatesInOrder'
      <4>1. \A p \in Nodes, i \in Ids : Waiting(p, i)' => Waiting(p, i)
        BY <1>1 DEF Waiting
      <4> SUFFICES ASSUME NEW p \in Nodes, NEW i \in Ids, NEW j \in Ids
                   PROVE  /\ Coming(p, i)' /\ Coming(p, j)' => i = j
                          /\ Coming(p, i)' /\ Ran(p, j)' => j < i
                          /\ Waiting(p, i)' /\ (Ran(p, j)' \/ Coming(p, j)') => j < i
        BY DEF RatesInOrder
      <4>2. CASE p = n
        BY <2>1, <2>8, <3>1, <3>2, <4>1, <4>2 DEF RatesInOrder
      <4>3. CASE p # n
        BY <2>8, <3>2, <4>1, <4>3 DEF RatesInOrder
      <4> QED BY <4>2, <4>3
    <3> QED BY <1>1, <2>5, <2>6, <2>7, <3>4, <3>5
            DEF OneOpenPerSlot, ClaimedOnce, UsedIds, Unhanded, Outlived, Present
  <2> QED BY <2>9, <2>10
<1> QED BY <1>4, <1>5, <1>6, <1>7 DEF Edge

-----------------------------------------------------------------------------
(* The actions *)

\* A handler that was idle, or waited between review and lock.
LEMMA FreshServes ==
    ASSUME TypeOK, NEW t \in Threads, op[t].pc \in {"idle", "reviewed"}, held' = held,
           \A u \in Threads : u # t => op'[u] = op[u],
           op'[t].reply = {}
    PROVE  \A u \in Threads : Serves(u)
  BY DEF Serves

\* A handler that starts to save without an answer, or ends.
LEMMA FreshReply ==
    ASSUME op \in [Threads -> Operation], NEW t \in Threads,
           (\E td : op' = Saving(t, [Idle EXCEPT !.todo = td])) \/ op' = Ended(t)
    PROVE  /\ op'[t].reply = {} /\ \A u \in Threads : u # t => op'[u] = op[u]
<1>1. CASE op' = Ended(t)
  BY <1>1 DEF Ended, Idle
<1>2. ASSUME NEW td, op' = Saving(t, [Idle EXCEPT !.todo = td])
      PROVE  op'[t].reply = {} /\ \A u \in Threads : u # t => op'[u] = op[u]
  BY <1>2 DEF Saving, Idle
<1> QED BY <1>1, <1>2

\* A handler that goes on.
LEMMA ContinueServes ==
    ASSUME TypeOK, NEW t \in Threads, op[t].pc \in {"saving", "writing"},
           NEW td, Continue(t, td)
    PROVE  \A u \in Threads : Serves(u)
<1>0. op \in [Threads -> Operation] /\ held \in [Threads -> [Ids -> Command]]
  BY DEF TypeOK
<1> DEFINE w == [op[t] EXCEPT !.todo = td]
<1>1. /\ w.act = op[t].act /\ [w EXCEPT !.pc = "saving"].act = op[t].act
      /\ [w EXCEPT !.pc = "saving"].node = op[t].node
      /\ [w EXCEPT !.pc = "saving"].reply = op[t].reply
      /\ [w EXCEPT !.pc = "saving"].pc = "saving"
  BY <1>0 DEF Operation
<1>2. op' = Saving(t, w) /\ held' = IF op'[t] = Idle THEN Released(t) ELSE held
  BY DEF Continue
<1> HIDE DEF w
<1>3. \A u \in Threads : u # t => op'[u] = op[u] /\ held'[u] = held[u]
  BY <1>0, <1>2 DEF Saving, Released
<1>4. Serves(t)
  <2>1. CASE op'[t] = Idle
    <3>1. Idle.reply = {} /\ Idle.act # "claim" /\ Idle.pc = "idle"
      BY DEF Idle
    <3>2. op[t].act # "claim"
      BY <1>0, <1>1, <1>2, <2>1, <3>1 DEF Saving
    <3> QED BY <2>1, <3>1, <3>2 DEF Serves
  <2>2. CASE op'[t] # Idle
    <3>1. op'[t] = [w EXCEPT !.pc = "saving"] /\ held' = held
      BY <1>0, <1>2, <2>2 DEF Saving
    <3> QED BY <1>1, <3>1 DEF Serves
  <2> QED BY <2>1, <2>2
<1> QED BY <1>3, <1>4 DEF Serves

\* A list left alone lives.
LEMMA SameLives == ASSUME mem' = mem PROVE LivesAll
  BY DEF LivesAll, Lives

\* Proposals.
LEMMA ProposalLife ==
    ASSUME IInv, LifeInv, Proposal, TypeOK'
    PROVE  LifeInv'
<1> USE DEF edge, budget
<1>0. TypeOK /\ op \in [Threads -> Operation]
  BY DEF IInv, TypeOK
<1>1. ASSUME NEW t \in Threads, NEW k \in Issued, NEW n \in Nodes,
             NEW o \in Orders \cup {None}, NEW r \in Rates \cup {None},
             Issue(t, k, n, o, r)
      PROVE  LifeInv'
  <2> DEFINE c == NewCommand(n, k, o, k = "dispatch", r, FirstStatus(k), FALSE)
  <2>1. k \in Kind /\ FirstStatus(k) \in Status /\ FirstStatus(k) \notin Withdrawn
    BY ConstantsAssumption DEF FirstStatus, Status, Withdrawn
  <2>2. PICK i \in Ids : IsNextId(i) /\ Create(t, i, c, ProposalTail(k, i, o))
    BY <1>1 DEF Issue
  <2>3. c \in Command /\ c.status = FirstStatus(k) /\ c.node = n
    <3>1. c \in Command
      BY <2>1, NewCommandType
    <3> QED BY <3>1 DEF NewCommand
  <2>4. op[t].pc = "idle" /\ UNCHANGED <<ledger, rate, inbox, fetch, handouts>>
    BY <1>1 DEF Issue
  <2> HIDE DEF c
  <2>5. c.status # "absent" /\ c.status \notin Withdrawn /\ c.node \in Nodes \cup {None}
    BY <2>1, <2>3 DEF Status
  <2>6. Creates(i, c)
    BY <2>2 DEF Create, Creates
  <2>7. op'[t].reply = {} /\ \A u \in Threads : u # t => op'[u] = op[u]
    BY <1>0, <2>2, FreshReply DEF Create
  <2> QED BY <2>3, <2>4, <2>5, <2>6, <2>7, CreateLife
<1>2. ASSUME NEW t \in Threads, NEW i \in Ids, ReissueDispatch(t, i) PROVE LifeInv'
  <2>1. /\ op[t].pc = "idle" /\ \E td : op' = Saving(t, [Idle EXCEPT !.todo = td])
        /\ UNCHANGED <<mem, held, ledger, rate, inbox, fetch, handouts>>
    BY <1>2 DEF ReissueDispatch
  <2>2. op'[t].reply = {} /\ \A u \in Threads : u # t => op'[u] = op[u]
    BY <1>0, <2>1, FreshReply
  <2>3. \A u \in Threads : Serves(u)
    BY <1>0, <2>1, <2>2, FreshServes
  <2> QED BY <1>0, <2>1, <2>3, SameLives, InPlaceLife
<1>3. ASSUME NEW n \in Nodes, NEW i \in Ids, NEW saved \in BOOLEAN, Isolate(n, i, saved)
      PROVE  LifeInv'
  <2> DEFINE c == NewCommand(n, "isolate", None, FALSE, None, "executed", TRUE)
  <2>1. c \in Command /\ c.status = "executed" /\ c.node = n
    <3>1. "isolate" \in Kind /\ "executed" \in Status
      BY DEF Kind, Status
    <3>2. c \in Command
      BY <3>1, NewCommandType
    <3> QED BY <3>2 DEF NewCommand
  <2>2. Creates(i, c) /\ op' = op /\ UNCHANGED <<ledger, rate, inbox, fetch, handouts>>
    BY <1>3 DEF Isolate, Creates
  <2> HIDE DEF c
  <2>3. c.status # "absent" /\ c.status \notin Withdrawn /\ c.node \in Nodes \cup {None}
    BY <2>1 DEF Withdrawn
  <2> QED BY <2>1, <2>2, <2>3, CreateLife
<1> QED BY <1>1, <1>2, <1>3 DEF Proposal

\* Decisions.
LEMMA DecisionLife ==
    ASSUME IInv, LifeInv, Decision, TypeOK'
    PROVE  LifeInv'
<1> USE DEF edge, budget
<1>0. /\ TypeOK /\ op \in [Threads -> Operation] /\ mem \in [Ids -> Command] /\ ReviewedHasId
  BY DEF IInv, TypeOK
<1>1. ASSUME NEW t \in Threads, op[t].pc \in {"idle", "reviewed"}, LivesAll,
             op'[t].reply = {}, \A u \in Threads : u # t => op'[u] = op[u],
             UNCHANGED <<held, ledger, rate, inbox, fetch, handouts>>
      PROVE  LifeInv'
  <2>1. \A u \in Threads : Serves(u)
    BY <1>0, <1>1, FreshServes
  <2> QED BY <1>0, <1>1, <2>1, InPlaceLife
<1>2. ASSUME NEW t \in Threads, NEW a \in Decisions, NEW i \in Ids,
             NEW code \in BOOLEAN, Review(t, a, i, code)
      PROVE  LifeInv'
  <2>1. op'[t].reply = {} /\ \A u \in Threads : u # t => op'[u] = op[u]
    BY <1>0, <1>2 DEF Review, Idle
  <2>2. op[t].pc = "idle" /\ UNCHANGED <<mem, held, ledger, rate, inbox, fetch, handouts>>
    BY <1>2 DEF Review
  <2> QED BY <1>1, <2>1, <2>2, SameLives
<1>3. ASSUME NEW t \in Threads, Refused(t) PROVE LifeInv'
  <2>1. op'[t].reply = {} /\ \A u \in Threads : u # t => op'[u] = op[u]
    BY <1>0, <1>3, FreshReply DEF Refused
  <2>2. op[t].pc = "reviewed" /\ UNCHANGED <<mem, held, ledger, rate, inbox, fetch, handouts>>
    BY <1>3 DEF Refused
  <2> QED BY <1>1, <2>1, <2>2, SameLives
<1>4. ASSUME NEW t \in Threads, op[t].pc = "reviewed", Permitted(op[t])
      PROVE  /\ op[t].id \in Ids /\ mem[op[t].id] \in Command
             /\ mem[op[t].id].status # "absent"
  BY <1>0, <1>4 DEF ReviewedHasId, Permitted, Status, TerminalStatus, RetryableStatus
<1>5. ASSUME NEW t \in Threads, NEW a, NEW c, NEW td, Decide(t, a, c, td),
             Lives(mem[op[t].id], c)
      PROVE  LifeInv'
  <2>1. /\ op[t].pc = "reviewed" /\ mem' = [mem EXCEPT ![op[t].id] = c]
        /\ \E x : op' = Saving(t, [Idle EXCEPT !.todo = x])
        /\ UNCHANGED <<held, ledger, rate, inbox, fetch, handouts>>
    BY <1>5 DEF Decide
  <2>2. LivesAll
    BY <1>0, <1>5, <2>1 DEF LivesAll, Lives
  <2>3. op'[t].reply = {} /\ \A u \in Threads : u # t => op'[u] = op[u]
    BY <1>0, <2>1, FreshReply
  <2> QED BY <1>1, <2>1, <2>2, <2>3
<1>6. ASSUME NEW t \in Threads, Approve(t) PROVE LifeInv'
  <2> DEFINE o == mem[op[t].id]
             d == Approved(o, op[t])
  <2>1. /\ op[t].pc = "reviewed" /\ Permitted(op[t]) /\ op[t].act = "approve"
        /\ Decide(t, "approve", d, {SaveItem(SavePhase, {op[t].id})}
                                   \cup DecisionTail(op[t], "dispatched", "accepted"))
    BY <1>6 DEF Approve, Decide
  <2>2. o \in Command /\ o.status = "waiting_approval"
    BY <1>4, <2>1 DEF Permitted
  <2> HIDE DEF o
  <2>3. d.node = o.node /\ d.kind = o.kind /\ d.status \in {"verified", "pending"}
    BY <2>2 DEF Approved, Command
  <2> HIDE DEF d
  <2>4. Lives(o, d)
    BY <2>2, <2>3 DEF Lives, OpenStatus, Withdrawn
  <2> QED BY <1>5, <2>1, <2>4 DEF o
<1>7. ASSUME NEW t \in Threads, Reject(t) PROVE LifeInv'
  <2> DEFINE o == mem[op[t].id]
             d == [o EXCEPT !.status = "rejected"]
  <2>1. /\ op[t].pc = "reviewed" /\ Permitted(op[t]) /\ op[t].act = "reject"
        /\ Decide(t, "reject", d, {SaveItem(SavePhase, {op[t].id})}
                                  \cup DecisionTail(op[t], "rejected", "rejected"))
    BY <1>7 DEF Reject, Decide
  <2>2. o \in Command /\ o.status = "waiting_approval"
    BY <1>4, <2>1 DEF Permitted
  <2> HIDE DEF o
  <2>3. Lives(o, d)
    BY <2>2 DEF Lives, OpenStatus, Withdrawn, Command
  <2> QED BY <1>5, <2>1, <2>3 DEF o
<1>8. ASSUME NEW t \in Threads, Cancel(t) PROVE LifeInv'
  <2> DEFINE o == mem[op[t].id]
             d == IF o.status = "cancelled" THEN o
                  ELSE [o EXCEPT !.status = "cancelled", !.msg = "system"]
             td == (IF o.status = "cancelled" THEN {} ELSE {SaveItem(SavePhase, {op[t].id})})
                   \cup DecisionTail(op[t], "cancelled", "rejected")
  <2>1. op[t].pc = "reviewed" /\ Permitted(op[t]) /\ Decide(t, "cancel", d, td)
    BY <1>8 DEF Cancel, Decide
  <2>2. o \in Command /\ o.status # "absent"
    BY <1>4, <2>1
  <2> HIDE DEF o, td
  <2>3. Lives(o, d)
    BY <2>2 DEF Lives, OpenStatus, Withdrawn, Command
  <2> QED BY <1>5, <2>1, <2>3 DEF o
<1>9. ASSUME NEW t \in Threads, NEW i \in Ids, Retry(t, i) PROVE LifeInv'
  <2> DEFINE o == mem[op[t].id]
             c == NewCommand(o.node, o.kind, o.order, FALSE, o.rate, "pending", op[t].code)
  <2>1. /\ op[t].pc = "reviewed" /\ Permitted(op[t]) /\ IsNextId(i) /\ Create(t, i, c, {})
        /\ UNCHANGED <<ledger, rate, inbox, fetch, handouts>>
    BY <1>9 DEF Retry
  <2>2. o \in Command
    BY <1>4, <2>1
  <2>3. c \in Command /\ c.status = "pending" /\ c.node = o.node
    <3>1. "pending" \in Status
      BY DEF Status
    <3>2. /\ o.node \in Nodes \cup {None} /\ o.kind \in Kind \cup {None}
          /\ o.order \in Orders \cup {None} /\ o.rate \in Rates \cup {None}
          /\ op[t].code \in BOOLEAN
      BY <1>0, <2>2 DEF Command, Operation
    <3> HIDE DEF o
    <3>3. c \in Command
      BY <3>1, <3>2, NewCommandType
    <3> QED BY <3>3 DEF NewCommand
  <2>4. o.node \in Nodes \cup {None}
    BY <2>2 DEF Command
  <2> HIDE DEF c, o
  <2>5. c.status # "absent" /\ c.status \notin Withdrawn /\ c.node \in Nodes \cup {None}
    BY <2>3, <2>4 DEF Withdrawn
  <2>6. Creates(i, c)
    BY <2>1 DEF Create, Creates
  <2>7. op'[t].reply = {} /\ \A u \in Threads : u # t => op'[u] = op[u]
    BY <1>0, <2>1, FreshReply DEF Create
  <2> QED BY <2>1, <2>3, <2>5, <2>6, <2>7, CreateLife
<1> QED BY <1>2, <1>3, <1>6, <1>7, <1>8, <1>9 DEF Decision

\* Requests of agents and heartbeats.
LEMMA AgentRequestLife ==
    ASSUME IInv, LifeInv, AgentRequest, TypeOK'
    PROVE  LifeInv'
<1> USE DEF edge, budget
<1>0. /\ TypeOK /\ op \in [Threads -> Operation] /\ mem \in [Ids -> Command]
  BY DEF IInv, TypeOK
<1>1. ASSUME NEW t \in Threads, op[t].pc = "idle", LivesAll,
             op'[t].reply = {}, \A u \in Threads : u # t => op'[u] = op[u],
             UNCHANGED <<held, ledger, rate, inbox, fetch, handouts>>
      PROVE  LifeInv'
  <2>1. \A u \in Threads : Serves(u)
    BY <1>0, <1>1, FreshServes
  <2> QED BY <1>0, <1>1, <2>1, InPlaceLife
<1>2. ASSUME NEW i \in Ids PROVE Lives(mem[i], mem[i])
  BY DEF Lives
<1>3. ASSUME NEW i \in Ids, mem[i].status # "absent", NEW d, d.node = mem[i].node,
             d.kind = mem[i].kind,
             d.status \in {"claimed", "expired", "applied", "executed", "verified", "failed"}
      PROVE  Lives(mem[i], d)
  BY <1>3 DEF Lives, OpenStatus, Withdrawn
<1>4. ASSUME NEW i \in Ids, Claimed(i)
      PROVE  Lives(mem[i], [mem[i] EXCEPT !.status = "expired", !.msg = "system"])
  <2> DEFINE d == [mem[i] EXCEPT !.status = "expired", !.msg = "system"]
  <2>1. d.node = mem[i].node /\ d.kind = mem[i].kind /\ d.status = "expired"
    BY <1>0 DEF Command
  <2> HIDE DEF d
  <2>2. Lives(mem[i], d)
    BY <1>3, <1>4, <2>1 DEF Claimed
  <2> QED BY <2>2 DEF d
<1>5. ASSUME NEW t \in Threads, NEW n \in Nodes, NEW S \in SUBSET Ids, Claim(t, n, S)
      PROVE  LifeInv'
  <2>1. LivesAll
    <3> SUFFICES ASSUME NEW i \in Ids PROVE Lives(mem[i], AfterClaim(n, S)[i])
      BY <1>5 DEF Claim, LivesAll
    <3>1. ASSUME Claimable(i, n) PROVE Lives(mem[i], [mem[i] EXCEPT !.status = "claimed"])
      <4> DEFINE d == [mem[i] EXCEPT !.status = "claimed"]
      <4>1. d.node = mem[i].node /\ d.kind = mem[i].kind /\ d.status = "claimed"
        BY <1>0 DEF Command
      <4> HIDE DEF d
      <4>2. Lives(mem[i], d)
        BY <1>3, <3>1, <4>1 DEF Claimable
      <4> QED BY <4>2 DEF d
    <3>2. i \in S => Claimed(i)
      BY <1>5 DEF Claim
    <3> QED BY <1>2, <1>4, <3>1, <3>2 DEF AfterClaim
  <2> QED BY <1>5, <2>1, ClaimLife
<1>6. ASSUME NEW t \in Threads, NEW S \in SUBSET Ids, ExpireScan(t, S) PROVE LifeInv'
  <2>1. LivesAll
    BY <1>2, <1>4, <1>6 DEF ExpireScan, LivesAll
  <2>2. op'[t].reply = {} /\ \A u \in Threads : u # t => op'[u] = op[u]
    BY <1>0, <1>6, FreshReply DEF ExpireScan
  <2> QED BY <1>1, <1>6, <2>1, <2>2 DEF ExpireScan
<1>7. ASSUME NEW t \in Threads, NEW n \in Nodes, NEW i \in Ids, RecordResult(t, n, i)
      PROVE  LifeInv'
  <2> DEFINE d == WithResult(mem[i], ResultStatus(n, i))
  <2>1. mem' = mem \/ (AcceptsResult(mem[i]) /\ mem' = [mem EXCEPT ![i] = d])
    BY <1>7 DEF RecordResult
  <2>2. d.node = mem[i].node /\ d.kind = mem[i].kind /\ d.status \in {"applied", "failed"}
    BY <1>0 DEF Command, WithResult, ResultStatus
  <2> HIDE DEF d
  <2>3. AcceptsResult(mem[i]) => Lives(mem[i], d)
    BY <1>3, <2>2 DEF AcceptsResult
  <2>4. LivesAll
    BY <1>0, <1>2, <2>1, <2>3 DEF LivesAll
  <2>5. \A u \in Threads : Serves(u)
    <3>1. /\ op[t].pc = "idle" /\ held' = held
          /\ \A u \in Threads : u # t => op'[u] = op[u]
      BY <1>0, <1>7 DEF RecordResult, Saving
    <3>2. op'[t] = op[t] \/ op'[t].reply = {}
      <4> DEFINE w == [Idle EXCEPT !.act = "result", !.node = n, !.id = i]
                 v == [w EXCEPT !.todo = {SaveItem(SavePhase, {i})}]
      <4>1. /\ Idle.reply = {} /\ [w EXCEPT !.pc = "saving"].reply = {}
            /\ [v EXCEPT !.pc = "saving"].reply = {}
        BY DEF Idle
      <4>2. op' = op \/ op' = Saving(t, w) \/ op' = Saving(t, v)
        BY <1>7 DEF RecordResult
      <4> HIDE DEF w, v
      <4> QED BY <1>0, <4>1, <4>2 DEF Saving
    <3> QED BY <3>1, <3>2 DEF Serves
  <2> QED BY <1>0, <1>7, <2>4, <2>5, InPlaceLife DEF RecordResult
<1>8. ASSUME NEW t \in Threads, NEW n \in Nodes, NEW scene \in [Ids -> Scenes],
             Heartbeat(t, n, scene)
      PROVE  LifeInv'
  <2>1. mem' = [i \in Ids |-> IF i \in Observed(n) THEN Observe(mem[i], n, scene[i]) ELSE mem[i]]
    BY <1>8 DEF Heartbeat
  <2>2. ASSUME NEW i \in Observed(n) PROVE Lives(mem[i], Observe(mem[i], n, scene[i]))
    <3> DEFINE d == Observe(mem[i], n, scene[i])
    <3>1. i \in Ids /\ mem[i].status \in {"applied", "executed"} /\ mem[i] \in Command
      BY <1>0 DEF Observed
    <3>2. /\ d.node = mem[i].node /\ d.kind = mem[i].kind
          /\ d.status \in {"applied", "executed", "verified", "failed"}
      <4> DEFINE k == IF mem[i].obs < MaxObs THEN mem[i].obs + 1 ELSE MaxObs
                 v == Outcome(k, rate[n] = mem[i].rate, scene[i])
                 ms == IF v \in Verdict THEN "system" ELSE mem[i].msg
                 st == CASE v \in {"effective", "partial"} -> "verified"
                         [] v = "failed" -> "failed"
                         [] v = "inconclusive" -> "applied"
                         [] OTHER -> mem[i].status
      <4>1. d = IF mem[i].vstat \in Verdict THEN mem[i]
                ELSE [mem[i] EXCEPT !.obs = k, !.vstat = v, !.msg = ms, !.status = st]
        BY DEF Observe
      <4> HIDE DEF v, k
      <4>2. st \in {"applied", "executed", "verified", "failed"}
        BY <3>1
      <4> HIDE DEF st, ms, d
      <4> QED BY <3>1, <4>1, <4>2 DEF Command
    <3> HIDE DEF d
    <3>3. Lives(mem[i], d)
      BY <1>3, <3>1, <3>2
    <3> QED BY <3>3 DEF d
  <2>3. LivesAll
    BY <1>2, <2>1, <2>2 DEF LivesAll
  <2>4. op'[t].reply = {} /\ \A u \in Threads : u # t => op'[u] = op[u]
    BY <1>0, <1>8, FreshReply DEF Heartbeat
  <2> QED BY <1>1, <1>8, <2>3, <2>4 DEF Heartbeat
<1> QED BY <1>5, <1>6, <1>7, <1>8 DEF AgentRequest

\* Saves, projections and answers.
LEMMA UnlockedLife ==
    ASSUME ~Primary, IInv, LifeInv, Unlocked, TypeOK'
    PROVE  LifeInv'
<1> USE DEF edge, budget
<1>0. /\ TypeOK /\ op \in [Threads -> Operation] /\ mem \in [Ids -> Command]
  BY DEF IInv, TypeOK
<1>1. ASSUME NEW t \in Threads, NEW it \in op[t].todo, Prepare(t, it) PROVE LifeInv'
  <2>1. LivesAll
    BY <1>1, SameLives DEF Prepare
  <2>2. \A u \in Threads : Serves(u)
    <3>1. /\ op'[t].pc = "writing" /\ op'[t].reply = op[t].reply /\ op'[t].act = op[t].act
          /\ op'[t].node = op[t].node /\ held' = held
          /\ \A u \in Threads : u # t => op'[u] = op[u]
      BY <1>0, <1>1 DEF Prepare, Operation
    <3> QED BY <3>1 DEF Serves
  <2> QED BY <1>0, <1>1, <2>1, <2>2, InPlaceLife DEF Prepare
<1>2. ASSUME NEW t \in Threads, NEW it \in op[t].todo,
             \/ Save(t, it) \/ ProjectOrder(t, it) \/ ProjectVerdict(t, it)
             \/ SetSuggestion(t, it) \/ SaveFails(t, it)
      PROVE  LifeInv'
  <2>1. /\ Continue(t, op[t].todo \ {it}) /\ op[t].pc \in {"saving", "writing"}
        /\ UNCHANGED <<mem, ledger, rate, inbox, fetch, handouts>>
    BY <1>2 DEF Save, ProjectOrder, ProjectVerdict, SetSuggestion, SaveFails, Done, IsNext
  <2>2. \A u \in Threads : Serves(u)
    BY <1>0, <2>1, ContinueServes
  <2> QED BY <1>0, <2>1, <2>2, SameLives, InPlaceLife
<1>3. ASSUME NEW t \in Threads, NEW it \in op[t].todo, SuggestionFails(t, it) PROVE LifeInv'
  <2>1. it.ids \subseteq Ids
    BY <1>0 DEF Operation, Item, ItemRecord
  <2>2. PICK i \in Ids :
          LET open == mem[i].status \in (Status \ TerminalStatus) \ {"executed"}
          IN  /\ mem' = IF open
                        THEN [mem EXCEPT ![i].status = "cancelled", ![i].msg = "system"]
                        ELSE mem
              /\ Continue(t, IF open THEN {SaveItem(SavePhase, {i})} ELSE {})
    BY <1>3, <2>1 DEF SuggestionFails
  <2>3. LivesAll
    <3> DEFINE d == [mem[i] EXCEPT !.status = "cancelled", !.msg = "system"]
    <3>1. CASE mem' = mem
      BY <3>1, SameLives
    <3>2. CASE mem' # mem
      <4>1. mem[i].status # "absent" /\ mem' = [mem EXCEPT ![i] = d]
        BY <1>0, <2>2, <3>2 DEF Status
      <4>2. d.node = mem[i].node /\ d.kind = mem[i].kind /\ d.status = "cancelled"
        BY <1>0 DEF Command
      <4> HIDE DEF d
      <4> QED BY <1>0, <4>1, <4>2 DEF LivesAll, Lives, OpenStatus, Withdrawn
    <3> QED BY <3>1, <3>2
  <2>4. /\ op[t].pc \in {"saving", "writing"}
        /\ UNCHANGED <<ledger, rate, inbox, fetch, handouts>>
    BY <1>3 DEF SuggestionFails, IsNext
  <2>5. \A u \in Threads : Serves(u)
    BY <1>0, <2>2, <2>4, ContinueServes
  <2> QED BY <1>0, <2>3, <2>4, <2>5, InPlaceLife
<1>4. ASSUME NEW t \in Threads, NEW delivered \in BOOLEAN, Finish(t, delivered) PROVE LifeInv'
  BY <1>4, FinishLife
<1> QED BY <1>1, <1>2, <1>3, <1>4 DEF Unlocked

-----------------------------------------------------------------------------
(* The theorems *)

\* LifeInv holds at the start ...
LEMMA InitLife == Init => LifeInv
<1> SUFFICES ASSUME Init PROVE LifeInv
  OBVIOUS
<1>1. /\ \A i \in Ids : mem[i].status = "absent" /\ handouts[i] = 0
      /\ \A n \in Nodes : inbox[n] = {} /\ fetch[n] = None
      /\ \A n \in Nodes, i \in Ids : ledger[n][i].res = "none"
      /\ \A t \in Threads : op[t].reply = {}
      /\ None \notin Threads
  BY ConstantsAssumption DEF Init, Absent, NoEntry, Idle
<1>2. OneOpenPerSlot /\ ClaimedOnce /\ LatestWins /\ UsedIds /\ Unhanded
  BY <1>1 DEF OneOpenPerSlot, ClaimedOnce, LatestWins, UsedIds, Unhanded, OpenStatus, Withdrawn
<1>3. AtAgents /\ Fetching /\ OneRateFetched
  BY <1>1 DEF AtAgents, Fetching, OneRateFetched
<1>4. RatesInOrder
  BY <1>1 DEF RatesInOrder, Coming, Ran, Waiting, OpenStatus
<1> QED BY <1>2, <1>3, <1>4 DEF LifeInv

\* ... and always, while the central API neither restarts nor reloads.
LEMMA Life == ASSUME ~Primary, MaxRestarts = 0 PROVE Spec => [](IInv /\ LifeInv)
<1>1. IInv /\ LifeInv /\ [Next]_vars => LifeInv'
  <2> SUFFICES ASSUME IInv, LifeInv, [Next]_vars PROVE LifeInv'
    OBVIOUS
  <2>1. CASE UNCHANGED vars
    <3>1. \A u \in Threads : Serves(u)
      BY <2>1 DEF vars, Serves
    <3> QED BY <2>1, <3>1, SameLives, InPlaceLife DEF vars, IInv
  <2>2. CASE Next
    <3>1. TypeOK'
      BY NextGoverned DEF IInv
    <3>2. ~Refresh
      BY DEF Refresh
    <3>3. ~Restart
      BY DEF Restart, IInv, TypeOK
    <3> QED BY <2>2, <3>1, <3>2, <3>3, ProposalLife, DecisionLife, AgentRequestLife,
               UnlockedLife, EdgeLife DEF Next
  <2> QED BY <2>1, <2>2
<1> QED BY <1>1, InitGoverned, InitLife, NextGoverned, PTL DEF Spec

\* create_command supersedes under the lock what the new command replaces, and
\* nothing reopens a closed one: decisions that review a command before the
\* lock and retry or cancel it after never leave two open commands in a slot.
THEOREM OpenSlots == ASSUME ~Primary, MaxRestarts = 0 PROVE Spec => []OneOpenPerSlot
<1>1. IInv /\ LifeInv => OneOpenPerSlot
  BY DEF LifeInv
<1> QED BY <1>1, Life, PTL

\* A command is handed to one poll, however many polls of the agent are served
\* at once and whatever happens to their answers.
THEOREM HandedOutOnce == ASSUME ~Primary, MaxRestarts = 0 PROVE Spec => []ClaimedOnce
<1>1. IInv /\ LifeInv => ClaimedOnce
  BY DEF LifeInv
<1> QED BY <1>1, Life, PTL

\* A command that was superseded or rejected is in no inbox and in no ledger:
\* it was never handed out, and nothing is withdrawn after it was.
THEOREM WithdrawnStays == ASSUME ~Primary, MaxRestarts = 0 PROVE Spec => []WithdrawnNeverRuns
<1>1. IInv /\ LifeInv => WithdrawnNeverRuns
  BY DEF LifeInv, Unhanded, AtAgents, WithdrawnNeverRuns, Withdrawn
<1> QED BY <1>1, Life, PTL

\* An agent's rate is that of the newest command it executed, although answers
\* are lost, polls time out and the agent restarts between fetch and apply.
THEOREM NewestRate == ASSUME ~Primary, MaxRestarts = 0 PROVE Spec => []LatestWins
<1>1. IInv /\ LifeInv => LatestWins
  BY DEF LifeInv
<1> QED BY <1>1, Life, PTL

=============================================================================
