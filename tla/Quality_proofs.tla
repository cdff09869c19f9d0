---------------------------- MODULE Quality_proofs ----------------------------
(***************************************************************************)
(* Quality holds do what they are for, for every set of lots, places,      *)
(* sessions, inspections, samples and limits: an undecided lot is held     *)
(* (HoldUntilDecided), and no balance of a held serial changes             *)
(* (HeldSerialStays).  A serial is at most one unit (SerialOnce), and what *)
(* a request checked is true when it commits if no session was open beside *)
(* it (SerialSound).                                                       *)
(*                                                                         *)
(* The second is about a race: an inspection that is opened and a movement *)
(* that is recorded look at each other's rows before either commits.  That *)
(* one of them waits is SerialGuard: no session has written the balance of *)
(* a serial that is held or about to be.  The first rests on there being   *)
(* one open hold per lot (OneHoldPerLot): else releasing one inspection    *)
(* would lift the hold of another.                                         *)
(*                                                                         *)
(* The third follows the balance trigger: a session that has written a     *)
(* serial has weighed it and keeps its row, so no other weighs it          *)
(* (Weighed).  That a commit adds the legs to the sum over the places is   *)
(* induction over the sets of places (EverySet).                           *)
(* The fourth is that one session at most is open and that what it read is *)
(* still so (Quiet), and that new edges from parents to children that are  *)
(* not above them close no cycle (StaysAcyclic).                           *)
(***************************************************************************)
EXTENDS Quality, TLAPS, FiniteSetTheorems

Txn == [pc : {"idle", "checked", "written"}, kind : {None, "move", "transform", "adjust"},
        id : Ids \cup {None}, legs : [Slots -> Int]]
Case == [status : {None, "open", "adjusted"}, slot : Slots \cup {<<>>}, expected : Int,
         observed : Int]
Inspection ==
    [status : {None, "open", "passed", "failed", "released", "dispositioned", "rework_required"},
     lot : Lots \cup {None}, result : [Samples -> {None, "pass", "fail"}],
     hold : {None, "open", "released", "disposed"}, nc : {None, "open", "dispositioned"},
     disp : [DispositionTypes -> {None, "proposed", "approved"}],
     capa : {None, "open", "completed"}]
OpeningSession == [pc : {"idle", "read", "inserted"}, lot : Lots \cup {None}]

\* The type invariant of the material flow: a balance is a whole number for every
\* lot and place, an open case is about one of them.
MaterialType ==
    /\ place \subseteq Places /\ lot \in [Lots -> {None, "active", "closed"}]
    /\ stock \in [Slots -> Int] /\ edges \subseteq Lots \X Lots
    /\ recorded \subseteq Ids \cup {None} /\ held \subseteq Lots
    /\ case \in Case /\ (case.status = "open" => case.slot \in Slots)
    /\ tx \in [Txns -> Txn] /\ overlapped \in BOOLEAN /\ breach \subseteq {"blocked", "inexact"}

\* The type invariant of quality: a row has one of its statuses, one that is not
\* there has nothing in it.
QualityType ==
    /\ gauge \subseteq Gauges
    /\ plan \in [Revs -> {None, "draft", "approved", "effective", "superseded"}]
    /\ insp \in [Insps -> Inspection] /\ opening \in [Insps -> OpeningSession]
    /\ \A i \in Insps : insp[i].status = None => insp[i] = NoInspection
    /\ \A i \in Insps : insp[i].status # None => insp[i].lot \in Lots

TypeInv == MaterialType /\ QualityType

\* No session has written a balance of a serial that is held or about to be.
SerialGuard ==
    \A c \in Txns : Written(c) =>
        \A l \in LotsOf(tx[c]) \cap Serials : l \notin held \cup Shared

\* A lot has one open hold, the one being inserted included, and an inspection is
\* opened once.
OneHoldPerLot ==
    /\ \A i \in Insps :
          /\ opening[i].pc # "idle" => opening[i].lot \in Lots /\ insp[i].status = None
          /\ opening[i].pc = "inserted" => opening[i].lot \notin held
    /\ \A i, j \in Insps : i # j =>
          /\ opening[i].pc = "inserted" /\ opening[j].pc = "inserted"
               => opening[i].lot # opening[j].lot
          /\ insp[i].hold = "open" /\ insp[j].hold = "open" => insp[i].lot # insp[j].lot

\* An inspection that passed has passed every sample.
PassedAll ==
    \A i \in Insps : insp[i].status = "passed" => \A s \in Samples : insp[i].result[s] = "pass"

Inv == TypeInv /\ SerialGuard /\ OneHoldPerLot /\ PassedAll /\ HoldUntilDecided

-----------------------------------------------------------------------------
(* Types *)

\* The legs of a request are whole numbers of units, one for every lot and place.
LEMMA LegsType ==
    /\ Untouched \in [Slots -> Int]
    /\ MovementLegs \subseteq [Slots -> Int]
    /\ TransformLegs \subseteq [Slots -> Int]
<1>1. Untouched \in [Slots -> Int]
  BY DEF Untouched
<1>2. \A l \in Lots : Qty(l) \subseteq Int
  BY MaterialAssumption DEF Qty
<1>3. ASSUME NEW g \in MovementLegs PROVE g \in [Slots -> Int]
  <2> DEFINE Of(l, q) ==
               {[Untouched EXCEPT ![<<l, p>>] = q] : p \in Places}
               \cup {[Untouched EXCEPT ![<<l, p>>] = -q] : p \in Places}
               \cup {[Untouched EXCEPT ![<<l, d[1]>>] = -q, ![<<l, d[2]>>] = q] :
                       d \in {e \in Places \X Places : e[1] # e[2]}}
  <2>1. MovementLegs = UNION {UNION {Of(l, q) : q \in Qty(l)} : l \in Lots}
    BY DEF MovementLegs
  <2>2. PICK l \in Lots : \E q \in Qty(l) : g \in Of(l, q)
    <3> HIDE DEF Of
    <3> QED BY <1>3, <2>1
  <2>4. PICK q \in Qty(l) : g \in Of(l, q)
    BY <2>2
  <2>3. q \in Int /\ -q \in Int
    BY <1>2
  <2> QED BY <1>1, <2>3, <2>4
<1>4. TransformLegs \subseteq [Slots -> Int]
  BY MaterialAssumption DEF TransformLegs
<1> QED BY <1>1, <1>3, <1>4

\* A session that is not open has written nothing.
LEMMA ClosedType == Closed \in Txn /\ Closed.pc = "idle"
  BY LegsType DEF Closed, Txn, None

\* The lots a session touches are lots.
LEMMA LotsOfType == ASSUME NEW c, NEW l \in LotsOf(tx[c])
                    PROVE  l \in Lots /\ \E p \in Places : tx[c].legs[<<l, p>>] # 0
  BY DEF LotsOf, Rows, Slots

\* Nothing is recorded or inspected at first.
LEMMA InitInv == StockInit => Inv
<1> SUFFICES ASSUME StockInit PROVE Inv
  OBVIOUS
<1> USE DEF StockInit, NothingRegistered, NothingRecorded, NothingInspected
<1>1. NoInspection \in Inspection /\ NoInspection.status = None /\ NoInspection.hold = None
  BY DEF NoInspection, Inspection, None
<1>2. NotOpening \in OpeningSession /\ NotOpening.pc = "idle"
  BY DEF NotOpening, OpeningSession, None
<1>3. NoCase \in Case /\ NoCase.status = None
  BY DEF NoCase, Case, None
<1>4. MaterialType
  <2>1. tx \in [Txns -> Txn] /\ stock \in [Slots -> Int] /\ lot \in [Lots -> {None}]
    BY ClosedType
  <2>2. case \in Case /\ case.status # "open"
    BY <1>3 DEF None
  <2>3. place = {} /\ edges = {} /\ recorded = {} /\ held = {} /\ breach = {}
        /\ overlapped = FALSE
    OBVIOUS
  <2> QED BY <2>1, <2>2, <2>3 DEF MaterialType
<1>5. QualityType
  BY <1>1, <1>2 DEF QualityType, None
<1>6. SerialGuard
  BY ClosedType DEF SerialGuard, Written
<1>7. OneHoldPerLot
  BY <1>1, <1>2 DEF OneHoldPerLot, None
<1>8. PassedAll /\ HoldUntilDecided
  BY <1>1 DEF PassedAll, HoldUntilDecided, None
<1> QED BY <1>4, <1>5, <1>6, <1>7, <1>8 DEF Inv, TypeInv

-----------------------------------------------------------------------------
(* The material flow *)

\* Nothing of quality and of the holds moves.
QualityStill == UNCHANGED <<gauge, plan, insp, opening, held, lot>>

\* A step that leaves holds, inspections and lots alone keeps what is said of
\* them; it has only to respect the guard of the serials.
LEMMA StillKeeps ==
    ASSUME Inv, QualityStill, MaterialType', SerialGuard'
    PROVE  Inv'
<1>1. QualityType'
  BY DEF Inv, TypeInv, QualityType, QualityStill
<1>2. OneHoldPerLot' /\ PassedAll'
  BY DEF Inv, OneHoldPerLot, PassedAll, QualityStill
<1>3. HoldUntilDecided'
  BY DEF Inv, HoldUntilDecided, Waived, QualityStill
<1> QED BY <1>1, <1>2, <1>3 DEF Inv, TypeInv

\* A session begins with what it read, and has written nothing yet.
LEMMA BeginKeeps ==
    ASSUME Inv, UNCHANGED qualityVars, NEW c \in Txns, NEW w \in Txn, w.pc = "checked", NEW o,
           Begin(c, w, o)
    PROVE  Inv'
<1> USE DEF qualityVars, Begin
<1>0. MaterialType
  BY DEF Inv, TypeInv
<1>1. MaterialType'
  BY <1>0 DEF MaterialType
<1>2. SerialGuard'
  BY <1>0 DEF Inv, SerialGuard, Written, MaterialType, Shared, LotsOf, Rows
<1> QED BY <1>1, <1>2, StillKeeps DEF QualityStill

\* A session ends.
LEMMA EndKeeps ==
    ASSUME Inv, UNCHANGED qualityVars, NEW c \in Txns, tx' = [tx EXCEPT ![c] = Closed],
           UNCHANGED <<held, lot>>, MaterialType'
    PROVE  Inv'
<1> USE DEF qualityVars
<1>1. SerialGuard'
  BY ClosedType DEF Inv, SerialGuard, Written, TypeInv, MaterialType, Shared, LotsOf, Rows
<1> QED BY <1>1, StillKeeps DEF QualityStill

\* Requests, writes, commits and imports.
LEMMA MaterialKeeps == ASSUME Inv, MaterialStep(Ids) PROVE Inv'
<1>0. MaterialType /\ UNCHANGED qualityVars
  BY DEF Inv, TypeInv, MaterialStep
<1>1. ASSUME NEW c \in Txns, NEW id \in Ids, RecordMovement(c, id, Opening) PROVE Inv'
  <2>1. PICK g \in MovementLegs :
           Begin(c, [pc |-> "checked", kind |-> "move", id |-> id, legs |-> g], Opening)
    BY <1>1 DEF RecordMovement
  <2>2. [pc |-> "checked", kind |-> "move", id |-> id, legs |-> g] \in Txn
    BY LegsType DEF Txn
  <2> QED BY <1>0, <2>1, <2>2, BeginKeeps
<1>2. ASSUME NEW c \in Txns, NEW id \in Ids, RecordTransformation(c, id, Opening) PROVE Inv'
  <2>1. PICK g \in TransformLegs :
           Begin(c, [pc |-> "checked", kind |-> "transform", id |-> id, legs |-> g], Opening)
    BY <1>2 DEF RecordTransformation
  <2>2. [pc |-> "checked", kind |-> "transform", id |-> id, legs |-> g] \in Txn
    BY LegsType DEF Txn
  <2> QED BY <1>0, <2>1, <2>2, BeginKeeps
<1>3. ASSUME NEW c \in Txns, NEW id \in Ids, Adjust(c, id, Opening) PROVE Inv'
  <2> DEFINE g == [Untouched EXCEPT ![case.slot] = case.observed - case.expected]
  <2>1. g \in [Slots -> Int]
    <3>1. case.observed - case.expected \in Int
      BY <1>0 DEF MaterialType, Case
    <3> QED BY <3>1, LegsType
  <2> HIDE DEF g
  <2>2. [pc |-> "checked", kind |-> "adjust", id |-> id, legs |-> g] \in Txn
    BY <2>1 DEF Txn
  <2>3. Begin(c, [pc |-> "checked", kind |-> "adjust", id |-> id, legs |-> g], Opening)
    BY <1>3 DEF Adjust, g
  <2> QED BY <1>0, <2>2, <2>3, BeginKeeps
<1>4. ASSUME NEW c \in Txns, Write(c, Shared) PROVE Inv'
  <2> USE DEF qualityVars, Write
  <2>1. tx[c] \in Txn /\ tx' = [tx EXCEPT ![c] = [tx[c] EXCEPT !.pc = "written"]]
    BY <1>0, <1>4 DEF MaterialType
  <2>2. [tx[c] EXCEPT !.pc = "written"] \in Txn
    BY <2>1 DEF Txn
  <2>3. MaterialType'
    BY <1>0, <1>4, <2>1, <2>2 DEF MaterialType
  <2>4. \A d \in Txns : tx'[d].legs = tx[d].legs
    BY <1>0, <2>1 DEF MaterialType, Txn
  <2>5. \A d \in Txns : LotsOf(tx[d])' = LotsOf(tx[d])
    BY <2>4 DEF LotsOf, Rows
  <2>6. Shared' = Shared /\ held' = held
    BY <1>0, <1>4 DEF Shared
  <2>7. SerialGuard'
    <3> SUFFICES ASSUME NEW d \in Txns, Written(d)', NEW l \in LotsOf(tx[d])' \cap Serials
                 PROVE  l \notin held' \cup Shared'
      BY DEF SerialGuard
    <3>1. CASE d = c
      BY <1>4, <2>5, <2>6, <3>1 DEF Unblocked
    <3>2. CASE d # c
      <4>1. Written(d)
        BY <1>0, <2>1, <3>2 DEF Written, MaterialType
      <4> QED BY <2>5, <2>6, <4>1 DEF Inv, SerialGuard
    <3> QED BY <3>1, <3>2
  <2> QED BY <1>0, <1>4, <2>3, <2>7, StillKeeps DEF QualityStill
<1>5. ASSUME NEW c \in Txns, Commit(c) PROVE Inv'
  <2>1. tx[c] \in Txn /\ \A s \in Slots : stock[s] + tx[c].legs[s] \in Int
    BY <1>0 DEF MaterialType, Txn
  <2>2. stock' \in [Slots -> Int]
    BY <1>5, <2>1 DEF Commit
  <2>3. Parents(tx[c]) \X Children(tx[c]) \subseteq Lots \X Lots
    BY DEF Parents, Children, Slots
  <2>4. edges' \subseteq Lots \X Lots
    BY <1>0, <1>5, <2>3 DEF Commit, MaterialType
  <2>5. case' \in Case /\ case'.slot = case.slot /\ (case'.status = "open" => case.status = "open")
    BY <1>0, <1>5 DEF Commit, MaterialType, Case
  <2>6. recorded' \subseteq Ids \cup {None}
    BY <1>0, <1>5, <2>1 DEF Commit, MaterialType, Txn
  <2>7. breach' \subseteq {"blocked", "inexact"}
    BY <1>0, <1>5 DEF Commit, MaterialType
  <2>8. tx' \in [Txns -> Txn] /\ tx' = [tx EXCEPT ![c] = Closed]
        /\ UNCHANGED <<place, lot, held, overlapped>>
    BY <1>0, <1>5, ClosedType DEF Commit, MaterialType
  <2>9. MaterialType'
    BY <1>0, <2>2, <2>4, <2>5, <2>6, <2>7, <2>8 DEF MaterialType
  <2> QED BY <1>0, <2>8, <2>9, EndKeeps
<1>6. ASSUME NEW c \in Txns, Rollback(c) PROVE Inv'
  <2>1. MaterialType'
    BY <1>0, <1>6, ClosedType DEF Rollback, MaterialType
  <2> QED BY <1>0, <1>6, <2>1, EndKeeps DEF Rollback
<1>7. ASSUME NEW l \in Lots, NEW p \in Places, NEW q \in 0..MaxQty, Import(l, p, q) PROVE Inv'
  <2>1. <<l, p>> \in Slots /\ stock[<<l, p>>] \in Int /\ q \in Int
    BY <1>0, MaterialAssumption DEF Slots, MaterialType
  <2>2. case' \in Case /\ case'.slot \in Slots
    BY <1>7, <2>1 DEF Import, Case
  <2>3. MaterialType'
    BY <1>0, <1>7, <2>2 DEF Import, MaterialType
  <2>4. SerialGuard'
    BY <1>0, <1>7 DEF Import, Inv, SerialGuard, Written, Shared, LotsOf, Rows, qualityVars
  <2> QED BY <1>0, <1>7, <2>3, <2>4, StillKeeps DEF QualityStill, qualityVars, Import
<1> QED BY <1>1, <1>2, <1>3, <1>4, <1>5, <1>6, <1>7 DEF MaterialStep

\* Places, lots, gauges and plans are registered.
LEMMA MasterKeeps == ASSUME Inv, MasterStep PROVE Inv'
<1>0. TypeInv /\ UNCHANGED <<insp, opening, held, tx, stock, edges, recorded, case, overlapped,
                             breach>>
  BY DEF Inv, MasterStep, CreatePlace, CreateLot, CreateGauge, CreatePlan, TransitionPlan,
         qualityVars, materialVars
<1>1. place' \subseteq Places /\ gauge' \subseteq Gauges
  BY <1>0 DEF MasterStep, CreatePlace, CreateLot, CreateGauge, CreatePlan, TransitionPlan,
         qualityVars, materialVars, TypeInv, MaterialType, QualityType
<1>2. lot' \in [Lots -> {None, "active", "closed"}]
      /\ \A l \in Lots : lot[l] = "closed" => lot'[l] = "closed"
  BY <1>0 DEF MasterStep, CreatePlace, CreateLot, CreateGauge, CreatePlan, TransitionPlan,
         qualityVars, materialVars, TypeInv, MaterialType, None
<1>3. plan' \in [Revs -> {None, "draft", "approved", "effective", "superseded"}]
  <2>1. ASSUME NEW r \in Revs, TransitionPlan(r) PROVE plan' \in
          [Revs -> {None, "draft", "approved", "effective", "superseded"}]
    BY <1>0, <2>1 DEF TransitionPlan, TypeInv, QualityType
  <2>2. ASSUME NEW r \in Revs, CreatePlan(r) PROVE plan' \in
          [Revs -> {None, "draft", "approved", "effective", "superseded"}]
    BY <1>0, <2>2 DEF CreatePlan, TypeInv, QualityType
  <2> QED BY <1>0, <2>1, <2>2 DEF MasterStep, CreateGauge, qualityVars, TypeInv, QualityType
<1>4. TypeInv'
  BY <1>0, <1>1, <1>2, <1>3 DEF TypeInv, MaterialType, QualityType
<1>5. SerialGuard' /\ OneHoldPerLot' /\ PassedAll'
  BY <1>0 DEF Inv, SerialGuard, Written, Shared, LotsOf, Rows, OneHoldPerLot, PassedAll
<1>6. HoldUntilDecided'
  BY <1>0, <1>2 DEF Inv, HoldUntilDecided, Waived, TypeInv, QualityType, None
<1> QED BY <1>4, <1>5, <1>6 DEF Inv

-----------------------------------------------------------------------------
(* Inspections *)

\* What HoldUntilDecided says of one inspection.
Decided(r) ==
    /\ (r.status \in {"open", "passed", "failed"} \/ r.hold = "open")
         => r.hold = "open" /\ r.lot \in held
    /\ r.hold = "released" => \/ \A s \in Samples : r.result[s] = "pass"
                              \/ Waived(r, {"approved"})
    /\ r.status = "dispositioned" => lot[r.lot] = "closed" /\ r.hold # "open"

\* HoldUntilDecided, one inspection at a time.
LEMMA DecidedAll == HoldUntilDecided <=> \A i \in Insps : Decided(insp[i])
  BY DEF HoldUntilDecided, Decided

\* A step that rewrites one inspection, and neither its lot nor its hold.
LEMMA OneInspection ==
    ASSUME Inv, NEW i \in Insps, NEW r \in Inspection, insp' = [insp EXCEPT ![i] = r],
           UNCHANGED <<gauge, plan, opening, place, lot, stock, edges, recorded, case, held, tx,
                       breach>>, overlapped' \in BOOLEAN,
           insp[i].status # None, r.status # None, r.lot = insp[i].lot, r.hold = insp[i].hold,
           Decided(r), r.status = "passed" => \A s \in Samples : r.result[s] = "pass"
    PROVE  Inv'
<1> USE DEF materialVars
<1>0. TypeInv /\ OneHoldPerLot
  BY DEF Inv
<1>1. /\ \A j \in Insps : insp'[j].lot = insp[j].lot /\ insp'[j].hold = insp[j].hold
      /\ \A j \in Insps : j # i => insp'[j] = insp[j]
      /\ insp'[i] = r /\ insp' \in [Insps -> Inspection]
  BY <1>0 DEF TypeInv, QualityType
<1>2. \A j \in Insps : insp'[j].status = None <=> insp[j].status = None
  BY <1>1
<1>3. TypeInv'
  BY <1>0, <1>1, <1>2 DEF TypeInv, MaterialType, QualityType
<1>4. SerialGuard'
  BY DEF Inv, SerialGuard, Written, Shared, LotsOf, Rows
<1>5. OneHoldPerLot'
  BY <1>0, <1>1, <1>2 DEF OneHoldPerLot
<1>6. PassedAll'
  BY <1>1 DEF Inv, PassedAll
<1>7. \A j \in Insps : Decided(insp[j])'
  <2> SUFFICES ASSUME NEW j \in Insps PROVE Decided(insp[j])'
    OBVIOUS
  <2>1. CASE j = i
    BY <1>1, <2>1 DEF Decided, Waived
  <2>2. CASE j # i
    BY <1>1, <2>2, DecidedAll DEF Inv, Decided, Waived
  <2> QED BY <2>1, <2>2
<1>8. HoldUntilDecided'
  BY <1>7 DEF HoldUntilDecided, Decided
<1> QED BY <1>3, <1>4, <1>5, <1>6, <1>8 DEF Inv

\* Opening an inspection: read, insert, commit or roll back.
LEMMA OpenKeeps ==
    ASSUME Inv, NEW i \in Insps,
           (\E l \in Lots : OpenRead(i, l)) \/ OpenInsert(i) \/ OpenRollback(i)
    PROVE  Inv'
<1> USE DEF materialVars
<1>0. TypeInv /\ OneHoldPerLot /\ SerialGuard /\ opening[i] \in OpeningSession
  BY DEF Inv, TypeInv, QualityType
<1>1. UNCHANGED <<gauge, plan, insp, place, lot, stock, edges, recorded, case, held, tx, breach>>
      /\ overlapped' \in BOOLEAN
  BY <1>0 DEF OpenRead, OpenInsert, OpenRollback, Busy, Opening, Open, TypeInv, MaterialType
<1>2. PICK o \in OpeningSession :
         /\ opening' = [opening EXCEPT ![i] = o]
         /\ o.pc # "idle" => o.lot \in Lots /\ insp[i].status = None
         /\ o.pc = "inserted" => o.lot \notin held \cup Shared /\ o.lot \notin LockedLots
  <2>1. CASE \E l \in Lots : OpenRead(i, l)
    <3>1. PICK l \in Lots : OpenRead(i, l)
      BY <2>1
    <3>2. [pc |-> "read", lot |-> l] \in OpeningSession
      BY DEF OpeningSession
    <3> QED BY <3>1, <3>2 DEF OpenRead
  <2>2. CASE OpenInsert(i)
    <3> DEFINE o == [opening[i] EXCEPT !.pc = "inserted"]
    <3>1. o \in OpeningSession /\ o.pc = "inserted" /\ o.lot = opening[i].lot
      BY <1>0 DEF OpeningSession
    <3>2. opening' = [opening EXCEPT ![i] = o]
      BY <1>0, <2>2 DEF OpenInsert, TypeInv, QualityType
    <3>3. opening[i].lot \in Lots /\ insp[i].status = None
      BY <1>0, <2>2 DEF OpenInsert, OneHoldPerLot
    <3>4. opening[i].lot \notin held \cup Shared /\ opening[i].lot \notin LockedLots
      BY <2>2 DEF OpenInsert
    <3> QED BY <3>1, <3>2, <3>3, <3>4
  <2>3. CASE OpenRollback(i)
    <3>1. NotOpening \in OpeningSession /\ NotOpening.pc = "idle"
      BY DEF NotOpening, OpeningSession, None
    <3> QED BY <2>3, <3>1 DEF OpenRollback
  <2> QED BY <2>1, <2>2, <2>3
<1>3. opening'[i] = o /\ \A j \in Insps : j # i => opening'[j] = opening[j]
  BY <1>0, <1>2 DEF TypeInv, QualityType
<1>4. TypeInv'
  BY <1>0, <1>1, <1>2 DEF TypeInv, MaterialType, QualityType
<1>5. \A l \in Shared' : l \in Shared \/ (l = o.lot /\ o.pc = "inserted")
  BY <1>3 DEF Shared
<1>6. SerialGuard'
  <2> SUFFICES ASSUME NEW c \in Txns, Written(c), NEW l \in LotsOf(tx[c]) \cap Serials
               PROVE  l \notin held \cup Shared'
    BY <1>1 DEF SerialGuard, Written, LotsOf, Rows
  <2>1. l \notin held \cup Shared
    BY <1>0 DEF SerialGuard
  <2>2. l \in LockedLots
    BY DEF LockedLots
  <2> QED BY <1>2, <1>5, <2>1, <2>2
<1>7. OneHoldPerLot'
  <2>1. \A j \in Insps : opening[j].pc = "inserted" => opening[j].lot \in Shared
    BY DEF Shared
  <2> QED BY <1>0, <1>1, <1>2, <1>3, <2>1 DEF OneHoldPerLot
<1>8. PassedAll' /\ HoldUntilDecided'
  BY <1>1 DEF Inv, PassedAll, HoldUntilDecided, Waived
<1> QED BY <1>4, <1>6, <1>7, <1>8 DEF Inv

\* The inserted hold becomes visible.
LEMMA CommitKeeps == ASSUME Inv, NEW i \in Insps, OpenCommit(i) PROVE Inv'
<1> DEFINE l == opening[i].lot
           r == [NoInspection EXCEPT !.status = "open", !.hold = "open", !.lot = l]
<1>0. TypeInv /\ OneHoldPerLot /\ SerialGuard /\ HoldUntilDecided
  BY DEF Inv
<1>1. l \in Lots /\ insp[i].status = None /\ l \notin held /\ l \in Shared
      /\ opening[i].pc = "inserted"
  BY <1>0 DEF OpenCommit, OneHoldPerLot, Shared
<1>3. r \in Inspection /\ r.status = "open" /\ r.hold = "open" /\ r.lot = l
  <2> HIDE DEF l
  <2>1. l \in Lots
    BY <1>1
  <2> QED BY <2>1 DEF NoInspection, Inspection, None
<1>4. /\ insp' = [insp EXCEPT ![i] = r] /\ held' = held \cup {l}
      /\ opening' = [opening EXCEPT ![i] = NotOpening]
      /\ UNCHANGED <<gauge, plan, place, lot, stock, edges, recorded, case, tx, overlapped,
                     breach>>
  BY DEF OpenCommit
<1> HIDE DEF r
<1>5. NotOpening \in OpeningSession /\ NotOpening.pc = "idle"
  BY DEF NotOpening, OpeningSession, None
<1>6. /\ insp'[i] = r /\ opening'[i].pc = "idle"
      /\ \A j \in Insps : j # i => insp'[j] = insp[j] /\ opening'[j] = opening[j]
  BY <1>0, <1>4, <1>5 DEF TypeInv, QualityType
<1>7. TypeInv'
  BY <1>0, <1>1, <1>3, <1>4, <1>5, <1>6 DEF TypeInv, MaterialType, QualityType, None
<1>8. Shared' \subseteq Shared
  BY <1>6 DEF Shared
<1>9. SerialGuard'
  BY <1>0, <1>1, <1>4, <1>8 DEF SerialGuard, Written, LotsOf, Rows
<1>10. OneHoldPerLot'
  <2>1. \A j \in Insps : insp[j].hold = "open" => insp[j].lot # l
    BY <1>0, <1>1 DEF HoldUntilDecided
  <2>2. \A j \in Insps : j # i /\ opening[j].pc = "inserted" => opening[j].lot # l
    BY <1>0, <1>1 DEF OneHoldPerLot
  <2> QED BY <1>0, <1>1, <1>3, <1>4, <1>6, <2>1, <2>2 DEF OneHoldPerLot, None
<1>11. PassedAll'
  BY <1>3, <1>6 DEF Inv, PassedAll
<1>12. HoldUntilDecided'
  BY <1>0, <1>3, <1>4, <1>6 DEF HoldUntilDecided, Waived
<1> QED BY <1>7, <1>9, <1>10, <1>11, <1>12 DEF Inv

\* The last measurement decides: passed only if every sample passed.
LEMMA MeasureKeeps ==
    ASSUME Inv, NEW i \in Insps, NEW s \in Samples, NEW g, NEW v, RecordMeasurement(i, s, g, v)
    PROVE  Inv'
<1> DEFINE m == [insp[i] EXCEPT !.result[s] = Judge(v)]
           r == Evaluate(m)
<1>0. TypeInv /\ insp[i] \in Inspection /\ insp[i].status = "open" /\ insp[i].result[s] = None
      /\ Decided(insp[i])
  BY DecidedAll DEF Inv, TypeInv, QualityType, RecordMeasurement
<1>1. Judge(v) \in {"pass", "fail"}
  BY DEF Judge
<1>2. m \in Inspection /\ m.status = "open" /\ m.hold = insp[i].hold /\ m.lot = insp[i].lot
      /\ m.disp = insp[i].disp
  BY <1>0, <1>1 DEF Inspection
<1> HIDE DEF m
<1>3. /\ r \in Inspection /\ r.hold = m.hold /\ r.lot = m.lot
      /\ r.status \in {"open", "passed", "failed"}
  BY <1>2 DEF Evaluate, Inspection
<1>4. r.status = "passed" => \A t \in Samples : r.result[t] = "pass"
  <2>1. \A t \in Samples : m.result[t] \in {None, "pass", "fail"}
    BY <1>2 DEF Inspection
  <2>2. r.status = "passed" => r.result = m.result
        /\ \A t \in Samples : m.result[t] # None /\ m.result[t] # "fail"
    BY <1>2 DEF Evaluate, Inspection
  <2> QED BY <2>1, <2>2
<1>5. Decided(r)
  BY <1>0, <1>2, <1>3 DEF Decided
<1>6. insp' = [insp EXCEPT ![i] = r] /\ UNCHANGED <<gauge, plan, opening, materialVars>>
  BY DEF RecordMeasurement, m
<1> HIDE DEF r
<1>7. insp[i].status # None /\ r.status # None
  BY <1>0, <1>3 DEF None
<1>8. UNCHANGED <<place, lot, stock, edges, recorded, case, held, tx, breach>>
      /\ overlapped' \in BOOLEAN
  BY <1>0, <1>6 DEF materialVars, TypeInv, MaterialType
<1> QED BY <1>2, <1>3, <1>4, <1>5, <1>6, <1>7, <1>8, OneInspection

\* Proposals and corrective actions decide nothing.
LEMMA ProposalKeeps ==
    ASSUME Inv, NEW i \in Insps,
           \/ \E t \in DispositionTypes : CreateDisposition(i, t)
           \/ CreateCapa(i) \/ CompleteCapa(i)
    PROVE  Inv'
<1>0. TypeInv /\ insp[i] \in Inspection /\ Decided(insp[i])
      /\ (insp[i].status = "passed" => \A s \in Samples : insp[i].result[s] = "pass")
  BY DecidedAll DEF Inv, TypeInv, QualityType, PassedAll
<1>1. insp[i].status # None
  <2>1. NoInspection.nc = None /\ NoInspection.capa = None
    BY DEF NoInspection
  <2>2. insp[i].status = None => insp[i] = NoInspection
    BY <1>0 DEF TypeInv, QualityType
  <2>3. insp[i].nc # None \/ insp[i].capa # None
    BY DEF CreateDisposition, CreateCapa, CompleteCapa, None
  <2> QED BY <2>1, <2>2, <2>3
<1>2. PICK r \in Inspection :
         /\ insp' = [insp EXCEPT ![i] = r]
         /\ r.status = insp[i].status /\ r.lot = insp[i].lot /\ r.hold = insp[i].hold
         /\ r.result = insp[i].result
         /\ Waived(insp[i], {"approved"}) => Waived(r, {"approved"})
  <2>1. ASSUME NEW t \in DispositionTypes, CreateDisposition(i, t)
        PROVE  \E r \in Inspection :
                  /\ insp' = [insp EXCEPT ![i] = r]
                  /\ r.status = insp[i].status /\ r.lot = insp[i].lot /\ r.hold = insp[i].hold
                  /\ r.result = insp[i].result
                  /\ Waived(insp[i], {"approved"}) => Waived(r, {"approved"})
    <3> DEFINE r == [insp[i] EXCEPT !.disp[t] = "proposed"]
    <3>1. /\ r \in Inspection /\ r.status = insp[i].status /\ r.lot = insp[i].lot
          /\ r.hold = insp[i].hold /\ r.result = insp[i].result
          /\ r.disp = [insp[i].disp EXCEPT ![t] = "proposed"]
          /\ insp[i].disp \in [DispositionTypes -> {None, "proposed", "approved"}]
      BY <1>0 DEF Inspection
    <3>2. insp' = [insp EXCEPT ![i] = r]
      BY <1>0, <2>1 DEF CreateDisposition, TypeInv, QualityType
    <3> HIDE DEF r
    <3>3. insp[i].disp[t] # "approved"
      BY <2>1 DEF CreateDisposition, None
    <3>4. Waived(insp[i], {"approved"}) => Waived(r, {"approved"})
      BY <3>1, <3>3 DEF Waived
    <3> QED BY <3>1, <3>2, <3>4
  <2>2. ASSUME CreateCapa(i) \/ CompleteCapa(i)
        PROVE  \E r \in Inspection :
                  /\ insp' = [insp EXCEPT ![i] = r]
                  /\ r.status = insp[i].status /\ r.lot = insp[i].lot /\ r.hold = insp[i].hold
                  /\ r.result = insp[i].result
                  /\ Waived(insp[i], {"approved"}) => Waived(r, {"approved"})
    <3>1. PICK c \in {"open", "completed"} : insp' = [insp EXCEPT ![i].capa = c]
      BY <2>2 DEF CreateCapa, CompleteCapa
    <3> DEFINE r == [insp[i] EXCEPT !.capa = c]
    <3>2. /\ r \in Inspection /\ r.status = insp[i].status /\ r.lot = insp[i].lot
          /\ r.hold = insp[i].hold /\ r.result = insp[i].result /\ r.disp = insp[i].disp
      BY <1>0 DEF Inspection
    <3>3. insp' = [insp EXCEPT ![i] = r]
      BY <1>0, <3>1 DEF TypeInv, QualityType
    <3> HIDE DEF r
    <3>4. Waived(insp[i], {"approved"}) => Waived(r, {"approved"})
      BY <3>2 DEF Waived
    <3> QED BY <3>2, <3>3, <3>4
  <2> QED BY <2>1, <2>2
<1>3. Decided(r) /\ UNCHANGED <<gauge, plan, opening, materialVars>>
  BY <1>0, <1>2 DEF Decided, CreateDisposition, CreateCapa, CompleteCapa
<1>4. UNCHANGED <<place, lot, stock, edges, recorded, case, held, tx, breach>>
      /\ overlapped' \in BOOLEAN
  BY <1>0, <1>3 DEF materialVars, TypeInv, MaterialType
<1> QED BY <1>4, <1>0, <1>1, <1>2, <1>3, OneInspection

\* A step that ends the open hold of one inspection, if it has one, and perhaps
\* closes its lot: the holds of the others stay.
LEMMA HoldEnds ==
    ASSUME Inv, NEW i \in Insps, NEW r \in Inspection, insp' = [insp EXCEPT ![i] = r],
           UNCHANGED <<gauge, plan, opening, place, stock, edges, recorded, case, tx, breach>>,
           overlapped' \in BOOLEAN,
           insp[i].status # None, r.status # None, r.lot = insp[i].lot, r.hold # "open",
           held' = IF insp[i].hold = "open" THEN held \ {insp[i].lot} ELSE held,
           lot' \in [Lots -> {None, "active", "closed"}],
           \A l \in Lots : lot[l] = "closed" => lot'[l] = "closed",
           r.status \notin {"open", "passed", "failed"},
           r.hold = "released" => \/ \A s \in Samples : r.result[s] = "pass"
                                  \/ Waived(r, {"approved"}),
           r.status = "dispositioned" => lot'[r.lot] = "closed"
    PROVE  Inv'
<1>0. TypeInv /\ OneHoldPerLot /\ HoldUntilDecided
  BY DEF Inv
<1>1. /\ insp'[i] = r /\ insp' \in [Insps -> Inspection]
      /\ \A j \in Insps : j # i => insp'[j] = insp[j]
      /\ \A j \in Insps : insp'[j].lot = insp[j].lot
      /\ \A j \in Insps : insp'[j].status = None <=> insp[j].status = None
  BY <1>0 DEF TypeInv, QualityType
<1>2. held' \subseteq held
  OBVIOUS
<1>3. TypeInv'
  BY <1>0, <1>1, <1>2 DEF TypeInv, MaterialType, QualityType
<1>4. SerialGuard'
  BY <1>2 DEF Inv, SerialGuard, Written, Shared, LotsOf, Rows
<1>5. OneHoldPerLot'
  BY <1>0, <1>1, <1>2 DEF OneHoldPerLot
<1>6. PassedAll'
  BY <1>1 DEF Inv, PassedAll
<1>7. ASSUME NEW j \in Insps PROVE Decided(insp[j])'
  <2>1. CASE j = i
    BY <1>1, <2>1 DEF Decided, Waived
  <2>2. CASE j # i
    <3>1. insp'[j] = insp[j] /\ Decided(insp[j])
      BY <1>0, <1>1, <2>2, DecidedAll
    <3>2. insp[j].hold = "open" /\ insp[j].lot \in held => insp[j].lot \in held'
      BY <1>0, <2>2 DEF OneHoldPerLot
    <3>3. insp[j].status = "dispositioned" => insp[j].lot \in Lots
      BY <1>0 DEF TypeInv, QualityType, None
    <3> QED BY <3>1, <3>2, <3>3 DEF Decided, Waived
  <2> QED BY <2>1, <2>2
<1>8. HoldUntilDecided'
  BY <1>7 DEF HoldUntilDecided, Decided
<1> QED BY <1>3, <1>4, <1>5, <1>6, <1>8 DEF Inv

\* Releasing an inspection needs every sample or an approved use-as-is.
LEMMA ReleaseKeeps == ASSUME Inv, NEW i \in Insps, ReleaseInspection(i) PROVE Inv'
<1> DEFINE r == [insp[i] EXCEPT !.status = "released", !.hold = "released"]
<1>0. TypeInv /\ insp[i] \in Inspection /\ insp[i].hold = "open" /\ Releasable(insp[i])
      /\ (insp[i].status = "passed" => \A s \in Samples : insp[i].result[s] = "pass")
  BY DEF Inv, TypeInv, QualityType, PassedAll, ReleaseInspection
<1>1. /\ r \in Inspection /\ r.status = "released" /\ r.hold = "released"
      /\ r.lot = insp[i].lot /\ r.result = insp[i].result /\ r.disp = insp[i].disp
  BY <1>0 DEF Inspection
<1>2. insp' = [insp EXCEPT ![i] = r]
  BY <1>0 DEF ReleaseInspection, TypeInv, QualityType
<1>3. held' = held \ {insp[i].lot}
      /\ UNCHANGED <<gauge, plan, opening, place, lot, stock, edges, recorded, case, tx,
                     overlapped, breach>>
  BY DEF ReleaseInspection
<1> HIDE DEF r
<1>4. insp[i].status # None
  BY <1>0 DEF Releasable, None
<1>5. (\A s \in Samples : r.result[s] = "pass") \/ Waived(r, {"approved"})
  BY <1>0, <1>1 DEF Releasable, Waived
<1>6. lot' \in [Lots -> {None, "active", "closed"}] /\ overlapped' \in BOOLEAN
  BY <1>0, <1>3 DEF TypeInv, MaterialType
<1>7. r.status # None /\ r.hold # "open"
  BY <1>1 DEF None
<1> QED BY <1>0, <1>1, <1>2, <1>3, <1>4, <1>5, <1>6, <1>7, HoldEnds

\* Approving a disposition: scrap and return close the lot and end the hold,
\* rework and use-as-is keep it.
LEMMA ApproveKeeps ==
    ASSUME Inv, NEW i \in Insps, NEW t \in DispositionTypes, ApproveDisposition(i, t)
    PROVE  Inv'
<1> DEFINE l == insp[i].lot
           a == [insp[i] EXCEPT !.disp[t] = "approved", !.nc = "dispositioned"]
           gone == t \in {"scrap", "return_to_supplier"}
<1>0. TypeInv /\ insp[i] \in Inspection /\ Decided(insp[i])
      /\ (insp[i].status = "passed" => \A s \in Samples : insp[i].result[s] = "pass")
  BY DecidedAll DEF Inv, TypeInv, QualityType, PassedAll
<1>1. insp[i].status # None /\ l \in Lots
  <2>1. insp[i].status = None => insp[i] = NoInspection
    BY <1>0 DEF TypeInv, QualityType
  <2>2. NoInspection.disp[t] = None
    BY DEF NoInspection
  <2>3. insp[i].disp[t] = "proposed"
    BY DEF ApproveDisposition
  <2>4. insp[i].status # None
    BY <2>1, <2>2, <2>3 DEF None
  <2> QED BY <1>0, <2>4 DEF TypeInv, QualityType
<1>2. /\ a \in Inspection /\ a.status = insp[i].status /\ a.lot = l /\ a.hold = insp[i].hold
      /\ a.result = insp[i].result /\ a.disp = [insp[i].disp EXCEPT ![t] = "approved"]
      /\ insp[i].disp \in [DispositionTypes -> {None, "proposed", "approved"}]
  BY <1>0 DEF Inspection
<1>3. /\ insp' = [insp EXCEPT ![i] = IF gone THEN Scrap(a)
                                     ELSE IF t = "rework" THEN [a EXCEPT !.status = "rework_required"]
                                     ELSE a]
      /\ held' = IF gone /\ insp[i].hold = "open" THEN held \ {l} ELSE held
      /\ lot' = IF gone THEN [lot EXCEPT ![l] = "closed"] ELSE lot
      /\ overlapped' \in BOOLEAN
      /\ UNCHANGED <<gauge, plan, opening, place, stock, edges, recorded, case, tx, breach>>
  BY <1>0 DEF ApproveDisposition, Busy, Open, Opening, TypeInv, MaterialType
<1> HIDE DEF a
<1>4. Waived(insp[i], {"approved"}) => Waived(a, {"approved"})
  BY <1>2 DEF Waived
<1>5. insp[i].hold = "released" =>
         (\A s \in Samples : a.result[s] = "pass") \/ Waived(a, {"approved"})
  BY <1>0, <1>2, <1>4 DEF Decided
<1>6. CASE gone
  <2> DEFINE r == Scrap(a)
  <2>1. /\ r \in Inspection /\ r.status = "dispositioned" /\ r.lot = l /\ r.hold # "open"
        /\ (r.hold = "released" => insp[i].hold = "released")
        /\ r.result = a.result /\ r.disp = a.disp
    BY <1>2 DEF Scrap, Inspection
  <2>2. insp' = [insp EXCEPT ![i] = r]
    BY <1>3, <1>6
  <2> HIDE DEF r
  <2>3. lot' = [lot EXCEPT ![l] = "closed"] /\ lot \in [Lots -> {None, "active", "closed"}]
    BY <1>0, <1>3, <1>6 DEF TypeInv, MaterialType
  <2>4. lot' \in [Lots -> {None, "active", "closed"}] /\ lot'[l] = "closed"
        /\ \A k \in Lots : lot[k] = "closed" => lot'[k] = "closed"
    BY <1>1, <2>3
  <2>5. r.hold = "released" => (\A s \in Samples : r.result[s] = "pass") \/ Waived(r, {"approved"})
    BY <1>5, <2>1 DEF Waived
  <2>6. r.status # None /\ r.status \notin {"open", "passed", "failed"}
    BY <2>1 DEF None
  <2>7. held' = IF insp[i].hold = "open" THEN held \ {insp[i].lot} ELSE held
    BY <1>3, <1>6
  <2>8. lot'[r.lot] = "closed" /\ r.lot = insp[i].lot /\ r \in Inspection /\ r.hold # "open"
    BY <2>1, <2>4
  <2>9. /\ UNCHANGED <<gauge, plan, opening, place, stock, edges, recorded, case, tx, breach>>
        /\ overlapped' \in BOOLEAN
    BY <1>3
  <2> HIDE DEF l, gone
  <2> QED BY <1>1, <2>2, <2>4, <2>5, <2>6, <2>7, <2>8, <2>9, HoldEnds
<1>7. CASE ~gone
  <2>1. PICK r \in Inspection :
           /\ insp' = [insp EXCEPT ![i] = r]
           /\ r.lot = l /\ r.hold = insp[i].hold /\ r.result = a.result /\ r.disp = a.disp
           /\ r.status \in {insp[i].status, "rework_required"}
    <3>1. CASE t = "rework"
      <4> DEFINE r == [a EXCEPT !.status = "rework_required"]
      <4>1. /\ r \in Inspection /\ r.lot = l /\ r.hold = insp[i].hold
            /\ r.result = a.result /\ r.disp = a.disp /\ r.status = "rework_required"
        BY <1>2 DEF Inspection
      <4> QED BY <1>3, <1>7, <3>1, <4>1
    <3>2. CASE t # "rework"
      BY <1>2, <1>3, <1>7, <3>2
    <3> QED BY <3>1, <3>2
  <2>2. UNCHANGED <<gauge, plan, opening, place, lot, stock, edges, recorded, case, held, tx,
                    breach>>
    BY <1>3, <1>7
  <2>3. Decided(r) /\ (r.status = "passed" => \A s \in Samples : r.result[s] = "pass")
    <3>1. Waived(insp[i], {"approved"}) => Waived(r, {"approved"})
      BY <1>4, <2>1 DEF Waived
    <3> QED BY <1>0, <1>2, <2>1, <3>1 DEF Decided
  <2>4. r.status # None
    BY <1>1, <2>1 DEF None
  <2> QED BY <1>1, <1>3, <2>1, <2>2, <2>3, <2>4, OneInspection
<1> QED BY <1>6, <1>7

\* The invariant is inductive.
LEMMA InvStep == Inv /\ [StockNext]_stockVars => Inv'
<1>1. ASSUME Inv, UNCHANGED stockVars PROVE Inv'
  <2> USE <1>1 DEF stockVars, materialVars, qualityVars
  <2>1. MaterialType'
    BY DEF Inv, TypeInv, MaterialType
  <2>2. SerialGuard'
    BY DEF Inv, SerialGuard, Written, Shared, LotsOf, Rows
  <2> QED BY <2>1, <2>2, StillKeeps DEF QualityStill
<1>2. ASSUME Inv, NEW i \in Insps, InspectStep(i) \/ DispositionStep(i) PROVE Inv'
  BY <1>2, OpenKeeps, CommitKeeps, MeasureKeeps, ReleaseKeeps, ProposalKeeps, ApproveKeeps
     DEF InspectStep, DispositionStep
<1> QED BY <1>1, <1>2, MasterKeeps, MaterialKeeps DEF StockNext

\* A step that changes a balance is the commit of a session that wrote it.
LEMMA BalanceMoves ==
    ASSUME Inv, [StockNext]_stockVars, NEW s \in Slots, stock'[s] # stock[s]
    PROVE  \E c \in Txns : Commit(c)
<1> USE DEF stockVars, materialVars, qualityVars
<1>1. CASE UNCHANGED stockVars
  BY <1>1
<1>2. CASE MasterStep
  BY <1>2 DEF MasterStep, CreatePlace, CreateLot, CreateGauge, CreatePlan, TransitionPlan
<1>3. CASE MaterialStep(Ids)
  BY <1>3 DEF MaterialStep, RecordMovement, RecordTransformation, Adjust, Begin, Write, Rollback,
              Import
<1>4. ASSUME NEW i \in Insps, InspectStep(i) PROVE stock' = stock
  BY <1>4 DEF InspectStep, OpenRead, OpenInsert, OpenCommit, OpenRollback, RecordMeasurement,
              ReleaseInspection
<1>5. ASSUME NEW i \in Insps, DispositionStep(i) PROVE stock' = stock
  BY <1>5 DEF DispositionStep, CreateDisposition, ApproveDisposition, CreateCapa, CompleteCapa
<1> QED BY <1>1, <1>2, <1>3, <1>4, <1>5 DEF StockNext

\* No step changes a balance of a serial that is held before it.
LEMMA HeldStep ==
    ASSUME Inv, [StockNext]_stockVars
    PROVE  \A l \in held \cap Serials, p \in Places : stock'[<<l, p>>] = stock[<<l, p>>]
<1> SUFFICES ASSUME NEW l \in held \cap Serials, NEW p \in Places,
                    stock'[<<l, p>>] # stock[<<l, p>>]
             PROVE  FALSE
  OBVIOUS
<1>1. <<l, p>> \in Slots /\ l \in Lots
  BY MaterialAssumption DEF Slots
<1>2. PICK c \in Txns : Commit(c)
  BY <1>1, BalanceMoves
<1>3. /\ tx[c] \in Txn /\ stock[<<l, p>>] \in Int
      /\ stock'[<<l, p>>] = stock[<<l, p>>] + tx[c].legs[<<l, p>>]
      /\ Written(c)
  BY <1>1, <1>2 DEF Commit, Written, Inv, TypeInv, MaterialType
<1>4. tx[c].legs[<<l, p>>] # 0
  BY <1>3
<1>5. <<l, p>> \in Rows(tx[c])
  BY <1>1, <1>4 DEF Rows
<1>6. l \in LotsOf(tx[c])
  BY <1>5 DEF LotsOf
<1> QED BY <1>3, <1>6 DEF Inv, SerialGuard

-----------------------------------------------------------------------------
(* Sums over the places *)

\* Every number is in a set that holds 0 and, with a number, the next: else take a
\* number n outside it with the smallest interval 1..n; it is not 0, nor does it
\* follow a number inside.
LEMMA EveryNumber ==
    ASSUME NEW F \in SUBSET Nat, 0 \in F, \A n \in F : n + 1 \in F
    PROVE  F = Nat
<1> SUFFICES ASSUME F # Nat PROVE FALSE
  OBVIOUS
<1> DEFINE Outside == {1..n : n \in Nat \ F}
<1>1. Outside \subseteq FiniteSubsetsOf(Nat) /\ Outside # {}
  <2>1. \A n \in Nat : IsFiniteSet(1..n) /\ 1..n \subseteq Nat
    BY FS_Interval
  <2> QED BY <2>1 DEF FiniteSubsetsOf
<1>2. PICK I \in Outside : \A J \in Outside : <<J, I>> \notin StrictSubsetOrdering(Nat)
  <2> HIDE DEF Outside
  <2> QED BY <1>1, FS_StrictSubsetOrderingWellFounded, WFMin
<1>3. PICK n \in Nat \ F : I = 1..n
  OBVIOUS
<1>4. n - 1 \in Nat \ F
  <2>1. n # 0
    OBVIOUS
  <2>2. n - 1 \in Nat /\ (n - 1) + 1 = n
    BY <2>1
  <2> QED BY <2>2
<1>5. 1..(n - 1) \subseteq I /\ n \in I /\ n \notin 1..(n - 1) /\ I \subseteq Nat
  BY <1>3, <1>4
<1>6. 1..(n - 1) \in Outside
  BY <1>4
<1>7. <<1..(n - 1), I>> \in StrictSubsetOrdering(Nat)
  BY <1>5 DEF StrictSubsetOrdering
<1> QED BY <1>2, <1>6, <1>7

\* The place a fold over a set of places takes out first.
Some(S) == CHOOSE x \in S : TRUE

\* Sets of places have a size.
LEMMA SizeOf ==
    \A S \in SUBSET Places :
       /\ Cardinality(S) \in Nat /\ Cardinality(S) <= Cardinality(Places)
       /\ (Cardinality(S) <= 0 => S = {})
<1> SUFFICES ASSUME NEW S \in SUBSET Places
             PROVE  /\ Cardinality(S) \in Nat /\ Cardinality(S) <= Cardinality(Places)
                    /\ (Cardinality(S) <= 0 => S = {})
  OBVIOUS
<1>1. IsFiniteSet(S) /\ Cardinality(S) <= Cardinality(Places)
  BY MaterialAssumption, FS_Subset
<1>2. Cardinality(S) \in Nat /\ (Cardinality(S) = 0 <=> S = {})
  BY <1>1, FS_CardinalityType, FS_EmptySet
<1>3. Cardinality(S) <= 0 => Cardinality(S) = 0
  BY <1>2
<1> QED BY <1>1, <1>2, <1>3

\* The set without it is a smaller one.
LEMMA Smaller ==
    \A S \in SUBSET Places : S # {} =>
       /\ Some(S) \in Places /\ S \ {Some(S)} \in SUBSET Places
       /\ \A n \in Nat : Cardinality(S) <= n + 1 => Cardinality(S \ {Some(S)}) <= n
<1> SUFFICES ASSUME NEW S \in SUBSET Places, S # {}, NEW n \in Nat
             PROVE  /\ Some(S) \in Places /\ S \ {Some(S)} \in SUBSET Places
                    /\ Cardinality(S) <= n + 1 => Cardinality(S \ {Some(S)}) <= n
  OBVIOUS
<1>1. IsFiniteSet(S) /\ Cardinality(S) \in Nat
  BY SizeOf, MaterialAssumption, FS_Subset
<1>2. Some(S) \in S
  BY DEF Some
<1>3. Cardinality(S \ {Some(S)}) = Cardinality(S) - 1
  BY <1>1, <1>2, FS_RemoveElement
<1>4. Cardinality(S) <= n + 1 => Cardinality(S) - 1 <= n
  BY <1>1
<1> QED BY <1>2, <1>3, <1>4

\* The sums of a function over all sets of places.
Body(g, h, S) == IF S = {} THEN 0 ELSE g[Some(S)] + h[S \ {Some(S)}]
Sums(g) == {h \in [SUBSET Places -> Int] : \A S \in SUBSET Places : h[S] = Body(g, h, S)}

\* A set that holds the empty set of places, and every other with the one a place
\* smaller, holds them all: else take a smallest set outside.
LEMMA EverySet ==
    ASSUME NEW G \in SUBSET (SUBSET Places), {} \in G,
           \A S \in SUBSET Places : S # {} /\ S \ {Some(S)} \in G => S \in G
    PROVE  Places \in G
<1> SUFFICES ASSUME Places \notin G PROVE FALSE
  OBVIOUS
<1> DEFINE Outside == (SUBSET Places) \ G
<1>1. Outside # {} /\ Outside \subseteq FiniteSubsetsOf(Places)
  BY FS_FiniteSubsetsOfFinite, MaterialAssumption
<1>2. PICK S \in Outside : \A T \in Outside : <<T, S>> \notin StrictSubsetOrdering(Places)
  <2> HIDE DEF Outside
  <2> QED BY <1>1, FS_StrictSubsetOrderingWellFounded, WFMin
<1>3. S # {} /\ S \ {Some(S)} \in Outside
  BY Smaller
<1>4. Some(S) \in S
  BY <1>3 DEF Some
<1>5. <<S \ {Some(S)}, S>> \in StrictSubsetOrdering(Places)
  BY <1>4 DEF StrictSubsetOrdering
<1> QED BY <1>2, <1>3, <1>5

\* There are such sums: those of the sets of n places give those of n + 1.
LEMMA SumsExist == ASSUME NEW g \in [Places -> Int] PROVE Sums(g) # {}
<1> DEFINE Upto(h, n) == \A S \in SUBSET Places : Cardinality(S) <= n => h[S] = Body(g, h, S)
           F == {n \in Nat : \E h \in [SUBSET Places -> Int] : Upto(h, n)}
<1>1. 0 \in F
  <2> DEFINE h == [S \in SUBSET Places |-> 0]
  <2>1. h \in [SUBSET Places -> Int]
    OBVIOUS
  <2>2. ASSUME NEW S \in SUBSET Places, Cardinality(S) <= 0 PROVE h[S] = Body(g, h, S)
    <3>1. S = {}
      BY <2>2, SizeOf
    <3> QED BY <3>1 DEF Body
  <2>3. Upto(h, 0)
    BY <2>2
  <2> HIDE DEF h
  <2> QED BY <2>1, <2>3
<1>2. ASSUME NEW n \in F PROVE n + 1 \in F
  <2>1. PICK h \in [SUBSET Places -> Int] : Upto(h, n)
    OBVIOUS
  <2> DEFINE k == [S \in SUBSET Places |-> Body(g, h, S)]
  <2>2. ASSUME NEW S \in SUBSET Places PROVE Body(g, h, S) \in Int
    <3>1. CASE S = {}
      BY <3>1 DEF Body
    <3>2. CASE S # {}
      <4>1. g[Some(S)] \in Int /\ h[S \ {Some(S)}] \in Int
        BY <3>2, Smaller
      <4> QED BY <3>2, <4>1 DEF Body
    <3> QED BY <3>1, <3>2
  <2>3. k \in [SUBSET Places -> Int]
    BY <2>2
  <2>4. ASSUME NEW S \in SUBSET Places, Cardinality(S) <= n + 1 PROVE k[S] = Body(g, k, S)
    <3>1. CASE S = {}
      BY <3>1 DEF Body
    <3>2. CASE S # {}
      <4> DEFINE R == S \ {Some(S)}
      <4>1. R \in SUBSET Places /\ Cardinality(R) <= n
        BY <2>4, <3>2, Smaller
      <4> HIDE DEF R
      <4>2. k[R] = h[R]
        BY <2>1, <4>1
      <4>3. k[S] = g[Some(S)] + h[R]
        BY <3>2 DEF Body, R
      <4> HIDE DEF k
      <4> QED BY <3>2, <4>2, <4>3 DEF Body, R
    <3> QED BY <3>1, <3>2
  <2> HIDE DEF k
  <2>5. Upto(k, n + 1) /\ n + 1 \in Nat
    BY <2>4
  <2> HIDE DEF Upto
  <2> QED BY <2>3, <2>5
<1>3. Cardinality(Places) \in F
  <2>1. F = Nat
    <3> HIDE DEF F
    <3>1. F \subseteq Nat
      BY DEF F
    <3> QED BY <1>1, <1>2, <3>1, EveryNumber
  <2> HIDE DEF F
  <2> QED BY <2>1, SizeOf
<1>4. PICK h \in [SUBSET Places -> Int] : Upto(h, Cardinality(Places))
  BY <1>3
<1>5. \A S \in SUBSET Places : h[S] = Body(g, h, S)
  BY <1>4, SizeOf
<1> QED BY <1>5 DEF Sums

\* Sums add up.
LEMMA SumsAdd ==
    ASSUME NEW f \in [Places -> Int], NEW g \in [Places -> Int], NEW s \in [Places -> Int],
           \A p \in Places : s[p] = f[p] + g[p],
           NEW hf \in Sums(f), NEW hg \in Sums(g), NEW hs \in Sums(s)
    PROVE  hs[Places] = hf[Places] + hg[Places]
<1> DEFINE G == {S \in SUBSET Places : hs[S] = hf[S] + hg[S]}
<1>0. /\ hf \in [SUBSET Places -> Int] /\ hg \in [SUBSET Places -> Int]
      /\ hs \in [SUBSET Places -> Int]
      /\ \A S \in SUBSET Places : /\ hf[S] = Body(f, hf, S) /\ hg[S] = Body(g, hg, S)
                                   /\ hs[S] = Body(s, hs, S)
  BY DEF Sums
<1>1. {} \in G
  <2>1. hf[{}] = 0 /\ hg[{}] = 0 /\ hs[{}] = 0
    BY <1>0 DEF Body
  <2> QED BY <2>1
<1>2. ASSUME NEW S \in SUBSET Places, S # {}, S \ {Some(S)} \in G PROVE S \in G
  <2> DEFINE x == Some(S)
             R == S \ {x}
  <2>1. x \in Places /\ R \in SUBSET Places /\ hs[R] = hf[R] + hg[R]
    BY <1>2, Smaller
  <2>2. hs[S] = s[x] + hs[R] /\ hf[S] = f[x] + hf[R] /\ hg[S] = g[x] + hg[R]
    BY <1>0, <1>2 DEF Body
  <2> HIDE DEF x, R
  <2>3. /\ s[x] = f[x] + g[x] /\ f[x] \in Int /\ g[x] \in Int
        /\ hf[R] \in Int /\ hg[R] \in Int
    BY <1>0, <2>1
  <2>4. hs[S] = hf[S] + hg[S]
    BY <2>1, <2>2, <2>3
  <2> QED BY <2>4
<1>3. Places \in G
  <2> HIDE DEF G
  <2>1. G \in SUBSET (SUBSET Places)
    BY DEF G
  <2> QED BY <1>1, <1>2, <2>1, EverySet
<1> QED BY <1>3

\* There is one sum: what satisfies the equation agrees with it.
LEMMA SumsSame ==
    ASSUME NEW g, NEW h, NEW k, \A S \in SUBSET Places : h[S] = Body(g, h, S),
           \A S \in SUBSET Places : k[S] = Body(g, k, S)
    PROVE  h[Places] = k[Places]
<1> DEFINE G == {S \in SUBSET Places : h[S] = k[S]}
<1>1. {} \in G
  BY DEF Body
<1>2. ASSUME NEW S \in SUBSET Places, S # {}, S \ {Some(S)} \in G PROVE S \in G
  BY <1>2 DEF Body
<1>3. Places \in G
  <2> HIDE DEF G
  <2>1. G \in SUBSET (SUBSET Places)
    BY DEF G
  <2> QED BY <1>1, <1>2, <2>1, EverySet
<1> QED BY <1>3

\* Balances, or legs, of a lot, and their sum over the places.
Row(g, l) == [p \in Places |-> g[<<l, p>>]]
LotSum(g, l) == MapThenSumSet(LAMBDA p : g[<<l, p>>], Places)

\* The fold over the places is one of these sums.
LEMMA LotSumIs ==
    ASSUME NEW g \in [Slots -> Int], NEW l \in Lots
    PROVE  Row(g, l) \in [Places -> Int] /\ \E h \in Sums(Row(g, l)) : LotSum(g, l) = h[Places]
<1> DEFINE IsIter(h) == h = [S \in SUBSET Places |->
                               IF S = {} THEN 0 ELSE g[<<l, Some(S)>>] + h[S \ {Some(S)}]]
           iter == CHOOSE h : IsIter(h)
<1>0. Row(g, l) \in [Places -> Int] /\ \A p \in Places : Row(g, l)[p] = g[<<l, p>>]
  BY DEF Row, Slots
<1>1. LotSum(g, l) = iter[Places]
  BY DEF LotSum, MapThenSumSet, MapThenFoldSet, Some
<1>2. PICK h : h \in Sums(Row(g, l))
  BY <1>0, SumsExist
<1>3. ASSUME NEW S \in SUBSET Places, NEW k
      PROVE  Body(Row(g, l), k, S) =
               IF S = {} THEN 0 ELSE g[<<l, Some(S)>>] + k[S \ {Some(S)}]
  BY <1>0, Smaller DEF Body
<1>4. IsIter(h)
  BY <1>2, <1>3 DEF Sums
<1>5. IsIter(iter)
  <2> HIDE DEF IsIter
  <2> QED BY <1>4
<1>6. h[Places] = iter[Places]
  <2> DEFINE r == Row(g, l)
  <2> HIDE DEF iter
  <2>1. \A S \in SUBSET Places : h[S] = Body(r, h, S)
    BY <1>2 DEF Sums
  <2>2. \A S \in SUBSET Places : iter[S] = Body(r, iter, S)
    BY <1>3, <1>5
  <2> HIDE DEF r
  <2> QED BY <2>1, <2>2, SumsSame
<1> QED BY <1>0, <1>1, <1>2, <1>6

\* A sum over the places is a number; one of zeroes is zero; it depends on the lot's
\* places alone; and it adds up.
LEMMA LotSumType == ASSUME NEW g \in [Slots -> Int], NEW l \in Lots PROVE LotSum(g, l) \in Int
<1>1. PICK h \in Sums(Row(g, l)) : LotSum(g, l) = h[Places]
  BY LotSumIs
<1>2. h \in [SUBSET Places -> Int]
  BY DEF Sums
<1> QED BY <1>1, <1>2

LEMMA LotSumSame ==
    ASSUME NEW f \in [Slots -> Int], NEW g \in [Slots -> Int], NEW l \in Lots,
           \A p \in Places : f[<<l, p>>] = g[<<l, p>>]
    PROVE  LotSum(f, l) = LotSum(g, l)
<1>1. Row(f, l) = Row(g, l)
  BY DEF Row
<1>2. PICK h \in Sums(Row(f, l)) : LotSum(f, l) = h[Places]
  BY LotSumIs
<1>3. PICK k \in Sums(Row(g, l)) : LotSum(g, l) = k[Places]
  BY LotSumIs
<1> DEFINE r == Row(f, l)
<1>4. \A S \in SUBSET Places : h[S] = Body(r, h, S)
  BY DEF Sums
<1>5. \A S \in SUBSET Places : k[S] = Body(r, k, S)
  BY <1>1 DEF Sums
<1>6. h[Places] = k[Places]
  <2> HIDE DEF r
  <2> QED BY <1>4, <1>5, SumsSame
<1> QED BY <1>2, <1>3, <1>6

LEMMA LotSumAdds ==
    ASSUME NEW f \in [Slots -> Int], NEW g \in [Slots -> Int], NEW s \in [Slots -> Int],
           \A r \in Slots : s[r] = f[r] + g[r], NEW l \in Lots
    PROVE  LotSum(s, l) = LotSum(f, l) + LotSum(g, l)
<1>1. \A p \in Places : Row(s, l)[p] = Row(f, l)[p] + Row(g, l)[p]
  BY DEF Row, Slots
<1> QED BY <1>1, LotSumIs, SumsAdd

LEMMA LotSumZero == ASSUME NEW l \in Lots PROVE LotSum(Untouched, l) = 0
<1>1. Untouched \in [Slots -> Int] /\ \A s \in Slots : Untouched[s] = Untouched[s] + Untouched[s]
  BY DEF Untouched
<1>2. LotSum(Untouched, l) = LotSum(Untouched, l) + LotSum(Untouched, l)
  BY <1>1, LotSumAdds
<1> QED BY <1>1, <1>2, LotSumType

-----------------------------------------------------------------------------
(* A serial is one unit *)

\* A session that has written keeps the serials it touched within one unit, and
\* shares none with another that has.
Weighed ==
    /\ \A c \in Txns : Written(c) =>
          \A l \in LotsOf(tx[c]) \cap Serials : Total(l) + Change(tx[c], l) <= 1
    /\ \A c, d \in Txns : c # d /\ Written(c) /\ Written(d) =>
          LotsOf(tx[c]) \cap LotsOf(tx[d]) \cap Serials = {}

LEMMA TotalIs == \A l \in Lots : Total(l) = LotSum(stock, l)
  BY DEF Total, LotSum

LEMMA ChangeIs == \A l \in Lots : \A w \in Txn : Change(w, l) = LotSum(w.legs, l)
  BY DEF Change, LotSum

\* A step commits a session, or it leaves the balances alone; and only Write adds
\* to the sessions that have written.
LEMMA WrittenMoves ==
    ASSUME Inv, [StockNext]_stockVars
    PROVE  \/ \E c \in Txns : Commit(c) \/ Write(c, Shared)
           \/ /\ stock' = stock
              /\ \A d \in Txns : tx'[d].pc = "written" => tx'[d] = tx[d]
<1> USE DEF stockVars, materialVars, qualityVars
<1>0. tx \in [Txns -> Txn]
  BY DEF Inv, TypeInv, MaterialType
<1>1. CASE UNCHANGED stockVars
  BY <1>1
<1>2. CASE MasterStep
  BY <1>2 DEF MasterStep, CreatePlace, CreateLot, CreateGauge, CreatePlan, TransitionPlan
<1>3. CASE MaterialStep(Ids)
  <2>1. ASSUME NEW c \in Txns, Rollback(c)
        PROVE  \A d \in Txns : tx'[d].pc = "written" => tx'[d] = tx[d]
    BY <1>0, <2>1, ClosedType DEF Rollback
  <2>2. ASSUME NEW c \in Txns, NEW w, w.pc = "checked", NEW o, Begin(c, w, o)
        PROVE  stock' = stock /\ \A d \in Txns : tx'[d].pc = "written" => tx'[d] = tx[d]
    BY <1>0, <2>2 DEF Begin
  <2>3. ASSUME NEW c \in Txns, NEW id \in Ids, RecordMovement(c, id, Opening)
               \/ RecordTransformation(c, id, Opening) \/ Adjust(c, id, Opening)
        PROVE  stock' = stock /\ \A d \in Txns : tx'[d].pc = "written" => tx'[d] = tx[d]
    BY <2>2, <2>3 DEF RecordMovement, RecordTransformation, Adjust
  <2> QED BY <1>3, <2>1, <2>3 DEF MaterialStep, Rollback, Import
<1>4. ASSUME NEW i \in Insps, InspectStep(i) PROVE stock' = stock /\ tx' = tx
  BY <1>4 DEF InspectStep, OpenRead, OpenInsert, OpenCommit, OpenRollback, RecordMeasurement,
              ReleaseInspection
<1>5. ASSUME NEW i \in Insps, DispositionStep(i) PROVE stock' = stock /\ tx' = tx
  BY <1>5 DEF DispositionStep, CreateDisposition, ApproveDisposition, CreateCapa, CompleteCapa
<1> QED BY <1>1, <1>2, <1>3, <1>4, <1>5 DEF StockNext

\* A session commits: its own serials come to what was weighed, the balances of the
\* others stay.
LEMMA WeighedCommit ==
    ASSUME Inv, SerialOnce, Weighed, NEW c \in Txns, Commit(c)
    PROVE  SerialOnce' /\ Weighed'
<1>0. /\ tx \in [Txns -> Txn] /\ stock \in [Slots -> Int] /\ Written(c)
      /\ stock' = [s \in Slots |-> stock[s] + tx[c].legs[s]]
      /\ tx' = [tx EXCEPT ![c] = Closed]
      /\ tx[c] \in Txn /\ tx[c].legs \in [Slots -> Int]
  BY DEF Inv, TypeInv, MaterialType, Commit, Written, Txn
<1>1. stock' \in [Slots -> Int]
  BY <1>0
<1>2. ASSUME NEW l \in Lots
      PROVE  Total(l)' = LotSum(stock', l)
  BY DEF Total, LotSum, MapThenSumSet, MapThenFoldSet
<1>3. ASSUME NEW l \in Lots
      PROVE  Total(l)' = Total(l) + Change(tx[c], l)
  <2>1. LotSum(stock', l) = LotSum(stock, l) + LotSum(tx[c].legs, l)
    BY <1>0, <1>1, LotSumAdds
  <2> QED BY <1>0, <1>2, <2>1, TotalIs, ChangeIs
<1>4. ASSUME NEW l \in Lots, l \notin LotsOf(tx[c]) PROVE Total(l)' = Total(l)
  <2>1. \A p \in Places : <<l, p>> \in Slots /\ tx[c].legs[<<l, p>>] = 0
    BY <1>4 DEF LotsOf, Rows, Slots
  <2>2. \A p \in Places : stock'[<<l, p>>] = stock[<<l, p>>]
    BY <1>0, <2>1
  <2>3. LotSum(stock', l) = LotSum(stock, l)
    BY <1>0, <1>1, <2>2, LotSumSame
  <2> QED BY <1>2, <2>3, TotalIs
<1>5. \A l \in Serials : l \in Lots
  BY MaterialAssumption
<1>6. SerialOnce'
  <2> SUFFICES ASSUME NEW l \in Serials PROVE Total(l)' <= 1
    BY DEF SerialOnce
  <2>1. CASE l \in LotsOf(tx[c])
    BY <1>0, <1>3, <1>5, <2>1 DEF Weighed
  <2>2. CASE l \notin LotsOf(tx[c])
    BY <1>4, <1>5, <2>2 DEF SerialOnce
  <2> QED BY <2>1, <2>2
<1>7. \A d \in Txns : Written(d)' => d # c /\ Written(d) /\ tx'[d] = tx[d]
  BY <1>0, ClosedType DEF Written
<1>8. \A d \in Txns : Written(d)' => LotsOf(tx[d])' = LotsOf(tx[d])
  BY <1>7 DEF LotsOf, Rows
<1>9. ASSUME NEW d \in Txns, Written(d)', NEW l \in LotsOf(tx[d])' \cap Serials
      PROVE  Total(l)' + Change(tx[d], l)' <= 1
  <2>1. Written(d) /\ d # c /\ l \in LotsOf(tx[d]) \cap Serials
    BY <1>7, <1>8, <1>9
  <2>2. l \notin LotsOf(tx[c])
    BY <1>0, <2>1 DEF Weighed
  <2>3. Total(l)' = Total(l)
    BY <1>4, <1>5, <2>2
  <2>4. Change(tx[d], l)' = Change(tx[d], l)
    <3>1. tx'[d] = tx[d]
      BY <1>7, <1>9
    <3> QED BY <3>1 DEF Change, MapThenSumSet, MapThenFoldSet
  <2> QED BY <2>1, <2>3, <2>4 DEF Weighed
<1>10. \A d, e \in Txns : d # e /\ Written(d)' /\ Written(e)' =>
          LotsOf(tx[d])' \cap LotsOf(tx[e])' \cap Serials = {}
  BY <1>7, <1>8 DEF Weighed
<1> QED BY <1>6, <1>9, <1>10 DEF Weighed

\* A session writes: the trigger weighs its serials and has their rows locked.
LEMMA WeighedWrite ==
    ASSUME Inv, SerialOnce, Weighed, NEW c \in Txns, Write(c, Shared)
    PROVE  SerialOnce' /\ Weighed'
<1>0. /\ tx \in [Txns -> Txn] /\ tx[c] \in Txn /\ stock' = stock
      /\ tx' = [tx EXCEPT ![c] = [tx[c] EXCEPT !.pc = "written"]]
      /\ SerialFits(tx[c])
  BY DEF Inv, TypeInv, MaterialType, Write
<1>1. \A d \in Txns : tx'[d].legs = tx[d].legs
  BY <1>0 DEF Txn
<1>2. \A d \in Txns : LotsOf(tx[d])' = LotsOf(tx[d])
  BY <1>1 DEF LotsOf, Rows
<1>3. \A l \in Lots : Total(l)' = Total(l)
  BY <1>0 DEF Total, MapThenSumSet, MapThenFoldSet
<1>4. ASSUME NEW d \in Txns, NEW l \in Lots PROVE Change(tx[d], l)' = Change(tx[d], l)
  <2>1. tx'[d].legs = tx[d].legs
    BY <1>1
  <2> QED BY <2>1 DEF Change, MapThenSumSet, MapThenFoldSet
<1>5. \A d \in Txns \ {c} : Written(d)' => Written(d)
  BY <1>0 DEF Written
<1>6. SerialOnce'
  BY <1>3, MaterialAssumption DEF SerialOnce
<1>7. ASSUME NEW d \in Txns, Written(d)', NEW l \in LotsOf(tx[d])' \cap Serials
      PROVE  Total(l)' + Change(tx[d], l)' <= 1
  <2>1. l \in Lots /\ l \in LotsOf(tx[d]) \cap Serials
    BY <1>2, MaterialAssumption
  <2>2. Total(l) + Change(tx[d], l) <= 1
    <3>1. CASE d = c
      BY <1>0, <2>1, <3>1 DEF SerialFits, SerialFitsUnlocked
    <3>2. CASE d # c
      BY <1>5, <1>7, <2>1, <3>2 DEF Weighed
    <3> QED BY <3>1, <3>2
  <2> QED BY <1>3, <1>4, <2>1, <2>2
<1>8. \A d \in Txns : Written(d) => LotsOf(tx[c]) \cap LotsOf(tx[d]) \cap Serials = {}
  BY <1>0 DEF SerialFits, LockedLots
<1>9. \A d, e \in Txns : d # e /\ Written(d)' /\ Written(e)' =>
         LotsOf(tx[d])' \cap LotsOf(tx[e])' \cap Serials = {}
  BY <1>2, <1>5, <1>8 DEF Weighed
<1> QED BY <1>6, <1>7, <1>9 DEF Weighed

\* No step breaks it.
LEMMA WeighedStep ==
    ASSUME Inv, SerialOnce, Weighed, [StockNext]_stockVars
    PROVE  SerialOnce' /\ Weighed'
<1>1. ASSUME stock' = stock, \A d \in Txns : tx'[d].pc = "written" => tx'[d] = tx[d]
      PROVE  SerialOnce' /\ Weighed'
  <2>1. \A l \in Lots : Total(l)' = Total(l)
    BY <1>1 DEF Total, MapThenSumSet, MapThenFoldSet
  <2>2. \A d \in Txns : Written(d)' => Written(d) /\ tx'[d] = tx[d]
    BY <1>1 DEF Written
  <2>3. \A d \in Txns : Written(d)' => LotsOf(tx[d])' = LotsOf(tx[d])
    BY <2>2 DEF LotsOf, Rows
  <2>4. ASSUME NEW d \in Txns, Written(d)', NEW l \in LotsOf(tx[d])' \cap Serials
        PROVE  Total(l)' + Change(tx[d], l)' <= 1
    <3>1. tx'[d] = tx[d] /\ Written(d) /\ l \in LotsOf(tx[d]) \cap Serials /\ l \in Lots
      BY <2>2, <2>3, <2>4, MaterialAssumption
    <3>2. Change(tx[d], l)' = Change(tx[d], l)
      BY <3>1 DEF Change, MapThenSumSet, MapThenFoldSet
    <3> QED BY <2>1, <3>1, <3>2 DEF Weighed
  <2>5. \A d, e \in Txns : d # e /\ Written(d)' /\ Written(e)' =>
           LotsOf(tx[d])' \cap LotsOf(tx[e])' \cap Serials = {}
    BY <2>2, <2>3 DEF Weighed
  <2>6. SerialOnce'
    BY <2>1, MaterialAssumption DEF SerialOnce
  <2> QED BY <2>4, <2>5, <2>6 DEF Weighed
<1> QED BY <1>1, WrittenMoves, WeighedCommit, WeighedWrite

\* Nothing is in stock at first.
LEMMA WeighedInit == StockInit => SerialOnce /\ Weighed
<1> SUFFICES ASSUME StockInit PROVE SerialOnce /\ Weighed
  OBVIOUS
<1>1. stock = Untouched /\ \A c \in Txns : ~Written(c)
  BY ClosedType DEF StockInit, NothingRecorded, Untouched, Written
<1>2. \A l \in Lots : Total(l) = 0
  BY <1>1, TotalIs, LotSumZero
<1> QED BY <1>1, <1>2, MaterialAssumption DEF SerialOnce, Weighed

-----------------------------------------------------------------------------
(* No balance is negative *)

\* A balance that a session has written stays above zero with what it adds, and no
\* other session writes that balance meanwhile.
Covered ==
    /\ \A s \in Slots : stock[s] >= 0
    /\ \A c \in Txns : Written(c) => \A s \in Slots : stock[s] + tx[c].legs[s] >= 0
    /\ \A c, d \in Txns : c # d /\ Written(c) /\ Written(d) => Rows(tx[c]) \cap Rows(tx[d]) = {}

\* Nothing is in stock at first.
LEMMA CoveredInit == StockInit => Covered
  BY ClosedType DEF StockInit, NothingRecorded, Covered, Written

\* No step breaks it: a session is weighed against the balance when it locks it, and the
\* balance is the same when it commits.
LEMMA CoveredStep == ASSUME Inv, Covered, [StockNext]_stockVars PROVE Covered'
<1>0. /\ tx \in [Txns -> Txn] /\ stock \in [Slots -> Int]
      /\ \A c \in Txns : tx[c].legs \in [Slots -> Int]
  BY DEF Inv, TypeInv, MaterialType, Txn
<1>1. ASSUME NEW c \in Txns, Commit(c) PROVE Covered'
  <2>1. /\ Written(c) /\ stock' = [s \in Slots |-> stock[s] + tx[c].legs[s]]
        /\ \A d \in Txns : Written(d)' => d # c /\ Written(d) /\ tx'[d] = tx[d]
    BY <1>0, <1>1, ClosedType DEF Commit, Written
  <2>2. \A s \in Slots : stock'[s] >= 0
    BY <2>1 DEF Covered
  <2>3. ASSUME NEW d \in Txns, Written(d)', NEW s \in Slots
        PROVE  stock'[s] + tx'[d].legs[s] >= 0
    <3>1. d # c /\ Written(d) /\ tx'[d] = tx[d] /\ Rows(tx[c]) \cap Rows(tx[d]) = {}
      BY <2>1, <2>3 DEF Covered
    <3>2. CASE s \in Rows(tx[d])
      <4>1. tx[c].legs[s] = 0
        BY <3>1, <3>2 DEF Rows
      <4>2. stock'[s] = stock[s]
        BY <1>0, <2>1, <4>1
      <4> QED BY <3>1, <4>2 DEF Covered
    <3>3. CASE s \notin Rows(tx[d])
      <4>1. tx'[d].legs[s] = 0
        BY <3>1, <3>3 DEF Rows
      <4>2. stock'[s] \in Int /\ stock'[s] >= 0
        BY <1>0, <2>1, <2>2
      <4> QED BY <4>1, <4>2
    <3> QED BY <3>2, <3>3
  <2>4. \A d \in Txns : Written(d)' => Rows(tx[d])' = Rows(tx[d])
    BY <2>1 DEF Rows
  <2>5. \A d, e \in Txns : d # e /\ Written(d)' /\ Written(e)' =>
           Rows(tx[d])' \cap Rows(tx[e])' = {}
    BY <2>1, <2>4 DEF Covered
  <2> QED BY <2>2, <2>3, <2>5 DEF Covered
<1>2. ASSUME NEW c \in Txns, Write(c, Shared) PROVE Covered'
  <2>1. /\ stock' = stock /\ tx' = [tx EXCEPT ![c] = [tx[c] EXCEPT !.pc = "written"]]
        /\ tx[c] \in Txn /\ Rows(tx[c]) \cap LockedRows = {} /\ Enough(tx[c])
    BY <1>0, <1>2 DEF Write
  <2>2. \A d \in Txns : tx'[d].legs = tx[d].legs
    BY <1>0, <2>1 DEF Txn
  <2>3. \A d \in Txns : Rows(tx[d])' = Rows(tx[d])
    BY <2>2 DEF Rows
  <2>4. \A d \in Txns \ {c} : Written(d)' => Written(d)
    BY <1>0, <2>1 DEF Written
  <2>5. \A d \in Txns : Written(d) => Rows(tx[c]) \cap Rows(tx[d]) = {}
    BY <2>1 DEF LockedRows
  <2>6. \A s \in Slots : stock[s] + tx[c].legs[s] >= 0
    BY <1>0, <2>1, MaterialAssumption DEF Enough
  <2>7. \A d \in Txns : Written(d)' => \A s \in Slots : stock'[s] + tx'[d].legs[s] >= 0
    BY <2>1, <2>2, <2>4, <2>6 DEF Covered
  <2>8. \A d, e \in Txns : d # e /\ Written(d)' /\ Written(e)' =>
           Rows(tx[d])' \cap Rows(tx[e])' = {}
    BY <2>3, <2>4, <2>5 DEF Covered
  <2> QED BY <2>1, <2>7, <2>8 DEF Covered
<1>3. ASSUME stock' = stock, \A d \in Txns : tx'[d].pc = "written" => tx'[d] = tx[d]
      PROVE  Covered'
  <2>1. \A d \in Txns : Written(d)' => Written(d) /\ tx'[d] = tx[d]
    BY <1>3 DEF Written
  <2>2. \A d \in Txns : Written(d)' => Rows(tx[d])' = Rows(tx[d])
    BY <2>1 DEF Rows
  <2> QED BY <1>3, <2>1, <2>2 DEF Covered
<1> QED BY <1>1, <1>2, <1>3, WrittenMoves

-----------------------------------------------------------------------------
(* Lineage *)

\* What Below finds, for any set of edges: the least set that is closed.
ClosesIn(E, l, S) == \A e \in E : e[1] \in S \cup {l} => e[2] \in S
BelowIn(E, l) == {k \in Lots : \A S \in SUBSET Lots : ClosesIn(E, l, S) => k \in S}

LEMMA BelowIs == \A l : Below(l) = BelowIn(edges, l)
  BY DEF Below, Closes, BelowIn, ClosesIn

LEMMA BelowCloses ==
    ASSUME NEW E \in SUBSET (Lots \X Lots), NEW l
    PROVE  BelowIn(E, l) \in SUBSET Lots /\ ClosesIn(E, l, BelowIn(E, l))
<1>1. ASSUME NEW e \in E, e[1] \in BelowIn(E, l) \cup {l}, NEW S \in SUBSET Lots,
             ClosesIn(E, l, S)
      PROVE  e[2] \in S
  BY <1>1 DEF BelowIn, ClosesIn
<1>2. \A e \in E : e[2] \in Lots
  OBVIOUS
<1>3. ASSUME NEW e \in E, e[1] \in BelowIn(E, l) \cup {l} PROVE e[2] \in BelowIn(E, l)
  BY <1>1, <1>2, <1>3 DEF BelowIn
<1>4. BelowIn(E, l) \in SUBSET Lots
  BY DEF BelowIn
<1> QED BY <1>3, <1>4 DEF ClosesIn

LEMMA BelowLeast ==
    ASSUME NEW E, NEW l, NEW S \in SUBSET Lots, ClosesIn(E, l, S)
    PROVE  BelowIn(E, l) \subseteq S
  BY DEF BelowIn

\* Edges from parents to children, none of them both and no parent below a child,
\* close no cycle: beneath them all, D, there is no parent.
LEMMA StaysAcyclic ==
    ASSUME NEW E \in SUBSET (Lots \X Lots), NEW P \in SUBSET Lots, NEW K \in SUBSET Lots,
           P \cap K = {}, \A p \in P, k \in K : p \notin BelowIn(E, k),
           \A l \in Lots : l \notin BelowIn(E, l)
    PROVE  \A l \in Lots : l \notin BelowIn(E \cup (P \X K), l)
<1> DEFINE D == K \cup UNION {BelowIn(E, k) : k \in K}
           F == E \cup (P \X K)
<1>1. D \in SUBSET Lots /\ P \cap D = {}
  <2>1. \A k \in K : BelowIn(E, k) \subseteq Lots
    BY BelowCloses
  <2> QED BY <2>1
<1>2. \A e \in E : e[1] \in D => e[2] \in D
  <2> SUFFICES ASSUME NEW e \in E, e[1] \in D PROVE e[2] \in D
    OBVIOUS
  <2>1. PICK k \in K : e[1] \in BelowIn(E, k) \cup {k}
    OBVIOUS
  <2>2. e[2] \in BelowIn(E, k)
    BY <2>1, BelowCloses DEF ClosesIn
  <2> QED BY <2>2
<1>3. K \subseteq D
  OBVIOUS
<1> HIDE DEF D
<1> SUFFICES ASSUME NEW l \in Lots PROVE l \notin BelowIn(F, l)
  OBVIOUS
<1>4. /\ BelowIn(E, l) \in SUBSET Lots
      /\ \A e \in E : e[1] \in BelowIn(E, l) \cup {l} => e[2] \in BelowIn(E, l)
  BY BelowCloses DEF ClosesIn
<1>5. \A e \in F : e \in E \/ (e[1] \in P /\ e[2] \in K)
  OBVIOUS
<1> HIDE DEF F
<1>6. CASE (BelowIn(E, l) \cup {l}) \cap P = {}
  <2>1. ClosesIn(F, l, BelowIn(E, l))
    BY <1>4, <1>5, <1>6 DEF ClosesIn
  <2>2. BelowIn(F, l) \subseteq BelowIn(E, l)
    BY <1>4, <2>1, BelowLeast
  <2> QED BY <2>2
<1>7. CASE (BelowIn(E, l) \cup {l}) \cap P # {}
  <2> DEFINE S == BelowIn(E, l) \cup D
  <2>1. ClosesIn(F, l, S)
    BY <1>1, <1>2, <1>3, <1>4, <1>5 DEF ClosesIn
  <2>2. S \in SUBSET Lots
    BY <1>1, <1>4
  <2>3. BelowIn(F, l) \subseteq S
    <3> HIDE DEF S
    <3> QED BY <2>1, <2>2, BelowLeast
  <2>4. l \notin D
    <3> SUFFICES ASSUME l \in D PROVE FALSE
      OBVIOUS
    <3>1. ClosesIn(E, l, D)
      BY <1>2 DEF ClosesIn
    <3>2. BelowIn(E, l) \subseteq D
      BY <1>1, <3>1, BelowLeast
    <3> QED BY <1>1, <1>7, <3>2
  <2> QED BY <2>3, <2>4
<1> QED BY <1>6, <1>7

-----------------------------------------------------------------------------
(* Sessions that do not overlap *)

\* At most one session is open.
OneSession ==
    /\ \A c, d \in Txns : Open(c) /\ Open(d) => c = d
    /\ Busy => ~Opening

\* What a request read is still so.
StillTrue(w) ==
    /\ w.kind # "adjust" => Unblocked(w) /\ \A l \in LotsOf(w) : lot[l] = "active"
    /\ w.kind = "transform" => NoCycle(w) /\ NoSelfReference(w)
    /\ w.kind = "adjust" => /\ case.status = "open" /\ AsExpected(case)
                            /\ w.legs = [Untouched EXCEPT ![case.slot] =
                                            case.observed - case.expected]

Quiet == ~overlapped => OneSession /\ \A c \in Txns : Open(c) => StillTrue(tx[c])

\* No session is open at first.
LEMMA QuietInit == StockInit => Quiet /\ SerialSound
<1> SUFFICES ASSUME StockInit PROVE Quiet /\ SerialSound
  OBVIOUS
<1> USE DEF StockInit, NothingRecorded
<1>1. \A c \in Txns : ~Open(c)
  BY ClosedType DEF Open
<1>2. Quiet
  BY <1>1 DEF Quiet, OneSession, Busy
<1>3. \A l \in Lots : l \notin Below(l)
  <2>1. \A l \in Lots : ClosesIn(edges, l, {})
    BY DEF ClosesIn
  <2> QED BY <2>1, BelowIs, BelowLeast
<1> QED BY <1>2, <1>3 DEF SerialSound

\* A step that, if a session is open after it, was not the one to open it and leaves
\* alone what it read.
LEMMA QuietKeeps ==
    ASSUME Inv, Quiet, SerialSound, ~overlapped, UNCHANGED <<edges, breach>>,
           \A c \in Txns : tx'[c].pc # "idle" =>
              /\ tx[c].pc # "idle" /\ tx'[c].kind = tx[c].kind /\ tx'[c].legs = tx[c].legs
              /\ stock' = stock /\ held' \subseteq held /\ (Opening' => Opening)
              /\ case' = case \/ \A d \in Txns : tx[d].kind # "adjust"
              /\ \A l \in Lots : lot[l] = "active" => lot'[l] = "active"
    PROVE  Quiet' /\ SerialSound'
<1>1. OneSession'
  BY DEF Quiet, OneSession, Busy, Open
<1>2. ASSUME NEW c \in Txns, Open(c)' PROVE StillTrue(tx[c])'
  <2>1. /\ Open(c) /\ tx'[c].kind = tx[c].kind /\ tx'[c].legs = tx[c].legs
        /\ stock' = stock /\ held' \subseteq held
        /\ case' = case \/ tx[c].kind # "adjust"
        /\ \A l \in Lots : lot[l] = "active" => lot'[l] = "active"
    BY <1>2 DEF Open
  <2>2. StillTrue(tx[c])
    BY <2>1 DEF Quiet
  <2>3. LotsOf(tx[c])' = LotsOf(tx[c]) /\ Parents(tx[c])' = Parents(tx[c])
        /\ Children(tx[c])' = Children(tx[c])
    BY <2>1 DEF LotsOf, Rows, Parents, Children
  <2>4. \A l : Below(l)' = Below(l)
    BY DEF Below, Closes
  <2>5. tx[c].kind # "adjust" =>
          Unblocked(tx[c])' /\ \A l \in LotsOf(tx[c])' : lot'[l] = "active"
    BY <2>1, <2>2, <2>3, LotsOfType DEF StillTrue, Unblocked
  <2>6. tx[c].kind = "transform" => NoCycle(tx[c])' /\ NoSelfReference(tx[c])'
    BY <2>1, <2>2, <2>3, <2>4 DEF StillTrue, NoCycle, NoSelfReference
  <2>7. tx[c].kind = "adjust" => /\ case' = case /\ AsExpected(case)'
                                 /\ case.status = "open"
                                 /\ tx[c].legs = [Untouched EXCEPT ![case.slot] =
                                                     case.observed - case.expected]
    BY <2>1, <2>2 DEF StillTrue, AsExpected
  <2> QED BY <2>1, <2>5, <2>6, <2>7 DEF StillTrue
<1>3. SerialSound'
  <2>1. \A l : Below(l)' = Below(l)
    BY DEF Below, Closes
  <2> QED BY <2>1 DEF SerialSound
<1> QED BY <1>1, <1>2, <1>3 DEF Quiet

\* A session begins, alone, with what it read.
LEMMA QuietBegin ==
    ASSUME Inv, Quiet, SerialSound, ~overlapped', UNCHANGED qualityVars,
           NEW c \in Txns, NEW w \in Txn, StillTrue(w), Begin(c, w, Opening)
    PROVE  Quiet' /\ SerialSound'
<1>0. /\ ~overlapped /\ ~Busy /\ ~Opening /\ tx' = [tx EXCEPT ![c] = w] /\ tx'[c] = w
      /\ UNCHANGED <<place, lot, stock, edges, recorded, case, held, breach, opening>>
      /\ \A d \in Txns \ {c} : tx'[d].pc = "idle"
  BY DEF Begin, Inv, TypeInv, MaterialType, qualityVars, Busy, Open
<1>1. OneSession'
  BY <1>0 DEF OneSession, Open, Opening
<1>2. \A l : Below(l)' = Below(l)
  BY <1>0 DEF Below, Closes
<1>3. StillTrue(w)'
  BY <1>0, <1>2 DEF StillTrue, Unblocked, NoCycle, AsExpected
<1>4. \A d \in Txns : Open(d)' => d = c
  BY <1>0 DEF Open
<1>5. StillTrue(tx[c])'
  BY <1>0, <1>3 DEF StillTrue, Unblocked, NoCycle, NoSelfReference, AsExpected, LotsOf, Rows,
                    Parents, Children
<1>6. SerialSound'
  BY <1>0, <1>2 DEF SerialSound
<1> QED BY <1>1, <1>4, <1>5, <1>6 DEF Quiet

\* The session commits what it read; no other is open.
LEMMA QuietCommit ==
    ASSUME Inv, Quiet, SerialSound, ~overlapped, NEW c \in Txns, Commit(c)
    PROVE  Quiet' /\ SerialSound'
<1> DEFINE w == tx[c]
<1>0. /\ MaterialType /\ w \in Txn /\ Open(c) /\ StillTrue(w) /\ OneSession
      /\ tx' = [tx EXCEPT ![c] = Closed]
      /\ edges' = IF w.kind = "transform" THEN edges \cup (Parents(w) \X Children(w)) ELSE edges
  BY DEF Commit, Inv, TypeInv, MaterialType, Quiet, Open
<1>1. \A d \in Txns : ~Open(d)'
  BY <1>0, ClosedType DEF OneSession, Open, MaterialType
<1>2. Quiet'
  BY <1>1 DEF Quiet, OneSession, Busy
<1>3. breach = {} /\ \A l \in Lots : l \notin BelowIn(edges, l)
  BY BelowIs DEF SerialSound
<1>4. w.kind # "adjust" => LotsOf(w) \cap held = {} /\ \A l \in LotsOf(w) : lot[l] = "active"
  BY <1>0 DEF StillTrue, Unblocked
<1>5. ASSUME w.kind = "adjust"
      PROVE  stock[case.slot] + w.legs[case.slot] = case.observed /\ case.slot \in Slots
  <2>1. /\ case \in Case /\ case.slot \in Slots /\ stock[case.slot] = case.expected
        /\ w.legs = [Untouched EXCEPT ![case.slot] = case.observed - case.expected]
    BY <1>0, <1>5 DEF MaterialType, StillTrue, AsExpected
  <2>2. w.legs[case.slot] = case.observed - case.expected
    BY <2>1 DEF Untouched
  <2>3. case.observed \in Int /\ case.expected \in Int
    BY <2>1 DEF Case
  <2> QED BY <2>1, <2>2, <2>3
<1>6. breach' = {}
  BY <1>3, <1>4, <1>5 DEF Commit
<1>7. \A l \in Lots : l \notin BelowIn(edges', l)
  <2>1. CASE w.kind = "transform"
    <3>1. /\ edges \in SUBSET (Lots \X Lots)
          /\ Parents(w) \in SUBSET Lots /\ Children(w) \in SUBSET Lots
      BY <1>0 DEF MaterialType, Parents, Children, Slots
    <3>2. /\ Parents(w) \cap Children(w) = {}
          /\ \A p \in Parents(w), k \in Children(w) : p \notin BelowIn(edges, k)
      BY <1>0, <2>1, BelowIs DEF StillTrue, NoCycle, NoSelfReference
    <3>3. edges' = edges \cup (Parents(w) \X Children(w))
      BY <1>0, <2>1
    <3> HIDE DEF w
    <3> QED BY <1>3, <3>1, <3>2, <3>3, StaysAcyclic
  <2>2. CASE w.kind # "transform"
    BY <1>0, <1>3, <2>2
  <2> QED BY <2>1, <2>2
<1>8. \A l : Below(l)' = BelowIn(edges', l)
  BY DEF Below, Closes, BelowIn, ClosesIn
<1> QED BY <1>2, <1>6, <1>7, <1>8 DEF SerialSound

\* Every lot that a resolved request touches is active.
LEMMA ResolvedActive ==
    ASSUME NEW g, Resolved(g), NEW w, w.legs = g
    PROVE  \A l \in LotsOf(w) : lot[l] = "active"
  BY DEF Resolved, LotsOf, Rows

\* Requests, writes, commits and imports.
LEMMA QuietMaterial ==
    ASSUME Inv, Quiet, SerialSound, ~overlapped, ~overlapped', MaterialStep(Ids)
    PROVE  Quiet' /\ SerialSound'
<1>0. MaterialType /\ UNCHANGED qualityVars
  BY DEF Inv, TypeInv, MaterialStep
<1>1. ASSUME NEW c \in Txns, NEW id \in Ids, RecordMovement(c, id, Opening)
      PROVE  Quiet' /\ SerialSound'
  <2>1. PICK g \in MovementLegs :
           LET w == [pc |-> "checked", kind |-> "move", id |-> id, legs |-> g]
           IN  Resolved(g) /\ Unblocked(w) /\ Begin(c, w, Opening)
    BY <1>1 DEF RecordMovement
  <2> DEFINE w == [pc |-> "checked", kind |-> "move", id |-> id, legs |-> g]
  <2>2. w \in Txn /\ w.kind = "move" /\ w.legs = g
    BY LegsType DEF Txn
  <2>3. Resolved(g) /\ Unblocked(w) /\ Begin(c, w, Opening)
    BY <2>1
  <2> HIDE DEF w
  <2>4. StillTrue(w)
    BY <2>2, <2>3, ResolvedActive DEF StillTrue
  <2> QED BY <1>0, <2>2, <2>3, <2>4, QuietBegin
<1>2. ASSUME NEW c \in Txns, NEW id \in Ids, RecordTransformation(c, id, Opening)
      PROVE  Quiet' /\ SerialSound'
  <2>1. PICK g \in TransformLegs :
           LET w == [pc |-> "checked", kind |-> "transform", id |-> id, legs |-> g]
           IN  Resolved(g) /\ Unblocked(w) /\ NoCycle(w) /\ Begin(c, w, Opening)
    BY <1>2 DEF RecordTransformation
  <2> DEFINE w == [pc |-> "checked", kind |-> "transform", id |-> id, legs |-> g]
  <2>2. w \in Txn /\ w.kind = "transform" /\ w.legs = g
    BY LegsType DEF Txn
  <2>3. Resolved(g) /\ Unblocked(w) /\ NoCycle(w) /\ Begin(c, w, Opening)
    BY <2>1
  <2> HIDE DEF w
  <2>4. NoSelfReference(w)
    BY <2>2 DEF TransformLegs, NoSelfReference, Parents, Children
  <2>5. StillTrue(w)
    BY <2>2, <2>3, <2>4, ResolvedActive DEF StillTrue
  <2> QED BY <1>0, <2>2, <2>3, <2>5, QuietBegin
<1>3. ASSUME NEW c \in Txns, NEW id \in Ids, Adjust(c, id, Opening)
      PROVE  Quiet' /\ SerialSound'
  <2> DEFINE g == [Untouched EXCEPT ![case.slot] = case.observed - case.expected]
             w == [pc |-> "checked", kind |-> "adjust", id |-> id, legs |-> g]
  <2>1. g \in [Slots -> Int]
    <3>1. case.observed - case.expected \in Int
      BY <1>0 DEF MaterialType, Case
    <3> QED BY <3>1, LegsType
  <2>2. Begin(c, w, Opening) /\ case.status = "open" /\ AsExpected(case)
    BY <1>3 DEF Adjust
  <2>3. /\ w.kind = "adjust"
        /\ w.legs = [Untouched EXCEPT ![case.slot] = case.observed - case.expected]
    OBVIOUS
  <2> HIDE DEF g
  <2>4. w \in Txn
    BY <2>1 DEF Txn
  <2> HIDE DEF w
  <2>5. StillTrue(w)
    BY <2>2, <2>3 DEF StillTrue
  <2> QED BY <1>0, <2>2, <2>4, <2>5, QuietBegin
<1>4. ASSUME NEW c \in Txns, Write(c, Shared) PROVE Quiet' /\ SerialSound'
  <2>1. /\ tx[c] \in Txn /\ tx[c].pc = "checked"
        /\ tx' = [tx EXCEPT ![c] = [tx[c] EXCEPT !.pc = "written"]]
    BY <1>0, <1>4 DEF MaterialType, Write
  <2>2. \A d \in Txns : tx'[d].kind = tx[d].kind /\ tx'[d].legs = tx[d].legs
                        /\ (tx'[d].pc # "idle" => tx[d].pc # "idle")
    BY <1>0, <2>1 DEF MaterialType, Txn
  <2> QED BY <1>0, <1>4, <2>2, QuietKeeps DEF Write, qualityVars, Opening
<1>5. ASSUME NEW c \in Txns, Commit(c) PROVE Quiet' /\ SerialSound'
  BY <1>5, QuietCommit
<1>6. ASSUME NEW c \in Txns, Rollback(c) PROVE Quiet' /\ SerialSound'
  <2>1. \A d \in Txns : tx'[d].pc # "idle" => tx'[d] = tx[d]
    BY <1>0, <1>6, ClosedType DEF Rollback, MaterialType
  <2> QED BY <1>0, <1>6, <2>1, QuietKeeps DEF Rollback, qualityVars, Opening
<1>7. ASSUME NEW l \in Lots, NEW p \in Places, NEW q \in 0..MaxQty, Import(l, p, q)
      PROVE  Quiet' /\ SerialSound'
  BY <1>0, <1>7, QuietKeeps DEF Import, qualityVars, Opening
<1> QED BY <1>1, <1>2, <1>3, <1>4, <1>5, <1>6, <1>7 DEF MaterialStep

\* Inspections are opened where no session is, and the decisions release holds; a lot
\* is closed only where no session is.
LEMMA QuietInspect ==
    ASSUME Inv, Quiet, SerialSound, ~overlapped, ~overlapped', NEW i \in Insps,
           InspectStep(i) \/ DispositionStep(i)
    PROVE  Quiet' /\ SerialSound'
<1>0. /\ Busy => ~Opening
      /\ \A c \in Txns : tx[c].pc # "idle" => Busy
      /\ \A j \in Insps : opening[j].pc # "idle" => Opening
  BY DEF Quiet, OneSession, Busy, Open, Opening
<1>1. ASSUME NEW l \in Lots, OpenRead(i, l) PROVE Quiet' /\ SerialSound'
  BY <1>0, <1>1, QuietKeeps DEF OpenRead
<1>2. CASE OpenInsert(i)
  BY <1>0, <1>2, QuietKeeps DEF OpenInsert, materialVars
<1>3. CASE OpenCommit(i)
  BY <1>0, <1>3, QuietKeeps DEF OpenCommit
<1>4. CASE OpenRollback(i)
  BY <1>0, <1>4, QuietKeeps DEF OpenRollback, materialVars
<1>5. ASSUME NEW s \in Samples, NEW g \in Gauges, NEW v \in Readings,
             RecordMeasurement(i, s, g, v)
      PROVE  Quiet' /\ SerialSound'
  BY <1>5, QuietKeeps DEF RecordMeasurement, materialVars, Opening
<1>6. CASE ReleaseInspection(i)
  BY <1>6, QuietKeeps DEF ReleaseInspection, Opening
<1>7. ASSUME NEW t \in DispositionTypes, ApproveDisposition(i, t) PROVE Quiet' /\ SerialSound'
  BY <1>0, <1>7, QuietKeeps DEF ApproveDisposition
<1>8. ASSUME NEW t \in DispositionTypes, CreateDisposition(i, t) PROVE Quiet' /\ SerialSound'
  BY <1>8, QuietKeeps DEF CreateDisposition, materialVars, Opening
<1>9. CASE CreateCapa(i) \/ CompleteCapa(i)
  BY <1>9, QuietKeeps DEF CreateCapa, CompleteCapa, materialVars, Opening
<1> QED BY <1>1, <1>2, <1>3, <1>4, <1>5, <1>6, <1>7, <1>8, <1>9 DEF InspectStep, DispositionStep

\* Sessions that have overlapped stay so.
LEMMA OverlapStays == ASSUME [StockNext]_stockVars, overlapped PROVE overlapped'
<1> USE DEF stockVars, materialVars, qualityVars
<1>1. CASE UNCHANGED stockVars
  BY <1>1
<1>2. CASE MasterStep
  BY <1>2 DEF MasterStep, CreatePlace, CreateLot, CreateGauge, CreatePlan, TransitionPlan
<1>3. CASE MaterialStep(Ids)
  BY <1>3 DEF MaterialStep, RecordMovement, RecordTransformation, Adjust, Begin, Write, Commit,
              Rollback, Import
<1>4. ASSUME NEW i \in Insps, InspectStep(i) PROVE overlapped'
  BY <1>4 DEF InspectStep, OpenRead, OpenInsert, OpenCommit, OpenRollback, RecordMeasurement,
              ReleaseInspection
<1>5. ASSUME NEW i \in Insps, DispositionStep(i) PROVE overlapped'
  BY <1>5 DEF DispositionStep, CreateDisposition, ApproveDisposition, CreateCapa, CompleteCapa
<1> QED BY <1>1, <1>2, <1>3, <1>4, <1>5 DEF StockNext

\* No step breaks it.
LEMMA QuietStep ==
    ASSUME Inv, Quiet, SerialSound, [StockNext]_stockVars
    PROVE  Quiet' /\ SerialSound'
<1>1. CASE overlapped'
  BY <1>1 DEF Quiet, SerialSound
<1>2. CASE ~overlapped'
  <2>1. ~overlapped
    BY <1>2, OverlapStays
  <2>2. CASE UNCHANGED stockVars
    BY <2>1, <2>2, QuietKeeps DEF stockVars, materialVars, qualityVars, Opening
  <2>3. CASE MasterStep
    <3>1. UNCHANGED <<opening, held, tx, stock, edges, case, breach>>
      BY <2>3 DEF MasterStep, CreatePlace, CreateLot, CreateGauge, CreatePlan, TransitionPlan,
             qualityVars, materialVars
    <3>2. \A l \in Lots : lot[l] = "active" => lot'[l] = "active"
      BY <2>3 DEF MasterStep, CreatePlace, CreateLot, CreateGauge, CreatePlan, TransitionPlan,
             qualityVars, materialVars, Inv, TypeInv, MaterialType
    <3> QED BY <2>1, <3>1, <3>2, QuietKeeps DEF Opening
  <2> QED BY <1>2, <2>1, <2>2, <2>3, QuietMaterial, QuietInspect DEF StockNext
<1> QED BY <1>1, <1>2

-----------------------------------------------------------------------------
(* Theorems *)

\* The invariant holds in every reachable state.
THEOREM QualityInvariant == StockSpec => []Inv
<1> QED BY InitInv, InvStep, PTL DEF StockSpec

\* For every set of inspections and samples, an undecided inspection holds its
\* lot, a hold is released only for a pass of every sample or an approved
\* use-as-is, and a scrapped lot is closed (release_inspection,
\* approve_disposition), in whatever order the dispositions are approved.
THEOREM UndecidedIsHeld == StockSpec => []HoldUntilDecided
<1>1. Inv => HoldUntilDecided
  BY DEF Inv
<1> QED BY <1>1, QualityInvariant, PTL

\* For every number of sessions, a balance of a serial does not change while the
\* serial is held, although the requests look at the holds before they lock
\* anything (trg_quality_hold_blocks_movement and the lock on the lot's row).
THEOREM HeldSerialsStay == StockSpec => HeldSerialStays
<1>1. Inv /\ [StockNext]_stockVars =>
        [\A l \in held \cap Serials, p \in Places : stock'[<<l, p>>] = stock[<<l, p>>]]_stockVars
  BY HeldStep
<1> QED BY <1>1, QualityInvariant, PTL DEF StockSpec, HeldSerialStays

\* For every number of sessions and places, a serial number is at most one unit, in
\* whatever order movements, transformations and adjustments write and commit
\* (_apply_balance_delta and the balance trigger's lock on the lot's row).
THEOREM SerialIsOneUnit == StockSpec => []SerialOnce
<1>1. StockInit => Inv /\ SerialOnce /\ Weighed
  BY InitInv, WeighedInit
<1>2. (Inv /\ SerialOnce /\ Weighed) /\ [StockNext]_stockVars => (Inv /\ SerialOnce /\ Weighed)'
  BY InvStep, WeighedStep
<1> QED BY <1>1, <1>2, PTL DEF StockSpec

\* For every set of lots and requests, as long as no two sessions have overlapped: no
\* movement of a held or closed lot was committed, every adjustment ended at the observed
\* quantity, and no lot is its own ancestor (_assert_no_genealogy_cycle).
THEOREM SoundAlone == StockSpec => []SerialSound
<1>1. StockInit => Inv /\ Quiet /\ SerialSound
  BY InitInv, QuietInit
<1>2. (Inv /\ Quiet /\ SerialSound) /\ [StockNext]_stockVars => (Inv /\ Quiet /\ SerialSound)'
  BY InvStep, QuietStep
<1> QED BY <1>1, <1>2, PTL DEF StockSpec

\* For every number of sessions, no balance of a lot at a place is ever negative: the
\* guard in the UPDATE of _apply_balance_delta holds until the commit, because the row
\* stays locked.
THEOREM NoBalanceNegative == StockSpec => [](\A s \in Slots : stock[s] >= 0)
<1>1. StockInit => Inv /\ Covered
  BY InitInv, CoveredInit
<1>2. (Inv /\ Covered) /\ [StockNext]_stockVars => (Inv /\ Covered)'
  BY InvStep, CoveredStep
<1>3. Covered => \A s \in Slots : stock[s] >= 0
  BY DEF Covered
<1> QED BY <1>1, <1>2, <1>3, PTL DEF StockSpec

===============================================================================
