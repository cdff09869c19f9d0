-------------------------- MODULE Maintenance_proofs --------------------------
(***************************************************************************)
(* Maintenance work is proven, worn tools are blocked and a preventive     *)
(* period gives one order, for every set of orders, checklist, interval    *)
(* and life limit, with all of the component's requests interleaved (the   *)
(* runs of TLC take them in groups).                                       *)
(*                                                                         *)
(* A spare part's movement remembers the order it read; WorkProven needs   *)
(* that an order that is no longer active is verified and stays so         *)
(* (SparesFollow), which fails if a second order could be written over it  *)
(* (OrderConverted).  OneOrderPerPeriod needs that everything generated so *)
(* far lies before the due time (MadeBefore).                              *)
(***************************************************************************)
EXTENDS Maintenance, TLAPS

OrderStatus == {None, "draft", "approved", "in_progress", "work_completed", "verified"}
Result == {None, "pass", "fail", "not_applicable"}
Order == [status : OrderStatus, impact : Impacts, rev : Revs \cup {None},
          result : [Items -> Result], completer : People \cup {None},
          verifier : People \cup {None}]
Plan == [status : {None, "draft", "effective"}, due : Int, rev : Revs \cup {None},
         impact : Impacts]
Tool == [status : {None, "active", "over_life", "calibration_invalid"}, life : Nat,
         calibrated : BOOLEAN, assigned : BOOLEAN]
Spare == [status : {None, "read", "recorded", "linked"}, order : Orders \cup {None},
          late : BOOLEAN]

\* The type invariant: every row has one of its statuses.
TypeInv ==
    /\ asset \in {None, "active", "degraded", "out_of_service"}
    /\ codes \subseteq {"failure", "cause", "remedy"}
    /\ checklist \in [Revs -> {None, "draft", "approved", "effective", "superseded"}]
    /\ request \in [Orders -> {None, "open", "converted"}]
    /\ order \in [Orders -> Order]
    /\ plan \in Plan /\ now \in Nat /\ made \in [Orders -> Int]
    /\ tool \in Tool /\ used \in Nat /\ cals \in Nat
    /\ spare \in [Moves -> Spare]

\* An order's request is converted, so no second order is written over it.
OrderConverted == \A o \in Orders : order[o].status # None => request[o] = "converted"

\* A movement that read an order read one that had started, and a movement that
\* came late found it verified.
SparesFollow ==
    \A m \in Moves : spare[m].status # None =>
        /\ spare[m].order \in Orders
        /\ order[spare[m].order].status \in {"in_progress", "work_completed", "verified"}
        /\ spare[m].late => order[spare[m].order].status = "verified"

\* Orders are generated by an effective plan, before its next due time.
MadeBefore ==
    \A o \in Orders :
        /\ made[o] = -1 \/ (plan.status = "effective" /\ made[o] \in 0..now)
        /\ made[o] # -1 => made[o] < plan.due

Inv ==
    /\ TypeInv /\ OrderConverted /\ SparesFollow /\ MadeBefore
    /\ WorkProven /\ WornToolBlocked /\ OneOrderPerPeriod

-----------------------------------------------------------------------------
(* The due times of a preventive plan *)

\* Division with a positive divisor brackets the dividend.
LEMMA Division ==
    ASSUME NEW a \in Int, NEW n \in Nat \ {0}
    PROVE  /\ a \div n \in Int /\ a % n \in 0..(n - 1)
           /\ a = n * (a \div n) + (a % n)
  BY SMT

\* A quotient is determined by that bracket.
LEMMA Quotient ==
    ASSUME NEW a \in Int, NEW n \in Nat \ {0}, NEW q \in Int, n * q <= a, a < n * q + n
    PROVE  a \div n = q
<1>1. PICK p \in Int : p = a \div n /\ n * p <= a /\ a < n * p + n
  BY Division
<1>2. n * p < n * q + n /\ n * q < n * p + n
  BY <1>1
<1>3. ~(p >= q + 1)
  BY <1>2
<1>4. ~(q >= p + 1)
  BY <1>2
<1> QED BY <1>1, <1>3, <1>4

\* The loop of generate_preventive_work ends at the first due time after now: a
\* positive number of whole intervals later, and at most one interval from now.
LEMMA NextDueFacts ==
    ASSUME now \in Nat, NEW d \in Int, d <= now
    PROVE  /\ NextDue(d) \in Int /\ now < NextDue(d) /\ NextDue(d) <= now + Interval
           /\ \E k \in Nat \ {0} : NextDue(d) = d + Interval * k
<1> DEFINE q == (now - d) \div Interval
           e == d + Interval * (q + 1)
<1>0. Interval \in Nat \ {0} /\ now - d \in Nat
  BY MaintenanceAssumption
<1>1. q \in Int /\ Interval * q <= now - d /\ now - d < Interval * q + Interval
  BY <1>0, Division
<1>2. e \in (now + 1)..(now + Interval)
  <2> HIDE DEF q
  <2>1. Interval * (q + 1) = Interval * q + Interval
    BY <1>0, <1>1
  <2>2. Interval * q \in Int
    BY <1>0, <1>1
  <2> QED BY <1>0, <1>1, <2>1, <2>2
<1>3. (e - d) % Interval = 0
  <2> HIDE DEF q
  <2> DEFINE a == Interval * (q + 1)
  <2>1. a \in Int /\ e - d = a
    BY <1>0, <1>1
  <2>2. a \div Interval = q + 1
    <3>1. Interval * (q + 1) <= a /\ a < Interval * (q + 1) + Interval /\ q + 1 \in Int
      BY <1>0, <1>1, <2>1
    <3> HIDE DEF a
    <3> QED BY <1>0, <2>1, <3>1, Quotient
  <2>3. a = Interval * (a \div Interval) + (a % Interval) /\ a % Interval \in Int
    <3> HIDE DEF a
    <3>1. a \in Int
      BY <2>1
    <3>2. a % Interval \in 0..(Interval - 1)
      BY <1>0, <3>1, Division
    <3>3. a = Interval * (a \div Interval) + (a % Interval)
      BY <1>0, <3>1, Division
    <3> QED BY <1>0, <3>2, <3>3
  <2>4. a = a + (a % Interval)
    BY <2>2, <2>3
  <2> HIDE DEF a, e
  <2>5. a % Interval = 0
    BY <2>1, <2>3, <2>4
  <2> QED BY <2>1, <2>5
<1>4. NextDue(d) \in (now + 1)..(now + Interval) /\ (NextDue(d) - d) % Interval = 0
  <2> HIDE DEF e
  <2> QED BY <1>2, <1>3 DEF NextDue
<1>5. PICK k \in Int : k = (NextDue(d) - d) \div Interval /\ NextDue(d) - d = Interval * k
  <2>1. NextDue(d) - d \in Int
    BY <1>0, <1>4
  <2>2. NextDue(d) - d = Interval * ((NextDue(d) - d) \div Interval) + 0
    BY <1>0, <1>4, <2>1, Division
  <2>3. (NextDue(d) - d) \div Interval \in Int
    BY <1>0, <2>1, Division
  <2>4. Interval * ((NextDue(d) - d) \div Interval) \in Int
    BY <1>0, <2>3
  <2> QED BY <2>2, <2>3, <2>4
<1>6. k > 0
  <2>1. Interval * k > 0
    BY <1>0, <1>4, <1>5
  <2> QED BY <1>0, <1>5, <2>1
<1>7. NextDue(d) = d + Interval * k
  <2>1. Interval * k \in Int
    BY <1>0
  <2> QED BY <1>0, <1>4, <1>5, <2>1
<1> QED BY <1>0, <1>4, <1>6, <1>7

\* Moving the due time by whole intervals renumbers the periods.
LEMMA Shifted ==
    ASSUME NEW x \in Int, NEW n \in Nat \ {0}, NEW k \in Int
    PROVE  (x - n * k) \div n = (x \div n) - k
<1>1. PICK q \in Int : q = x \div n /\ n * q <= x /\ x < n * q + n
  BY Division
<1>2. n * (q - k) = n * q - n * k /\ n * q \in Int /\ n * k \in Int
  OBVIOUS
<1>3. n * (q - k) <= x - n * k /\ x - n * k < n * (q - k) + n
  BY <1>1, <1>2
<1> QED BY <1>1, <1>2, <1>3, Quotient

-----------------------------------------------------------------------------
(* Types *)

\* Nothing is ordered, generated, used or consumed at first.
LEMMA InitInv == MaintenanceInit => Inv
<1> SUFFICES ASSUME MaintenanceInit PROVE Inv
  OBVIOUS
<1> USE DEF MaintenanceInit, NothingRegistered, NothingDone
<1>1. NoOrder \in Order /\ NoOrder.status = None
  BY DEF NoOrder, Order, OrderStatus, Result, Impacts, None
<1>2. NoPlan \in Plan /\ NoTool \in Tool /\ NoSpare \in Spare
  BY DEF NoPlan, Plan, NoTool, Tool, NoSpare, Spare, Impacts, None
<1>3. NoSpare.status = None /\ NoTool.status = None
  BY DEF NoSpare, NoTool
<1>4. TypeInv
  BY <1>1, <1>2 DEF TypeInv, None
<1>5. OrderConverted /\ SparesFollow /\ MadeBefore
  BY <1>1, <1>3 DEF OrderConverted, SparesFollow, MadeBefore
<1>6. WorkProven /\ WornToolBlocked /\ OneOrderPerPeriod
  BY <1>1, <1>3 DEF WorkProven, WornToolBlocked, OneOrderPerPeriod, None
<1> QED BY <1>4, <1>5, <1>6 DEF Inv

\* A new order has the type of an order, and nothing of an earlier one.
LEMMA NewOrder ==
    ASSUME NEW r \in Revs \cup {None}, NEW i \in Impacts
    PROVE  LET n == [NoOrder EXCEPT !.status = "draft", !.rev = r, !.impact = i]
           IN  n \in Order /\ n.status = "draft"
  BY DEF NoOrder, Order, OrderStatus, Result, Impacts, None

\* What the requests about an order leave alone.
OnlyOrders == UNCHANGED <<codes, checklist, plan, now, made, tool, used, cals, spare>>

\* How order o changes: it is written where there was none, or follows its
\* lifecycle, and what it is signed for stays.
OrderMoves(o) ==
    \/ order'[o] = order[o]
    \/ /\ request[o] # "converted" /\ request'[o] = "converted" /\ order'[o].status = "draft"
    \/ /\ order[o].status = "in_progress" /\ order'[o].status = "in_progress"
    \/ /\ order[o].status \in {"draft", "approved"}
       /\ order'[o].status \in {"approved", "in_progress"}
    \/ /\ order[o].status = "in_progress" /\ order'[o].status = "work_completed"
       /\ \A i \in Required : order'[o].result[i] = "pass"
    \/ /\ order[o].status = "work_completed" /\ order'[o].status = "verified"
       /\ order'[o].result = order[o].result /\ order'[o].verifier # order'[o].completer

\* Requests stay converted.
RequestMoves ==
    \A o \in Orders : /\ request[o] = "converted" => request'[o] = "converted"
                      /\ order'[o].status # None /\ order[o].status = None
                            => request'[o] = "converted"

\* Orders that move so keep what is said of orders and spare parts.
LEMMA OrdersKept ==
    ASSUME Inv, \A o \in Orders : OrderMoves(o), RequestMoves, spare' = spare
    PROVE  OrderConverted' /\ SparesFollow' /\ WorkProven'
<1>1. OrderConverted'
  BY DEF Inv, OrderConverted, OrderMoves, RequestMoves, None
<1>2. \A o \in Orders :
         /\ order[o].status = "verified" => order'[o].status = "verified"
         /\ order[o].status \in {"in_progress", "work_completed"}
              => order'[o].status \in {"in_progress", "work_completed", "verified"}
  BY DEF Inv, OrderConverted, OrderMoves, None
<1>3. SparesFollow'
  BY <1>2 DEF Inv, SparesFollow
<1>4. ASSUME NEW o \in Orders
      PROVE  /\ order'[o].status \in {"work_completed", "verified"}
                  => \A i \in Required : order'[o].result[i] = "pass"
             /\ order'[o].status = "verified" => order'[o].verifier # order'[o].completer
  BY <1>2 DEF Inv, WorkProven, OrderMoves
<1>5. WorkProven'
  BY <1>4 DEF Inv, WorkProven
<1> QED BY <1>1, <1>3, <1>5

\* What the plan and the tool rest on stays when they are left alone.
LEMMA PlanAndToolKept ==
    ASSUME Inv, UNCHANGED <<plan, now, made, tool>>
    PROVE  MadeBefore' /\ OneOrderPerPeriod' /\ WornToolBlocked'
  BY DEF Inv, MadeBefore, OneOrderPerPeriod, WornToolBlocked

\* What the orders rest on stays when they are left alone.
LEMMA WorkKept ==
    ASSUME Inv, UNCHANGED <<order, request, spare>>
    PROVE  OrderConverted' /\ SparesFollow' /\ WorkProven'
  BY DEF Inv, OrderConverted, SparesFollow, WorkProven

-----------------------------------------------------------------------------
(* The steps, one group at a time *)

\* Registering assets, codes and checklists touches nothing that is at stake.
LEMMA MasterKeeps == ASSUME Inv, MasterStep PROVE Inv'
<1> USE DEF toolVars
<1>1. UNCHANGED <<request, order, plan, now, made, tool, used, cals, spare>>
  BY DEF MasterStep, CreateAsset, CreateCode, CreateChecklist, TransitionChecklist
<1>2. asset' \in {None, "active", "degraded", "out_of_service"}
  BY DEF MasterStep, CreateAsset, CreateCode, CreateChecklist, TransitionChecklist, Inv,
         TypeInv
<1>3. codes' \subseteq {"failure", "cause", "remedy"}
  BY DEF MasterStep, CreateAsset, CreateCode, CreateChecklist, TransitionChecklist, Inv,
         TypeInv
<1>4. checklist' \in [Revs -> {None, "draft", "approved", "effective", "superseded"}]
  BY DEF MasterStep, CreateAsset, CreateCode, CreateChecklist, TransitionChecklist, Inv,
         TypeInv
<1>5. TypeInv'
  BY <1>1, <1>2, <1>3, <1>4 DEF Inv, TypeInv
<1> QED BY <1>1, <1>5, PlanAndToolKept, WorkKept DEF Inv

\* A request about one order changes it as its lifecycle allows.
LEMMA OrderStepMoves ==
    ASSUME Inv, NEW o \in Orders,
           \/ CreateRequest(o) \/ ApproveOrder(o) \/ StartOrder(o)
           \/ \E r \in Revs, impact \in Impacts : CreateOrder(o, r, impact)
           \/ \E i \in Items, v \in {"pass", "fail", "not_applicable"} :
                 RecordCheckResult(o, i, v)
           \/ \E w \in People :
                \/ CompleteWork(o, w)
                \/ \E v \in {"restored", "degraded", "not_restored"} : VerifyOrder(o, w, v)
    PROVE  /\ asset' \in {None, "active", "degraded", "out_of_service"}
           /\ request' \in [Orders -> {None, "open", "converted"}]
           /\ order' \in [Orders -> Order]
           /\ OnlyOrders /\ RequestMoves /\ \A p \in Orders : OrderMoves(p)
<1> USE DEF toolVars, OnlyOrders
<1> DEFINE Goal == /\ asset' \in {None, "active", "degraded", "out_of_service"}
                   /\ request' \in [Orders -> {None, "open", "converted"}]
                   /\ order' \in [Orders -> Order]
                   /\ OnlyOrders /\ RequestMoves /\ \A p \in Orders : OrderMoves(p)
<1>0. TypeInv /\ order[o] \in Order
  BY DEF Inv, TypeInv
<1>1. CASE CreateRequest(o)
  BY <1>0, <1>1 DEF CreateRequest, RequestMoves, OrderMoves, TypeInv, None
<1>2. ASSUME NEW r \in Revs, NEW impact \in Impacts, CreateOrder(o, r, impact) PROVE Goal
  <2> DEFINE n == [NoOrder EXCEPT !.status = "draft", !.rev = r, !.impact = impact]
  <2>1. n \in Order /\ n.status = "draft"
    BY NewOrder
  <2>2. order' = [order EXCEPT ![o] = n] /\ request[o] = "open"
        /\ request' = [request EXCEPT ![o] = "converted"] /\ asset' = asset /\ OnlyOrders
    BY <1>2 DEF CreateOrder
  <2> HIDE DEF n
  <2> QED BY <1>0, <2>1, <2>2 DEF RequestMoves, OrderMoves, TypeInv, None
<1>3. ASSUME NEW n \in Order, order' = [order EXCEPT ![o] = n], request' = request,
             n.status # None, order[o].status # None
      PROVE  RequestMoves /\ order' \in [Orders -> Order] /\ \A p \in Orders \ {o} : OrderMoves(p)
             /\ order'[o] = n
  BY <1>0, <1>3 DEF RequestMoves, OrderMoves, TypeInv, Inv, OrderConverted
<1>4. CASE ApproveOrder(o)
  <2> DEFINE n == [order[o] EXCEPT !.status = "approved"]
  <2>1. n \in Order /\ n.status = "approved"
    BY <1>0 DEF Order, OrderStatus
  <2>2. order' = [order EXCEPT ![o] = n] /\ request' = request /\ asset' = asset /\ OnlyOrders
        /\ order[o].status = "draft"
    BY <1>4 DEF ApproveOrder, Update
  <2> HIDE DEF n
  <2>3. OrderMoves(o) /\ RequestMoves /\ order' \in [Orders -> Order]
        /\ \A p \in Orders \ {o} : OrderMoves(p)
    BY <1>3, <2>1, <2>2 DEF OrderMoves, None
  <2> QED BY <1>0, <2>2, <2>3 DEF TypeInv
<1>5. CASE StartOrder(o)
  <2> DEFINE n == [order[o] EXCEPT !.status = "in_progress"]
  <2>1. n \in Order /\ n.status = "in_progress"
    BY <1>0 DEF Order, OrderStatus
  <2>2. order' = [order EXCEPT ![o] = n] /\ request' = request /\ OnlyOrders
        /\ order[o].status = "approved" /\ asset' = Impacted(order[o].impact)
    BY <1>5 DEF StartOrder, Update
  <2>3. asset' \in {None, "active", "degraded", "out_of_service"}
    BY <1>0, <2>2 DEF Impacted, TypeInv, Order, Impacts
  <2> HIDE DEF n
  <2>4. OrderMoves(o) /\ RequestMoves /\ order' \in [Orders -> Order]
        /\ \A p \in Orders \ {o} : OrderMoves(p)
    BY <1>3, <2>1, <2>2 DEF OrderMoves, None
  <2> QED BY <1>0, <2>2, <2>3, <2>4 DEF TypeInv
<1>6. ASSUME NEW i \in Items, NEW v \in {"pass", "fail", "not_applicable"},
             RecordCheckResult(o, i, v)
      PROVE  Goal
  <2> DEFINE n == [order[o] EXCEPT !.result[i] = v]
  <2>1. n \in Order /\ n.status = order[o].status
    BY <1>0 DEF Order, Result
  <2>2. order' = [order EXCEPT ![o] = n]
    BY <1>0, <1>6 DEF RecordCheckResult, TypeInv
  <2>3. request' = request /\ asset' = asset /\ OnlyOrders /\ order[o].status = "in_progress"
    BY <1>6 DEF RecordCheckResult
  <2> HIDE DEF n
  <2>4. RequestMoves /\ order' \in [Orders -> Order] /\ order'[o] = n
        /\ \A p \in Orders \ {o} : OrderMoves(p)
    BY <1>3, <2>1, <2>2, <2>3 DEF None
  <2>5. OrderMoves(o)
    BY <2>1, <2>3, <2>4 DEF OrderMoves
  <2> QED BY <1>0, <2>3, <2>4, <2>5 DEF TypeInv
<1>7. ASSUME NEW w \in People, CompleteWork(o, w) PROVE Goal
  <2> DEFINE n == [order[o] EXCEPT !.status = "work_completed", !.completer = w]
  <2>1. n \in Order /\ n.status = "work_completed" /\ n.result = order[o].result
    BY <1>0 DEF Order, OrderStatus
  <2>2. order' = [order EXCEPT ![o] = n] /\ request' = request /\ asset' = asset /\ OnlyOrders
        /\ order[o].status = "in_progress" /\ \A i \in Required : order[o].result[i] = "pass"
    BY <1>7 DEF CompleteWork, Update, Passed
  <2> HIDE DEF n
  <2>3. RequestMoves /\ order' \in [Orders -> Order] /\ order'[o] = n
        /\ \A p \in Orders \ {o} : OrderMoves(p)
    BY <1>3, <2>1, <2>2 DEF None
  <2>4. OrderMoves(o)
    BY <2>1, <2>2, <2>3 DEF OrderMoves
  <2> QED BY <1>0, <2>2, <2>3, <2>4 DEF TypeInv
<1>8. ASSUME NEW w \in People, NEW v \in {"restored", "degraded", "not_restored"},
             VerifyOrder(o, w, v)
      PROVE  Goal
  <2> DEFINE n == [order[o] EXCEPT !.status = "verified", !.verifier = w]
  <2>1. n \in Order /\ n.status = "verified" /\ n.result = order[o].result
        /\ n.verifier = w /\ n.completer = order[o].completer
    BY <1>0 DEF Order, OrderStatus
  <2>2. order' = [order EXCEPT ![o] = n] /\ request' = request /\ OnlyOrders
        /\ order[o].status = "work_completed" /\ w # order[o].completer
    BY <1>8 DEF VerifyOrder, Update
  <2>3. asset' \in {None, "active", "degraded", "out_of_service"}
    BY <1>8 DEF VerifyOrder, Restored
  <2> HIDE DEF n
  <2>4. RequestMoves /\ order' \in [Orders -> Order] /\ order'[o] = n
        /\ \A p \in Orders \ {o} : OrderMoves(p)
    BY <1>3, <2>1, <2>2 DEF None
  <2>5. OrderMoves(o)
    BY <2>1, <2>2, <2>4 DEF OrderMoves
  <2> QED BY <1>0, <2>2, <2>3, <2>4, <2>5 DEF TypeInv
<1> QED BY <1>1, <1>2, <1>4, <1>5, <1>6, <1>7, <1>8

\* A consume movement reads an active order; late or not, it is linked only to
\* an order that is still active, and an order it came late for is not.
LEMMA SpareKeeps ==
    ASSUME Inv, NEW m \in Moves,
           (\E o \in Orders : ReadOrder(m, o)) \/ RecordConsume(m) \/ RecordSpareUse(m)
    PROVE  Inv'
<1> USE DEF orderVars, toolVars
<1>0. TypeInv /\ SparesFollow /\ spare[m] \in Spare
  BY DEF Inv, TypeInv
<1>1. UNCHANGED <<asset, codes, checklist, request, order, plan, now, made, tool, used, cals>>
  BY DEF ReadOrder, RecordConsume, RecordSpareUse
<1>2. PICK n \in Spare :
        /\ spare' = [spare EXCEPT ![m] = n]
        /\ n.order \in Orders
        /\ order[n.order].status \in {"in_progress", "work_completed", "verified"}
        /\ n.late => order[n.order].status = "verified"
        /\ n.status = "linked" => ~n.late
  <2>1. CASE \E o \in Orders : ReadOrder(m, o)
    <3>1. PICK o \in Orders : ReadOrder(m, o)
      BY <2>1
    <3> DEFINE n == [status |-> "read", order |-> o, late |-> FALSE]
    <3>2. n \in Spare /\ spare' = [spare EXCEPT ![m] = n] /\ n.order = o /\ ~n.late
          /\ n.status # "linked"
      BY <3>1 DEF ReadOrder, Spare
    <3>3. order[o].status \in {"in_progress", "work_completed"}
      BY <3>1 DEF ReadOrder, Active
    <3> QED BY <3>2, <3>3
  <2>2. CASE RecordConsume(m)
    <3> DEFINE n == [spare[m] EXCEPT !.status = "recorded", !.late = ~Active(spare[m].order)]
    <3>1. Active(spare[m].order) \in BOOLEAN
      BY DEF Active
    <3>2. n \in Spare /\ n.order = spare[m].order /\ n.late = ~Active(spare[m].order)
          /\ n.status = "recorded"
      BY <1>0, <3>1 DEF Spare
    <3>3. spare' = [spare EXCEPT ![m] = n]
      BY <1>0, <2>2 DEF RecordConsume, TypeInv, Spare
    <3>4. n.order \in Orders
          /\ order[n.order].status \in {"in_progress", "work_completed", "verified"}
      BY <1>0, <2>2, <3>2 DEF RecordConsume, SparesFollow, None
    <3>5. n.late => order[n.order].status = "verified"
      BY <3>2, <3>4 DEF Active
    <3> QED BY <3>2, <3>3, <3>4, <3>5
  <2>3. CASE RecordSpareUse(m)
    <3> DEFINE n == [spare[m] EXCEPT !.status = "linked"]
    <3>1. n \in Spare /\ n.order = spare[m].order /\ n.late = spare[m].late
      BY <1>0 DEF Spare
    <3>2. spare' = [spare EXCEPT ![m] = n]
      BY <1>0, <2>3 DEF RecordSpareUse, TypeInv, Spare
    <3>3. n.order \in Orders /\ order[n.order].status \in {"in_progress", "work_completed"}
      BY <1>0, <2>3, <3>1 DEF RecordSpareUse, SparesFollow, Linkable, Active, None
    <3>4. ~spare[m].late
      BY <1>0, <2>3, <3>1, <3>3 DEF RecordSpareUse, SparesFollow, None
    <3> QED BY <3>1, <3>2, <3>3, <3>4
  <2> QED BY <2>1, <2>2, <2>3
<1>3. TypeInv'
  BY <1>0, <1>1, <1>2 DEF TypeInv
<1>4. SparesFollow'
  BY <1>0, <1>1, <1>2 DEF TypeInv, SparesFollow
<1>5. WorkProven' /\ OrderConverted'
  BY <1>0, <1>1, <1>2 DEF TypeInv, WorkProven, OrderConverted, Inv
<1> QED BY <1>1, <1>3, <1>4, <1>5, PlanAndToolKept DEF Inv

\* Requests, orders and spare parts.
LEMMA WorkKeeps == ASSUME Inv, WorkStep PROVE Inv'
<1>1. ASSUME NEW o \in Orders,
             /\ asset' \in {None, "active", "degraded", "out_of_service"}
             /\ request' \in [Orders -> {None, "open", "converted"}]
             /\ order' \in [Orders -> Order]
             /\ OnlyOrders /\ RequestMoves /\ \A p \in Orders : OrderMoves(p)
      PROVE  Inv'
  <2>1. TypeInv'
    BY <1>1 DEF Inv, TypeInv, OnlyOrders
  <2>2. OrderConverted' /\ SparesFollow' /\ WorkProven'
    BY <1>1, OrdersKept DEF OnlyOrders
  <2>3. MadeBefore' /\ OneOrderPerPeriod' /\ WornToolBlocked'
    BY <1>1, PlanAndToolKept DEF OnlyOrders
  <2> QED BY <2>1, <2>2, <2>3 DEF Inv
<1> QED BY <1>1, OrderStepMoves, SpareKeeps DEF WorkStep

\* The order that is generated lies in the period before the new due time, every
\* earlier one before that.
LEMMA GenerateKeeps ==
    ASSUME Inv, NEW o \in Orders, GeneratePreventiveWork(o)
    PROVE  MadeBefore' /\ OneOrderPerPeriod'
<1>0. TypeInv /\ MadeBefore /\ OneOrderPerPeriod /\ Interval \in Nat \ {0}
  BY MaintenanceAssumption DEF Inv
<1>1. now \in Nat /\ now' = now /\ plan.status = "effective" /\ plan.due \in Int
      /\ plan.due <= now
  BY <1>0 DEF GeneratePreventiveWork, TypeInv, Plan
<1>2. plan'.due = NextDue(plan.due) /\ plan'.status = "effective"
  BY <1>0, <1>1 DEF GeneratePreventiveWork, TypeInv, Plan
<1>3. PICK k \in Nat \ {0} : NextDue(plan.due) = plan.due + Interval * k
  BY <1>1, NextDueFacts
<1>4. NextDue(plan.due) \in Int /\ now < NextDue(plan.due)
      /\ NextDue(plan.due) <= now + Interval
  BY <1>1, NextDueFacts
<1>5. made'[o] = now /\ (\A p \in Orders \ {o} : made'[p] = made[p])
      /\ \A p \in Orders : made[p] \in Int
  BY <1>0 DEF GeneratePreventiveWork, TypeInv
<1>6. MadeBefore'
  <2> SUFFICES ASSUME NEW p \in Orders
               PROVE  /\ made'[p] = -1 \/ (plan'.status = "effective" /\ made'[p] \in 0..now')
                      /\ made'[p] # -1 => made'[p] < plan'.due
    BY DEF MadeBefore
  <2>1. CASE p = o
    BY <1>1, <1>2, <1>4, <1>5, <2>1
  <2>2. CASE p # o
    <3>1. made[p] = -1 \/ (plan.status = "effective" /\ made[p] \in 0..now)
      BY <1>0 DEF MadeBefore
    <3> QED BY <1>1, <1>2, <1>4, <1>5, <2>2, <3>1
  <2> QED BY <2>1, <2>2
<1>7. ASSUME NEW p \in Orders, p # o, made[p] >= 0
      PROVE  (made'[p] - plan'.due) \div Interval = ((made[p] - plan.due) \div Interval) - k
  <2> DEFINE x == made[p] - plan.due
  <2>1. x \in Int
    BY <1>1, <1>5
  <2>2. made'[p] - plan'.due = x - Interval * k
    <3>1. Interval * k \in Int
      BY <1>0
    <3> QED BY <1>1, <1>2, <1>3, <1>5, <1>7, <3>1
  <2> HIDE DEF x
  <2>3. (x - Interval * k) \div Interval = (x \div Interval) - k
    <3>1. k \in Int
      OBVIOUS
    <3> QED BY <1>0, <2>1, <3>1, Shifted
  <2> QED BY <2>2, <2>3 DEF x
<1>8. (made'[o] - plan'.due) \div Interval = -1
  <2> DEFINE y == now - NextDue(plan.due)
  <2>1. y \in Int /\ made'[o] - plan'.due = y
    BY <1>1, <1>2, <1>4, <1>5
  <2>2. Interval * (-1) <= y /\ y < Interval * (-1) + Interval
    <3>1. Interval * (-1) = -Interval
      <4>1. \A n \in Int : n * (-1) = -n
        BY SMT
      <4> QED BY <1>0, <4>1
    <3>2. -Interval <= y /\ y < 0
      BY <1>0, <1>1, <1>4
    <3> HIDE DEF y
    <3> QED BY <1>0, <2>1, <3>1, <3>2
  <2> HIDE DEF y
  <2> QED BY <1>0, <2>1, <2>2, Quotient
<1>9. ASSUME NEW p \in Orders, p # o, made[p] >= 0
      PROVE  /\ (made[p] - plan.due) \div Interval \in Int
             /\ (made[p] - plan.due) \div Interval < 0
  <2> DEFINE x == made[p] - plan.due
  <2>1. x \in Int /\ x < 0
    BY <1>0, <1>1, <1>5, <1>9 DEF MadeBefore
  <2> HIDE DEF x
  <2>2. PICK q \in Int : q = x \div Interval /\ Interval * q <= x
    BY <1>0, <2>1, Division
  <2>3. ~(q >= 0)
    BY <1>0, <2>1, <2>2
  <2> QED BY <2>2, <2>3 DEF x
<1>10. ASSUME NEW p \in Orders, NEW q \in Orders, p # q, made'[p] >= 0, made'[q] >= 0
       PROVE  (made'[p] - plan'.due) \div Interval # (made'[q] - plan'.due) \div Interval
  <2>1. CASE p # o /\ q # o
    <3>1. made[p] >= 0 /\ made[q] >= 0
      BY <1>5, <1>10, <2>1
    <3>2. (made[p] - plan.due) \div Interval # (made[q] - plan.due) \div Interval
      BY <1>0, <1>10, <3>1 DEF OneOrderPerPeriod
    <3>3. (made[p] - plan.due) \div Interval \in Int /\ (made[q] - plan.due) \div Interval \in Int
      BY <1>9, <2>1, <3>1
    <3> QED BY <1>7, <2>1, <3>1, <3>2, <3>3
  <2>2. ASSUME NEW a \in Orders, a # o, made'[a] >= 0
        PROVE  (made'[a] - plan'.due) \div Interval # -1
    <3>1. made[a] >= 0
      BY <1>5, <2>2
    <3>2. /\ (made[a] - plan.due) \div Interval \in Int
          /\ (made[a] - plan.due) \div Interval < 0
      BY <1>9, <2>2, <3>1
    <3>3. (made'[a] - plan'.due) \div Interval = ((made[a] - plan.due) \div Interval) - k
      BY <1>7, <2>2, <3>1
    <3> QED BY <3>2, <3>3
  <2> QED BY <1>8, <1>10, <2>1, <2>2
<1> QED BY <1>6, <1>10 DEF OneOrderPerPeriod

\* Plans, the clock and the orders a plan generates.
LEMMA PlanKeeps == ASSUME Inv, PlanStep PROVE Inv'
<1> USE DEF toolVars
<1>0. TypeInv /\ MadeBefore /\ plan \in Plan
  BY DEF Inv, TypeInv
<1>1. ASSUME NEW r \in Revs, NEW d \in 0..MaxTime, NEW impact \in Impacts,
             CreatePreventivePlan(r, d, impact)
      PROVE  Inv'
  <2>1. plan' \in Plan
    BY <1>1, MaintenanceAssumption DEF CreatePreventivePlan, Plan
  <2>2. UNCHANGED <<asset, codes, checklist, request, order, now, made, tool, used, cals, spare>>
    BY <1>1 DEF CreatePreventivePlan
  <2>3. \A o \in Orders : made[o] = -1
    BY <1>0, <1>1 DEF CreatePreventivePlan, MadeBefore, None
  <2>4. TypeInv'
    BY <1>0, <2>1, <2>2 DEF TypeInv
  <2>5. MadeBefore' /\ OneOrderPerPeriod' /\ WornToolBlocked'
    BY <2>2, <2>3 DEF MadeBefore, OneOrderPerPeriod, WornToolBlocked, Inv
  <2> QED BY <2>2, <2>4, <2>5, WorkKept DEF Inv
<1>2. CASE EffectivePreventivePlan
  <2>1. plan' \in Plan /\ plan'.due = plan.due
    BY <1>0, <1>2 DEF EffectivePreventivePlan, Plan
  <2>2. UNCHANGED <<asset, codes, checklist, request, order, now, made, tool, used, cals, spare>>
    BY <1>2 DEF EffectivePreventivePlan
  <2>3. \A o \in Orders : made[o] = -1
    BY <1>0, <1>2 DEF EffectivePreventivePlan, MadeBefore
  <2>4. TypeInv'
    BY <1>0, <2>1, <2>2 DEF TypeInv
  <2>5. MadeBefore' /\ OneOrderPerPeriod' /\ WornToolBlocked'
    BY <2>2, <2>3 DEF MadeBefore, OneOrderPerPeriod, WornToolBlocked, Inv
  <2> QED BY <2>2, <2>4, <2>5, WorkKept DEF Inv
<1>3. CASE Tick
  <2>1. now' = now + 1 /\ now \in Nat
        /\ UNCHANGED <<asset, codes, checklist, request, order, plan, made, tool, used, cals,
                       spare>>
    BY <1>0, <1>3 DEF Tick, TypeInv
  <2>2. TypeInv'
    BY <1>0, <2>1 DEF TypeInv
  <2>3. MadeBefore'
    BY <1>0, <2>1 DEF MadeBefore
  <2>4. OneOrderPerPeriod' /\ WornToolBlocked'
    BY <2>1 DEF OneOrderPerPeriod, WornToolBlocked, Inv
  <2> QED BY <2>1, <2>2, <2>3, <2>4, WorkKept DEF Inv
<1>4. ASSUME NEW o \in Orders, GeneratePreventiveWork(o)
      PROVE  Inv'
  <2> DEFINE n == [NoOrder EXCEPT !.status = "draft", !.rev = plan.rev, !.impact = plan.impact]
  <2>1. plan.rev \in Revs \cup {None} /\ plan.impact \in Impacts /\ plan.due \in Int
    BY <1>0 DEF Plan
  <2>2. n \in Order /\ n.status = "draft"
    BY <2>1, NewOrder
  <2>3. /\ order' = [order EXCEPT ![o] = n] /\ request[o] = None
        /\ request' = [request EXCEPT ![o] = "converted"]
        /\ UNCHANGED <<asset, codes, checklist, now, tool, used, cals, spare>>
    BY <1>4 DEF GeneratePreventiveWork
  <2> HIDE DEF n
  <2>4. NextDue(plan.due) \in Int
    BY <1>0, <1>4, <2>1, NextDueFacts DEF GeneratePreventiveWork, TypeInv
  <2>5. plan' \in Plan
    BY <1>0, <1>4, <2>4 DEF GeneratePreventiveWork, Plan
  <2>6. made' \in [Orders -> Int]
    BY <1>0, <1>4 DEF GeneratePreventiveWork, TypeInv
  <2>7. TypeInv'
    BY <1>0, <2>2, <2>3, <2>5, <2>6 DEF TypeInv
  <2>8. (\A p \in Orders : OrderMoves(p)) /\ RequestMoves
    BY <1>0, <2>2, <2>3 DEF OrderMoves, RequestMoves, TypeInv, None
  <2>9. OrderConverted' /\ SparesFollow' /\ WorkProven'
    BY <2>3, <2>8, OrdersKept
  <2>10. WornToolBlocked'
    BY <2>3 DEF Inv, WornToolBlocked
  <2> QED BY <1>4, <2>7, <2>9, <2>10, GenerateKeeps DEF Inv
<1> QED BY <1>1, <1>2, <1>3, <1>4 DEF PlanStep

\* Usage and calibrations of the tool.
LEMMA ToolKeeps == ASSUME Inv, ToolStep PROVE Inv'
<1> USE DEF orderVars
<1>0. TypeInv /\ tool \in Tool /\ WornToolBlocked /\ LifeLimit \in Nat
  BY MaintenanceAssumption DEF Inv, TypeInv
<1>1. UNCHANGED <<asset, codes, checklist, request, order, plan, now, made, spare>>
  BY DEF ToolStep, CreateTool, AssignTool, RecordToolLife, RecordCalibration
<1> DEFINE Goal == tool' \in Tool /\ WornToolBlocked' /\ used' \in Nat /\ cals' \in Nat
<1>2. used \in Nat /\ cals \in Nat /\ tool.life \in Nat
  BY <1>0 DEF TypeInv, Tool
<1>3. Goal
  <2>1. ASSUME NEW u \in 0..LifeLimit, NEW x \in BOOLEAN, CreateTool(u, x)
        PROVE  Goal
    <3>1. /\ tool'.life = u /\ (tool'.calibrated <=> ~x) /\ tool'.assigned = FALSE
          /\ tool'.status = IF u >= LifeLimit THEN "over_life"
                            ELSE IF x THEN "calibration_invalid" ELSE "active"
          /\ used' = used /\ cals' = cals
      BY <2>1 DEF CreateTool
    <3>2. tool' \in Tool
      BY <1>0, <2>1 DEF CreateTool, Tool, None
    <3>3. tool'.status = "active" => ~(u >= LifeLimit) /\ ~x
      BY <3>1
    <3>4. WornToolBlocked'
      BY <1>0, <3>1, <3>3 DEF WornToolBlocked
    <3> QED BY <1>2, <3>1, <3>2, <3>4
  <2>2. ASSUME NEW u \in 0..LifeLimit, NEW x \in BOOLEAN, RecordToolLife(u, x)
        PROVE  Goal
    <3>1. /\ tool'.life = tool.life + u /\ tool'.calibrated = tool.calibrated
          /\ tool'.status = IF tool.life + u >= LifeLimit THEN "over_life" ELSE tool.status
          /\ used' = used + 1 /\ cals' = cals
      BY <1>0, <2>2 DEF RecordToolLife, Tool
    <3>2. tool.life + u \in Nat
      BY <1>0, <1>2
    <3>3. tool' \in Tool
      BY <1>0, <2>2, <3>2 DEF RecordToolLife, Tool
    <3>4. WornToolBlocked'
      BY <1>0, <3>1, <3>2 DEF WornToolBlocked
    <3> QED BY <1>2, <3>1, <3>3, <3>4
  <2>3. CASE AssignTool
    <3>1. /\ tool' \in Tool /\ tool'.life = tool.life /\ tool'.calibrated = tool.calibrated
          /\ tool'.status = tool.status
      BY <1>0, <2>3 DEF AssignTool, Tool
    <3>2. used' = used /\ cals' = cals
      BY <2>3 DEF AssignTool
    <3> QED BY <1>0, <1>2, <3>1, <3>2 DEF WornToolBlocked
  <2>4. ASSUME NEW r \in {"pass", "fail"}, RecordCalibration(r)
        PROVE  Goal
    <3>1. Calibrated(r) \in {"active", "over_life", "calibration_invalid"}
          /\ (Calibrated(r) = "active" => r = "pass" /\ ~(tool.life >= LifeLimit))
      BY <2>4 DEF Calibrated
    <3>2. /\ tool' \in Tool /\ tool'.life = tool.life /\ (tool'.calibrated <=> r = "pass")
          /\ tool'.status = Calibrated(r)
      BY <1>0, <2>4, <3>1 DEF RecordCalibration, Tool
    <3>3. used' = used /\ cals' = cals + 1
      BY <2>4 DEF RecordCalibration
    <3>4. WornToolBlocked'
      BY <1>0, <1>2, <3>1, <3>2 DEF WornToolBlocked
    <3> QED BY <1>2, <3>2, <3>3, <3>4
  <2> QED BY <2>1, <2>2, <2>3, <2>4 DEF ToolStep
<1>4. TypeInv'
  BY <1>0, <1>1, <1>3 DEF TypeInv
<1>5. MadeBefore' /\ OneOrderPerPeriod'
  BY <1>1 DEF Inv, MadeBefore, OneOrderPerPeriod
<1> QED BY <1>1, <1>3, <1>4, <1>5, WorkKept DEF Inv

\* The invariant is inductive.
LEMMA InvStep == Inv /\ [MaintenanceNext]_maintenanceVars => Inv'
<1>1. ASSUME Inv, UNCHANGED maintenanceVars PROVE Inv'
  <2>1. UNCHANGED <<asset, codes, checklist, request, order, plan, now, made, tool, used, cals,
                    spare>>
    BY <1>1 DEF maintenanceVars, orderVars, toolVars
  <2>2. TypeInv'
    BY <1>1, <2>1 DEF Inv, TypeInv
  <2> QED BY <1>1, <2>1, <2>2, PlanAndToolKept, WorkKept DEF Inv
<1> QED BY <1>1, MasterKeeps, WorkKeeps, PlanKeeps, ToolKeeps DEF MaintenanceNext

-----------------------------------------------------------------------------
(* Theorems *)

\* The invariant holds in every reachable state.
THEOREM MaintenanceInvariant == MaintenanceSpec => []Inv
<1> QED BY InitInv, InvStep, PTL DEF MaintenanceSpec

\* For every checklist and any number of orders and movements, completed work
\* passed every required check, was verified by another person, and has no spare
\* part that was consumed after the work was verified (complete_work,
\* verify_order, record_spare_use).
THEOREM WorkIsProven == MaintenanceSpec => []WorkProven
<1>1. Inv => WorkProven
  BY DEF Inv
<1> QED BY <1>1, MaintenanceInvariant, PTL

\* For every life limit, whatever the order of usage and calibrations, an active
\* tool has life left and a passed calibration (the two triggers on the tool).
THEOREM WornToolsBlocked == MaintenanceSpec => []WornToolBlocked
<1>1. Inv => WornToolBlocked
  BY DEF Inv
<1> QED BY <1>1, MaintenanceInvariant, PTL

\* For every interval and however late it runs, generate_preventive_work gives a
\* period of the plan at most one order.
THEOREM PeriodsCountedOnce == MaintenanceSpec => []OneOrderPerPeriod
<1>1. Inv => OneOrderPerPeriod
  BY DEF Inv
<1> QED BY <1>1, MaintenanceInvariant, PTL

===============================================================================
