-------------------------- MODULE Execution_proofs --------------------------
(***************************************************************************)
(* Production execution is correct for every set of work orders, routing   *)
(* length, plan, and number of transactions open at once.                  *)
(*                                                                         *)
(* None of the invariants the run checks is inductive: a transaction       *)
(* of two steps acts on what it read in the first.  What was read under    *)
(* the row's lock still holds when it commits (ReadsHold, OneTxnPerRow);   *)
(* what was read without it holds unless another transaction was open at   *)
(* the same time, which overlap and raced remember (Watched, Counted).     *)
(***************************************************************************)
EXTENDS Execution, TLAPS

Holdable == {"dispatched", "setup", "ready", "running", "paused"}
RunOps == {"start", "resume", "downtime-end"}
TxnOps == RunOps \cup {"release-hold", "complete", "maintain"}

\* The open transactions there can be.
OpenTxn == [op : TxnOps, t : Tasks, tracked : BOOLEAN, last : BOOLEAN]

\* The tracked key, in use or not.
KeyOps == {"none", "start", "pause", "resume", "hold", "release-hold", "report"}
Key == [op : KeyOps, t : Tasks \cup {<<>>}, missed : Nat, stored : BOOLEAN, effects : Nat]

\* The type invariant: every row has one of its statuses, the downtime numbers
\* and quantities are natural numbers, an open transaction is about a task.
TypeInv ==
    /\ po \in {"none", "draft", "released", "in_progress", "completed", "closed"}
    /\ attached \subseteq WorkOrders
    /\ exec \in [WorkOrders -> {"none", "dispatched", "in_progress", "completed", "closed"}]
    /\ task \in [Tasks -> Holdable \cup {"none", "held", "completed", "closed"}]
    /\ prior \in [Tasks -> Holdable \cup {"none"}]
    /\ setup \in [Tasks -> {"none", "in_progress", "completed"}]
    /\ qty \in [Tasks -> Nat]
    /\ down \in [Tasks -> Nat] /\ downs \in Nat /\ holds \in Nat
    /\ maint \in [Tasks -> {"none", "draft", "approved", "in_progress",
                            "work_completed", "verified"}]
    /\ bound \in [Tasks -> Nat] /\ loose \subseteq Tasks
    /\ txn \in [Clients -> OpenTxn \cup {NoTxn}]
    /\ key \in Key
    /\ overlap \subseteq Tasks /\ raced \in BOOLEAN

\* The tracked key has as many effects as it has stored responses.
KeyCounts == key.effects = IF key.stored THEN 1 ELSE 0

\* What transaction x relies on and its row's lock protects.
Reads(x) ==
    /\ x.op = "start" => task[x.t] = "ready"
    /\ x.op \in {"resume", "downtime-end"} => task[x.t] = "paused"
    /\ x.op = "release-hold" => task[x.t] = "held"
    /\ x.op = "complete" => task[x.t] = "running" /\ qty[x.t] = Plan

ReadsHold == \A c \in Clients : Reads(txn[c])

\* Of two transactions about one task, one is the start of its maintenance,
\* and the pair is remembered.
OneTxnPerRow ==
    \A c, d \in Clients : c # d /\ txn[c].t = txn[d].t /\ txn[c] # NoTxn =>
        /\ (txn[c].op = "maintain") # (txn[d].op = "maintain")
        /\ txn[c].t \in overlap

\* A hold remembers a status a task can be held in.
HeldFits == \A t \in Tasks : task[t] = "held" => prior[t] \in Holdable

\* A task exists when its work order is dispatched, a work order is dispatched
\* when it is attached to an order that is released.
Dispatched ==
    /\ \A t \in Tasks : exec[t[1]] = "none" => task[t] = "none"
    /\ \A w \in WorkOrders : exec[w] # "none" => w \in attached
    /\ po \in {"none", "draft"} => \A w \in WorkOrders : exec[w] = "none"

\* Transaction x, which will make its task run.
WillRun(x) == x.op \in RunOps \/ (x.op = "release-hold" /\ prior[x.t] = "running")

\* What was read of the other row still holds, or the overlap is remembered; the start of an
\* order that is not bound to the task has not read it.
Watched ==
    \A c \in Clients :
        /\ WillRun(txn[c]) /\ maint[txn[c].t] \in Active => txn[c].t \in overlap
        /\ txn[c].op = "maintain" /\ task[txn[c].t] = "running"
              => txn[c].t \in overlap \cup loose

\* Whether a completion found itself to be the last still holds, or two
\* completions were open at once, which is remembered; that it was the last
\* holds in any case.
Counted ==
    /\ \A c \in Clients : txn[c].op = "complete" =>
          /\ txn[c].last => LastOrder(txn[c].t)
          /\ ~raced /\ LastOrder(txn[c].t) => txn[c].last
    /\ \A c, d \in Clients :
          c # d /\ txn[c].op = "complete" /\ txn[d].op = "complete" => raced

\* SerialOrderFollows, in every state.
OrderFollows == po = "in_progress" /\ ~raced => \E w \in attached : exec[w] \notin Done

Inv ==
    /\ TypeInv /\ KeyCounts /\ ReadsHold /\ OneTxnPerRow /\ HeldFits /\ Dispatched
    /\ RoutingOrder /\ DoneMeansDone
    /\ Watched /\ Counted /\ OrderFollows

-----------------------------------------------------------------------------
(* Types *)

\* A task belongs to a work order, and is not the placeholder of a transaction
\* or key that is not in use.
LEMMA TaskShape == \A t \in Tasks : t[1] \in WorkOrders /\ t[2] \in Nat /\ t # <<>>
<1> SUFFICES ASSUME NEW w \in WorkOrders, NEW i \in 1..Ops[w]
             PROVE  <<w, i>>[1] \in WorkOrders /\ <<w, i>>[2] \in Nat /\ <<w, i>> # <<>>
  BY DEF Tasks
<1> QED BY ExecutionAssumption

\* A transaction that is not the placeholder is an open one, about a task.
LEMMA TxnShape ==
    ASSUME TypeInv, NEW c \in Clients
    PROVE  /\ txn[c] # NoTxn => txn[c] \in OpenTxn /\ txn[c].t \in Tasks
           /\ txn[c].op # "none" => txn[c] # NoTxn
           /\ txn[c].t \in Tasks => txn[c] # NoTxn
           /\ txn[c] # NoTxn => txn[c].op \in TxnOps
  BY TaskShape DEF TypeInv, OpenTxn, NoTxn, TxnOps, RunOps

\* The initial state has the type, and everything the invariant says of it.
LEMMA InitInv == Init => Inv
<1> SUFFICES ASSUME Init PROVE Inv
  OBVIOUS
<1> USE TaskShape, ExecutionAssumption DEF Init
<1>1. TypeInv
  <2>1. key \in Key /\ txn \in [Clients -> OpenTxn \cup {NoTxn}]
    BY DEF Key, KeyOps, NoKey
  <2> QED BY <2>1 DEF TypeInv, Holdable
<1>2. KeyCounts /\ HeldFits /\ Dispatched
  BY DEF KeyCounts, NoKey, HeldFits, Dispatched
<1>3. ReadsHold /\ OneTxnPerRow /\ Watched /\ Counted
  BY DEF ReadsHold, Reads, OneTxnPerRow, Watched, WillRun, RunOps, Counted, NoTxn
<1>4. RoutingOrder /\ DoneMeansDone /\ OrderFollows
  BY DEF RoutingOrder, Standing, DoneMeansDone, OrderFollows, Done
<1> QED BY <1>1, <1>2, <1>3, <1>4 DEF Inv

\* The tracked key keeps its type through a keyed transaction.
LEMMA KeyedType ==
    ASSUME TypeInv, NEW o, NEW t, NEW k, Keyed(o, t, k)
    PROVE  key' \in Key
<1>1. CASE k
  <2>1. key \in Key /\ key.missed - 1 \in Nat /\ key.effects + 1 \in Nat
    BY <1>1 DEF TypeInv, Keyed, Key
  <2> QED BY <1>1, <2>1 DEF Keyed, Key
<1>2. CASE ~k
  BY <1>2 DEF TypeInv, Keyed
<1> QED BY <1>1, <1>2

\* Opening a transaction keeps the types.
LEMMA OpensType ==
    ASSUME TypeInv, NEW c \in Clients, NEW o \in TxnOps, NEW t \in Tasks,
           NEW k \in BOOLEAN, NEW l \in BOOLEAN, Opens(c, o, t, k, l)
    PROVE  TypeInv'
<1>1. txn' \in [Clients -> OpenTxn \cup {NoTxn}]
  BY DEF Opens, TypeInv, OpenTxn
<1>2. overlap' \subseteq Tasks /\ raced' \in BOOLEAN
  BY DEF Opens, TypeInv
<1> QED BY <1>1, <1>2 DEF Opens, TypeInv, orders, facts, service

\* Every step keeps the types.
LEMMA TypeStep == ASSUME TypeInv, Next PROVE TypeInv'
<1> USE DEF orders, facts, service, history, Change, Holdable
<1>1. ASSUME create_production_order \/ release_production_order \/ close_production_order
      PROVE  TypeInv'
  BY <1>1 DEF create_production_order, release_production_order, close_production_order,
              TypeInv
<1>2. ASSUME NEW w \in WorkOrders,
             attach_work_order(w) \/ dispatch_work_order(w) \/ close_work_order(w)
      PROVE  TypeInv'
  <2>1. CASE attach_work_order(w)
    BY <2>1 DEF attach_work_order, TypeInv
  <2>2. CASE dispatch_work_order(w)
    BY <2>2 DEF dispatch_work_order, TypeInv
  <2>3. CASE close_work_order(w)
    BY <2>3 DEF close_work_order, TypeInv
  <2> QED BY <1>2, <2>1, <2>2, <2>3
<1>3. ASSUME NEW t \in Tasks, start_setup(t) \/ complete_setup(t) \/ close_task(t)
      PROVE  TypeInv'
  BY <1>3 DEF start_setup, complete_setup, close_task, TypeInv
<1>4. ASSUME NEW t \in Tasks, start_downtime(t)
      PROVE  TypeInv'
  BY <1>4 DEF start_downtime, TypeInv
<1>5. ASSUME NEW t \in Tasks, maintenance_step(t) \/ \E b \in Bindings : create_order(t, b)
      PROVE  TypeInv'
  <2>1. CASE maintenance_step(t)
    BY <2>1 DEF maintenance_step, TypeInv
  <2>2. CASE \E b \in Bindings : create_order(t, b)
    BY <2>2 DEF create_order, TypeInv
  <2> QED BY <1>5, <2>1, <2>2
<1>6. ASSUME NEW t \in Tasks, NEW k \in BOOLEAN, pause_task(t, k)
      PROVE  TypeInv'
  BY <1>6, KeyedType DEF pause_task, TypeInv
<1>7. ASSUME NEW t \in Tasks, NEW k \in BOOLEAN, hold_task(t, k)
      PROVE  TypeInv'
  BY <1>7, KeyedType DEF hold_task, TypeInv
<1>8. ASSUME NEW t \in Tasks, NEW k \in BOOLEAN, NEW n \in 1..Plan, report_quantity(t, n, k)
      PROVE  TypeInv'
  <2>1. qty' \in [Tasks -> Nat]
    BY <1>8, ExecutionAssumption DEF report_quantity, TypeInv
  <2> QED BY <1>8, <2>1, KeyedType DEF report_quantity, TypeInv
<1>9. ASSUME NEW t \in Tasks, NEW o \in Repeatable, Misses(o, t)
      PROVE  TypeInv'
  <2>1. key \in Key /\ o \in KeyOps /\ key.missed + 1 \in Nat
    BY ExecutionAssumption DEF TypeInv, Key, KeyOps
  <2>2. key' \in Key
    BY <1>9, <2>1 DEF Misses, Key
  <2> QED BY <1>9, <2>2 DEF Misses, TypeInv
<1>10. ASSUME Refused
       PROVE  TypeInv'
  <2>1. key \in Key /\ key.missed - 1 \in Nat
    BY <1>10 DEF TypeInv, Key, Refused
  <2>2. key' \in Key
    BY <1>10, <2>1 DEF Refused, Key
  <2> QED BY <1>10, <2>2 DEF Refused, TypeInv
<1>11. ASSUME NEW c \in Clients, NEW t \in Tasks, NEW k \in BOOLEAN,
              \/ BeginComplete(c, t) \/ BeginMaintain(c, t) \/ BeginRelease(c, t, k)
              \/ \E o \in RunOps : BeginRun(c, o, t, k)
       PROVE  TypeInv'
  <2>1. LastOrder(t) \in BOOLEAN
    BY DEF LastOrder, LastTask
  <2> QED BY <1>11, <2>1, OpensType
          DEF BeginComplete, BeginMaintain, BeginRelease, BeginRun, TxnOps, RunOps
<1>12. ASSUME NEW c \in Clients, CommitRun(c)
       PROVE  TypeInv'
  <2>1. txn[c].t \in Tasks /\ txn[c].t[1] \in WorkOrders
    BY <1>12, TxnShape, TaskShape DEF CommitRun
  <2>2. txn' \in [Clients -> OpenTxn \cup {NoTxn}]
    BY <1>12 DEF CommitRun, Ends, TypeInv
  <2>3. exec' \in [WorkOrders -> {"none", "dispatched", "in_progress", "completed", "closed"}]
    BY <1>12, <2>1 DEF CommitRun, TypeInv
  <2> QED BY <1>12, <2>1, <2>2, <2>3, KeyedType DEF CommitRun, TypeInv
<1>13. ASSUME NEW c \in Clients, CommitRelease(c)
       PROVE  TypeInv'
  <2>1. txn[c].t \in Tasks
    BY <1>13, TxnShape DEF CommitRelease
  <2>2. txn' \in [Clients -> OpenTxn \cup {NoTxn}]
    BY <1>13 DEF CommitRelease, Ends, TypeInv
  <2> QED BY <1>13, <2>1, <2>2, KeyedType DEF CommitRelease, TypeInv
<1>14. ASSUME NEW c \in Clients, CommitComplete(c)
       PROVE  TypeInv'
  <2>1. txn[c].t \in Tasks /\ txn[c].t[1] \in WorkOrders
    BY <1>14, TxnShape, TaskShape DEF CommitComplete
  <2>2. txn' \in [Clients -> OpenTxn \cup {NoTxn}]
    BY <1>14 DEF CommitComplete, Ends, TypeInv
  <2> QED BY <1>14, <2>1, <2>2 DEF CommitComplete, TypeInv
<1>15. ASSUME NEW c \in Clients, CommitMaintain(c) \/ RollsBack(c)
       PROVE  TypeInv'
  <2>2. txn' \in [Clients -> OpenTxn \cup {NoTxn}]
    BY <1>15 DEF CommitMaintain, RollsBack, Ends, TypeInv
  <2> QED BY <1>15, <2>2 DEF CommitMaintain, RollsBack, TypeInv
<1> QED BY <1>1, <1>2, <1>3, <1>4, <1>5, <1>6, <1>7, <1>8, <1>9, <1>10, <1>11, <1>12,
           <1>13, <1>14, <1>15 DEF Next, RunOps, generate_preventive_work, Bindings

-----------------------------------------------------------------------------
(* What one step can do, whoever takes it *)

\* How a step can change the status of task t, and what it found or leaves.
TaskMoves(t) ==
    \/ task'[t] = task[t] /\ prior'[t] = prior[t]
    \/ task[t] = "none" /\ task'[t] = "dispatched" /\ exec[t[1]] = "none"
    \/ task[t] = "dispatched" /\ task'[t] = "setup" /\ PredecessorsDone(t)
    \/ task[t] = "setup" /\ task'[t] = "ready" /\ setup'[t] = "completed"
    \/ /\ task[t] \in {"ready", "paused"} /\ task'[t] = "running"
       /\ \E c \in Clients : txn[c].op \in RunOps /\ txn[c].t = t
    \/ task[t] = "running" /\ task'[t] = "paused"
    \/ task[t] \in Holdable /\ task'[t] = "held" /\ prior'[t] = task[t]
    \/ /\ task[t] = "held" /\ task'[t] = prior[t]
       /\ \E c \in Clients : txn[c].op = "release-hold" /\ txn[c].t = t
    \/ /\ task[t] = "running" /\ task'[t] = "completed" /\ qty'[t] = Plan
       /\ \E c \in Clients : txn[c].op = "complete" /\ txn[c].t = t
    \/ task[t] = "completed" /\ task'[t] = "closed"

\* Where the rows of task t other than its status change.
FactMoves(t) ==
    /\ prior'[t] # prior[t] => "held" \in {task[t], task'[t]}
    /\ setup'[t] # setup[t] => task[t] \in {"dispatched", "setup"}
    /\ qty'[t] # qty[t] => task[t] \in {"running", "paused"} /\ qty'[t] <= Plan
    /\ maint'[t] \in Active =>
          maint[t] \in Active \/ \E c \in Clients : txn[c].op = "maintain" /\ txn[c].t = t

\* A transaction ends, or the row it holds is as it found it.
RowKept(c) ==
    txn[c].op \in TxnOps \ {"maintain"} =>
        \/ txn'[c] = NoTxn
        \/ /\ txn'[c] = txn[c] /\ task'[txn[c].t] = task[txn[c].t]
           /\ qty'[txn[c].t] = qty[txn[c].t] /\ prior'[txn[c].t] = prior[txn[c].t]

\* How a step can change the status of work order w.
ExecMoves(w) ==
    \/ exec'[w] = exec[w] /\ \A t \in Tasks : t[1] = w /\ task[t] = "none" => task'[t] = "none"
    \/ /\ exec[w] = "none" /\ exec'[w] = "dispatched"
       /\ w \in attached /\ po \in {"released", "in_progress"} /\ po' = "in_progress"
    \/ exec[w] = "dispatched" /\ exec'[w] = "in_progress"
    \/ /\ exec[w] # "none" /\ exec'[w] = "completed"
       /\ \A t \in Tasks : t[1] = w => task'[t] \in Done
       /\ \E c \in Clients :
             /\ txn[c].op = "complete" /\ txn[c].t[1] = w /\ LastTask(txn[c].t)
             /\ \A v \in WorkOrders \ {w} : exec'[v] = exec[v]
             /\ txn[c].last /\ po = "in_progress" => po' = "completed"
    \/ /\ exec[w] = "completed" /\ exec'[w] = "closed"
       /\ \A t \in Tasks : t[1] = w => task[t] = "closed"

\* How a step can change the production order.
OrderMoves ==
    /\ attached' # attached => po = "draft" /\ po' = "draft" /\ attached \subseteq attached'
    /\ \/ po' = po
       \/ po \in {"none", "draft"} /\ po' \in {"draft", "released"}
       \/ /\ po' = "in_progress"
          /\ \E w \in attached : exec[w] = "none" /\ exec'[w] = "dispatched"
       \/ /\ po = "in_progress" /\ po' = "completed"
          /\ \E c \in Clients : /\ txn[c].op = "complete" /\ txn[c].last
                                /\ LastTask(txn[c].t)
                                   => exec' = [exec EXCEPT ![txn[c].t[1]] = "completed"]
       \/ po = "completed" /\ po' = "closed" /\ \A w \in attached : exec[w] = "closed"

Moves ==
    /\ \A t \in Tasks : TaskMoves(t) /\ FactMoves(t)
    /\ \A c \in Clients : RowKept(c)
    /\ \A w \in WorkOrders : ExecMoves(w)
    /\ OrderMoves

\* A step that leaves tasks, orders and their rows alone moves nothing.
LEMMA NothingMoves ==
    ASSUME TypeInv, po' = po, attached' = attached, exec' = exec, task' = task,
           prior' = prior, setup' = setup, qty' = qty,
           \A t \in Tasks : maint'[t] \in Active => maint[t] \in Active
                \/ \E c \in Clients : txn[c].op = "maintain" /\ txn[c].t = t,
           \A c \in Clients : txn[c] # NoTxn => txn'[c] \in {txn[c], NoTxn}
    PROVE  Moves
<1>1. \A t \in Tasks : TaskMoves(t) /\ FactMoves(t)
  BY DEF TaskMoves, FactMoves
<1>2. \A c \in Clients : RowKept(c)
  BY TxnShape DEF RowKept, TxnOps, RunOps
<1>3. \A w \in WorkOrders : ExecMoves(w)
  BY DEF ExecMoves
<1> QED BY <1>1, <1>2, <1>3 DEF Moves, OrderMoves

\* An operation on the free row of task t changes that task and nothing else,
\* and leaves the rows that transactions hold alone.
LEMMA FreeRowMoves ==
    ASSUME TypeInv, NEW t \in Tasks, Free(t), TaskMoves(t), FactMoves(t),
           UNCHANGED <<orders, service, txn>>, task[t] # "none",
           \A s \in Tasks \ {t} : /\ task'[s] = task[s] /\ prior'[s] = prior[s]
                                  /\ setup'[s] = setup[s] /\ qty'[s] = qty[s]
    PROVE  Moves
<1> USE DEF orders, service
<1>1. \A s \in Tasks : TaskMoves(s) /\ FactMoves(s)
  <2> SUFFICES ASSUME NEW s \in Tasks, s # t PROVE TaskMoves(s) /\ FactMoves(s)
    OBVIOUS
  <2> QED BY DEF TaskMoves, FactMoves
<1>2. \A c \in Clients : RowKept(c)
  BY TxnShape DEF RowKept, Free, TxnOps, RunOps
<1>3. \A w \in WorkOrders : ExecMoves(w)
  BY DEF ExecMoves
<1> QED BY <1>1, <1>2, <1>3 DEF Moves, OrderMoves

\* A transaction that commits on the row it holds changes its task, perhaps the
\* work order of that task, and no row another transaction holds.
LEMMA CommitMoves ==
    ASSUME Inv, NEW c \in Clients, txn[c].op \in TxnOps \ {"maintain"}, Ends(c),
           TaskMoves(txn[c].t), FactMoves(txn[c].t),
           \A s \in Tasks \ {txn[c].t} : /\ task'[s] = task[s] /\ prior'[s] = prior[s],
           setup' = setup, qty' = qty, maint' = maint, task[txn[c].t] # "none",
           \A w \in WorkOrders \ {txn[c].t[1]} : exec'[w] = exec[w],
           exec'[txn[c].t[1]] # exec[txn[c].t[1]] => ExecMoves(txn[c].t[1]),
           OrderMoves
    PROVE  Moves
<1> DEFINE t == txn[c].t
<1>0. t \in Tasks /\ t[1] \in WorkOrders /\ txn[c] # NoTxn
  BY TxnShape, TaskShape DEF Inv, TxnOps, RunOps
<1>1. \A s \in Tasks : TaskMoves(s) /\ FactMoves(s)
  <2> SUFFICES ASSUME NEW s \in Tasks, s # t PROVE TaskMoves(s) /\ FactMoves(s)
    OBVIOUS
  <2> QED BY DEF TaskMoves, FactMoves
<1>2. ASSUME NEW d \in Clients PROVE RowKept(d)
  <2>1. CASE d = c
    BY <2>1 DEF Ends, Inv, TypeInv, RowKept
  <2>2. CASE d # c /\ txn[d].op \in TxnOps \ {"maintain"}
    <3>1. txn'[d] = txn[d]
      BY <2>2 DEF Ends, Inv, TypeInv
    <3>2. txn[d].t # t /\ txn[d].t \in Tasks
      BY <1>0, <2>2, TxnShape DEF Inv, OneTxnPerRow, TxnOps, RunOps
    <3> QED BY <3>1, <3>2 DEF RowKept
  <2> QED BY <2>1, <2>2 DEF RowKept
<1>3. ASSUME NEW w \in WorkOrders PROVE ExecMoves(w)
  <2>1. CASE exec'[w] = exec[w]
    BY <1>0, <2>1 DEF ExecMoves
  <2> QED BY <2>1
<1> QED BY <1>1, <1>2, <1>3 DEF Moves

\* Every step of the specification is one of these moves.
LEMMA StepMoves == ASSUME Inv, Next PROVE Moves
<1> USE DEF orders, facts, service, history, Change
<1>0. TypeInv
  BY DEF Inv
<1>1. ASSUME create_production_order \/ release_production_order \/ close_production_order
      PROVE  Moves
  <2>1. \A t \in Tasks : TaskMoves(t) /\ FactMoves(t)
    BY <1>1 DEF TaskMoves, FactMoves, create_production_order, release_production_order,
                close_production_order
  <2>2. \A c \in Clients : RowKept(c)
    BY <1>1 DEF RowKept, create_production_order, release_production_order,
                close_production_order
  <2>3. (\A w \in WorkOrders : ExecMoves(w)) /\ OrderMoves
    BY <1>1 DEF ExecMoves, OrderMoves, create_production_order, release_production_order,
                close_production_order, Closed
  <2> QED BY <2>1, <2>2, <2>3 DEF Moves
<1>2. ASSUME NEW w \in WorkOrders, attach_work_order(w) \/ close_work_order(w)
      PROVE  Moves
  <2>1. \A t \in Tasks : TaskMoves(t) /\ FactMoves(t)
    BY <1>2 DEF TaskMoves, FactMoves, attach_work_order, close_work_order
  <2>2. \A c \in Clients : RowKept(c)
    BY <1>2 DEF RowKept, attach_work_order, close_work_order
  <2>3. (\A v \in WorkOrders : ExecMoves(v)) /\ OrderMoves
    BY <1>0, <1>2 DEF ExecMoves, OrderMoves, attach_work_order, close_work_order, TypeInv
  <2> QED BY <2>1, <2>2, <2>3 DEF Moves
<1>3. ASSUME NEW w \in WorkOrders, dispatch_work_order(w)
      PROVE  Moves
  <2>1. \A t \in Tasks : t[1] = w => task[t] = "none" /\ task'[t] = "dispatched"
    BY <1>3 DEF dispatch_work_order, Inv, Dispatched
  <2>2. \A t \in Tasks : t[1] # w => task'[t] = task[t]
    BY <1>3 DEF dispatch_work_order
  <2>3. \A t \in Tasks : TaskMoves(t) /\ FactMoves(t)
    BY <1>3, <2>1, <2>2 DEF TaskMoves, FactMoves, dispatch_work_order
  <2>4. ASSUME NEW c \in Clients PROVE RowKept(c)
    <3>1. txn[c].op \in TxnOps \ {"maintain"} => txn[c].t \in Tasks /\ task[txn[c].t] # "none"
      BY <1>0, TxnShape DEF Inv, ReadsHold, Reads, TxnOps, RunOps
    <3> QED BY <1>3, <2>1, <2>2, <3>1 DEF RowKept, dispatch_work_order
  <2>5. \A v \in WorkOrders : ExecMoves(v)
    BY <1>0, <1>3, <2>2 DEF ExecMoves, dispatch_work_order, TypeInv
  <2>6. OrderMoves
    BY <1>0, <1>3 DEF OrderMoves, dispatch_work_order, TypeInv
  <2> QED BY <2>3, <2>4, <2>5, <2>6 DEF Moves
<1>4. ASSUME NEW t \in Tasks,
             start_setup(t) \/ complete_setup(t) \/ start_downtime(t) \/ close_task(t)
      PROVE  Moves
  <2>1. TaskMoves(t) /\ FactMoves(t)
    BY <1>0, <1>4 DEF TaskMoves, FactMoves, start_setup, complete_setup, start_downtime,
                      close_task, TypeInv
  <2> QED BY <1>0, <1>4, <2>1, FreeRowMoves
          DEF start_setup, complete_setup, start_downtime, close_task, TypeInv
<1>5. ASSUME NEW t \in Tasks, NEW k \in BOOLEAN,
             \/ pause_task(t, k) \/ hold_task(t, k)
             \/ \E n \in 1..Plan : report_quantity(t, n, k)
      PROVE  Moves
  <2>1. TaskMoves(t) /\ FactMoves(t)
    BY <1>0, <1>5 DEF TaskMoves, FactMoves, pause_task, hold_task, report_quantity, Fits,
                      Holdable, TypeInv
  <2> QED BY <1>0, <1>5, <2>1, FreeRowMoves
          DEF pause_task, hold_task, report_quantity, TypeInv
<1>6. ASSUME NEW t \in Tasks,
             \/ maintenance_step(t) \/ \E b \in Bindings : create_order(t, b)
             \/ \E o \in Repeatable : Misses(o, t)
      PROVE  Moves
  <2>1. \A s \in Tasks : maint'[s] \in Active => maint[s] \in Active
    BY <1>0, <1>6 DEF maintenance_step, create_order, Misses, Active, TypeInv
  <2> QED BY <1>0, <1>6, <2>1, NothingMoves DEF maintenance_step, create_order, Misses
<1>7. ASSUME Refused PROVE Moves
  BY <1>0, <1>7, NothingMoves DEF Refused
<1>8. ASSUME NEW c \in Clients, NEW t \in Tasks, NEW o, NEW k, NEW l, Opens(c, o, t, k, l)
      PROVE  Moves
  <2>1. \A d \in Clients : txn[d] # NoTxn => txn'[d] = txn[d]
    BY <1>0, <1>8 DEF Opens, TypeInv
  <2> QED BY <1>0, <1>8, <2>1, NothingMoves DEF Opens
<1>9. ASSUME NEW c \in Clients, CommitRun(c) PROVE Moves
  <2>1. txn[c].t \in Tasks /\ txn[c].t[1] \in WorkOrders
    BY <1>0, <1>9, TxnShape, TaskShape DEF CommitRun
  <2>2. task[txn[c].t] \in {"ready", "paused"}
    BY <1>9 DEF CommitRun, Inv, ReadsHold, Reads
  <2>3. TaskMoves(txn[c].t) /\ FactMoves(txn[c].t)
    BY <1>0, <1>9, <2>1, <2>2 DEF TaskMoves, FactMoves, CommitRun, TypeInv, RunOps
  <2>4. exec'[txn[c].t[1]] # exec[txn[c].t[1]] => ExecMoves(txn[c].t[1])
    BY <1>0, <1>9, <2>1 DEF ExecMoves, CommitRun, TypeInv
  <2>5. OrderMoves
    BY <1>9 DEF OrderMoves, CommitRun
  <2> QED BY <1>0, <1>9, <2>1, <2>2, <2>3, <2>4, <2>5, CommitMoves
          DEF CommitRun, TxnOps, RunOps, TypeInv
<1>10. ASSUME NEW c \in Clients, CommitRelease(c) PROVE Moves
  <2>1. txn[c].t \in Tasks /\ txn[c].t[1] \in WorkOrders
    BY <1>0, <1>10, TxnShape, TaskShape DEF CommitRelease
  <2>2. task[txn[c].t] = "held"
    BY <1>10 DEF CommitRelease, Inv, ReadsHold, Reads
  <2>3. TaskMoves(txn[c].t) /\ FactMoves(txn[c].t)
    BY <1>0, <1>10, <2>1, <2>2 DEF TaskMoves, FactMoves, CommitRelease, TypeInv
  <2>4. OrderMoves
    BY <1>10 DEF OrderMoves, CommitRelease
  <2> QED BY <1>0, <1>10, <2>1, <2>2, <2>3, <2>4, CommitMoves
          DEF CommitRelease, TxnOps, RunOps, TypeInv
<1>11. ASSUME NEW c \in Clients, CommitComplete(c) PROVE Moves
  <2>1. txn[c].t \in Tasks /\ txn[c].t[1] \in WorkOrders
    BY <1>0, <1>11, TxnShape, TaskShape DEF CommitComplete
  <2>2. task[txn[c].t] = "running" /\ qty[txn[c].t] = Plan
    BY <1>11 DEF CommitComplete, Inv, ReadsHold, Reads
  <2>3. TaskMoves(txn[c].t) /\ FactMoves(txn[c].t)
    BY <1>0, <1>11, <2>1, <2>2 DEF TaskMoves, FactMoves, CommitComplete, TypeInv
  <2>4. exec[txn[c].t[1]] # "none"
    BY <2>1, <2>2 DEF Inv, Dispatched
  <2>5. exec'[txn[c].t[1]] # exec[txn[c].t[1]] => ExecMoves(txn[c].t[1])
    <3>1. \A t \in Tasks : LastTask(txn[c].t) /\ t[1] = txn[c].t[1] => task'[t] \in Done
      BY <1>0, <1>11, <2>1 DEF CommitComplete, LastTask, Done, TypeInv
    <3> QED BY <1>0, <1>11, <2>1, <2>2, <2>4, <3>1 DEF ExecMoves, CommitComplete, TypeInv, Done
  <2>6. OrderMoves
    BY <1>11 DEF OrderMoves, CommitComplete
  <2> QED BY <1>0, <1>11, <2>1, <2>2, <2>3, <2>5, <2>6, CommitMoves
          DEF CommitComplete, TxnOps, RunOps, TypeInv
<1>12. ASSUME NEW c \in Clients, CommitMaintain(c) PROVE Moves
  <2>1. \A t \in Tasks : maint'[t] \in Active => maint[t] \in Active
            \/ \E d \in Clients : txn[d].op = "maintain" /\ txn[d].t = t
    BY <1>0, <1>12 DEF CommitMaintain, TypeInv
  <2>2. \A d \in Clients : txn'[d] \in {txn[d], NoTxn}
    BY <1>0, <1>12 DEF CommitMaintain, Ends, TypeInv
  <2> QED BY <1>0, <1>12, <2>1, <2>2, NothingMoves DEF CommitMaintain
<1>13. ASSUME NEW c \in Clients, RollsBack(c) PROVE Moves
  <2>1. \A d \in Clients : txn'[d] \in {txn[d], NoTxn}
    BY <1>0, <1>13 DEF RollsBack, Ends, TypeInv
  <2> QED BY <1>0, <1>13, <2>1, NothingMoves DEF RollsBack
<1> QED BY <1>1, <1>2, <1>3, <1>4, <1>5, <1>6, <1>7, <1>8, <1>9, <1>10, <1>11, <1>12, <1>13
        DEF Next, BeginComplete, BeginMaintain, BeginRelease, BeginRun, generate_preventive_work,
            Bindings

-----------------------------------------------------------------------------
(* The invariant, part by part *)

\* The tracked key is used once.
LEMMA KeyStep == ASSUME Inv, Next PROVE KeyCounts'
<1> USE DEF KeyCounts, facts, orders, history, service
<1>0. KeyCounts /\ key \in Key
  BY DEF Inv, TypeInv
<1>1. ASSUME NEW o, NEW t, NEW k, Keyed(o, t, k) PROVE KeyCounts'
  <2>1. CASE k
    <3>1. ~key.stored /\ key.effects = 0
      BY <1>0, <1>1, <2>1 DEF Keyed, Unused
    <3>2. key'.stored = TRUE /\ key'.effects = key.effects + 1
      BY <1>0, <1>1, <2>1 DEF Keyed, Key
    <3> QED BY <3>1, <3>2
  <2>2. CASE ~k
    BY <1>0, <1>1, <2>2 DEF Keyed
  <2> QED BY <2>1, <2>2
<1>2. ASSUME NEW o, NEW t, Misses(o, t) PROVE KeyCounts'
  BY <1>0, <1>2 DEF Misses, Key
<1>3. CASE Refused
  BY <1>0, <1>3 DEF Refused, Key
<1>4. CASE key' = key
  BY <1>0, <1>4
<1> QED BY <1>1, <1>2, <1>3, <1>4
        DEF Next, create_production_order, release_production_order, close_production_order,
            attach_work_order, dispatch_work_order, close_work_order, start_setup,
            complete_setup, start_downtime, close_task, maintenance_step, create_order,
            generate_preventive_work, pause_task, hold_task, report_quantity, BeginComplete, BeginMaintain,
            BeginRelease, BeginRun, Opens, CommitRun, CommitRelease, CommitComplete,
            CommitMaintain, RollsBack

\* The transactions a step opens; all others stay or end.
Opening(c) ==
    \/ \E t \in Tasks, k \in BOOLEAN :
          \/ BeginComplete(c, t) \/ BeginMaintain(c, t) \/ BeginRelease(c, t, k)
          \/ \E o \in RunOps : BeginRun(c, o, t, k)

\* A step opens one transaction, or only ends some.
LEMMA TxnStep ==
    ASSUME TypeInv, Next
    PROVE  \/ \E c \in Clients : Opening(c)
           \/ UNCHANGED <<overlap, raced>> /\ \A c \in Clients : txn'[c] \in {txn[c], NoTxn}
<1> USE DEF history
<1>1. ASSUME NEW c \in Clients, Ends(c) PROVE \A d \in Clients : txn'[d] \in {txn[d], NoTxn}
  BY <1>1 DEF Ends, TypeInv
<1>2. CASE \E c \in Clients : CommitRun(c) \/ CommitRelease(c) \/ CommitComplete(c)
                              \/ CommitMaintain(c) \/ RollsBack(c)
  BY <1>1, <1>2 DEF CommitRun, CommitRelease, CommitComplete, CommitMaintain, RollsBack
<1>3. CASE \E c \in Clients : Opening(c)
  BY <1>3
<1>4. CASE UNCHANGED <<txn, overlap, raced>>
  BY <1>4
<1> QED BY <1>2, <1>3, <1>4
        DEF Next, Opening, RunOps, create_production_order, release_production_order,
            close_production_order, attach_work_order, dispatch_work_order, close_work_order,
            start_setup, complete_setup, start_downtime, close_task, maintenance_step,
            create_order, generate_preventive_work, pause_task, hold_task, report_quantity,
            Misses, Refused

\* What a transaction finds when it is opened.
LEMMA OpeningFacts ==
    ASSUME Inv, NEW c \in Clients, Opening(c)
    PROVE  /\ txn[c] = NoTxn /\ txn'[c] \in OpenTxn
           /\ \A d \in Clients \ {c} : txn'[d] = txn[d]
           /\ UNCHANGED <<orders, task, facts, service, key>>
           /\ Reads(txn'[c])
           /\ txn'[c].op # "maintain" => Free(txn'[c].t)
           /\ WillRun(txn'[c]) => maint[txn'[c].t] \notin Active
           /\ txn'[c].op = "maintain" =>
                 /\ txn'[c].t \in loose \/ task[txn'[c].t] # "running"
                 /\ \A d \in Clients : txn[d].t = txn'[c].t => txn[d].op # "maintain"
           /\ txn'[c].op = "complete" => (txn'[c].last <=> LastOrder(txn'[c].t))
           /\ overlap \subseteq overlap'
           /\ \A d \in Clients : txn[d].t = txn'[c].t => txn'[c].t \in overlap'
           /\ raced => raced'
           /\ txn'[c].op = "complete" /\ (\E d \in Clients : txn[d].op = "complete") => raced'
           /\ ~raced /\ raced' => txn'[c].op = "complete"
<1>0. TypeInv
  BY DEF Inv
<1>1. PICK t \in Tasks, k \in BOOLEAN :
          \/ BeginComplete(c, t) \/ BeginMaintain(c, t) \/ BeginRelease(c, t, k)
          \/ \E o \in RunOps : BeginRun(c, o, t, k)
  BY DEF Opening
<1> DEFINE x == txn'[c]
           Finds ==
             /\ Reads(x)
             /\ x.op # "maintain" => Free(x.t)
             /\ WillRun(x) => maint[x.t] \notin Active
             /\ x.op = "maintain" =>
                   /\ x.t \in loose \/ task[x.t] # "running"
                   /\ \A d \in Clients : txn[d].t = x.t => txn[d].op # "maintain"
             /\ x.op = "complete" => (x.last <=> LastOrder(x.t))
<1>2. \E o \in TxnOps, j \in BOOLEAN, l \in BOOLEAN : Opens(c, o, t, j, l) /\ Finds
  <2>1. ASSUME NEW o \in TxnOps, NEW j \in BOOLEAN, NEW l \in BOOLEAN, Opens(c, o, t, j, l)
        PROVE  x.op = o /\ x.t = t /\ x.last = l
    BY <1>0, <2>1 DEF Opens, TypeInv
  <2>2. CASE BeginComplete(c, t)
    <3>1. LastOrder(t) \in BOOLEAN
      BY DEF LastOrder, LastTask
    <3>2. Opens(c, "complete", t, FALSE, LastOrder(t)) /\ "complete" \in TxnOps
      BY <2>2 DEF BeginComplete, TxnOps
    <3>3. x.op = "complete" /\ x.t = t /\ (x.last <=> LastOrder(t))
      BY <2>1, <3>1, <3>2
    <3>4. Finds
      BY <2>2, <3>3 DEF BeginComplete, Reads, WillRun, Conserved, RunOps
    <3> QED BY <3>1, <3>2, <3>4
  <2>3. CASE BeginMaintain(c, t)
    <3>1. Opens(c, "maintain", t, FALSE, FALSE) /\ "maintain" \in TxnOps
      BY <2>3 DEF BeginMaintain, TxnOps
    <3>2. x.op = "maintain" /\ x.t = t
      BY <2>1, <3>1
    <3>3. Finds
      BY <2>3, <3>2 DEF BeginMaintain, MayMaintain, Reads, WillRun, RunOps
    <3> QED BY <3>1, <3>3
  <2>4. CASE BeginRelease(c, t, k)
    <3>1. Opens(c, "release-hold", t, k, FALSE) /\ "release-hold" \in TxnOps
      BY <2>4 DEF BeginRelease, TxnOps
    <3>2. x.op = "release-hold" /\ x.t = t
      BY <2>1, <3>1
    <3>3. Finds
      BY <2>4, <3>2 DEF BeginRelease, EquipmentReady, Reads, WillRun, RunOps
    <3> QED BY <3>1, <3>3
  <2>5. ASSUME NEW o \in RunOps, BeginRun(c, o, t, k)
        PROVE  \E j \in BOOLEAN, l \in BOOLEAN : Opens(c, o, t, j, l) /\ Finds
    <3>1. Opens(c, o, t, k, FALSE) /\ o \in TxnOps
      BY <2>5 DEF BeginRun, TxnOps
    <3>2. x.op = o /\ x.t = t
      BY <2>1, <3>1
    <3>3. Finds
      BY <2>5, <3>2 DEF BeginRun, Runs, EquipmentReady, Reads, WillRun, RunOps
    <3> QED BY <3>1, <3>3
  <2> QED BY <1>1, <2>2, <2>3, <2>4, <2>5 DEF TxnOps
<1>3. PICK o \in TxnOps, j \in BOOLEAN, l \in BOOLEAN : Opens(c, o, t, j, l) /\ Finds
  BY <1>2
<1>4. /\ txn[c] = NoTxn /\ x \in OpenTxn /\ x.t = t /\ x.op = o
      /\ \A d \in Clients \ {c} : txn'[d] = txn[d]
      /\ UNCHANGED <<orders, task, facts, service, key>>
  BY <1>0, <1>3 DEF Opens, TypeInv, OpenTxn
<1>5. /\ overlap \subseteq overlap'
      /\ \A d \in Clients : txn[d].t = t => t \in overlap'
      /\ raced => raced'
      /\ o = "complete" /\ (\E d \in Clients : txn[d].op = "complete") => raced'
      /\ ~raced /\ raced' => o = "complete"
  BY <1>0, <1>3 DEF Opens, TypeInv
<1> QED BY <1>3, <1>4, <1>5

\* The rows a transaction holds are as it found them until it ends.
LEMMA ReadsStep == ASSUME Inv, Next, Moves PROVE ReadsHold'
<1> SUFFICES ASSUME NEW c \in Clients PROVE Reads(txn[c])'
  BY DEF ReadsHold
<1>0. TypeInv /\ TypeInv' /\ Reads(txn[c])
  BY TypeStep DEF Inv, ReadsHold
<1>1. CASE txn'[c] = NoTxn
  BY <1>1 DEF Reads, NoTxn
<1>2. CASE txn'[c] = txn[c] /\ txn[c].op \in TxnOps \ {"maintain"} /\ txn'[c] # NoTxn
  BY <1>0, <1>2 DEF Moves, RowKept, Reads
<1>3. CASE txn'[c] = txn[c] /\ txn[c].op = "maintain"
  BY <1>3 DEF Reads
<1>4. CASE Opening(c)
  BY <1>4, OpeningFacts DEF Reads, facts
<1> QED BY <1>0, <1>1, <1>2, <1>3, <1>4, TxnStep, OpeningFacts, TxnShape

\* Two transactions about one row are a start of maintenance and another.
LEMMA RowStep == ASSUME Inv, Next PROVE OneTxnPerRow'
<1> SUFFICES ASSUME NEW c \in Clients, NEW d \in Clients, c # d,
                    txn'[c].t = txn'[d].t, txn'[c] # NoTxn
             PROVE  /\ (txn'[c].op = "maintain") # (txn'[d].op = "maintain")
                    /\ txn'[c].t \in overlap'
  BY DEF OneTxnPerRow
<1>0. TypeInv /\ TypeInv' /\ OneTxnPerRow
  BY TypeStep DEF Inv
<1>1. txn'[c].t \in Tasks /\ txn'[d] # NoTxn
  BY <1>0, TaskShape DEF TypeInv, OpenTxn, NoTxn
<1>2. CASE UNCHANGED <<overlap, raced>> /\ \A e \in Clients : txn'[e] \in {txn[e], NoTxn}
  BY <1>0, <1>1, <1>2 DEF OneTxnPerRow
<1>3. ASSUME NEW e \in Clients, Opening(e), e \notin {c, d}
      PROVE  /\ (txn'[c].op = "maintain") # (txn'[d].op = "maintain")
             /\ txn'[c].t \in overlap'
  BY <1>0, <1>1, <1>3, OpeningFacts DEF OneTxnPerRow
<1>4. ASSUME NEW e \in Clients, NEW f \in Clients, Opening(e), e # f, {e, f} = {c, d}
      PROVE  /\ (txn'[e].op = "maintain") # (txn'[f].op = "maintain")
             /\ txn'[e].t \in overlap'
  <2>1. txn'[f] = txn[f] /\ txn[f].t = txn'[e].t
    BY <1>4, OpeningFacts
  <2>2. txn'[e].op # "maintain" => txn[f].op = "maintain"
    BY <1>4, <2>1, OpeningFacts DEF Free
  <2>3. txn'[e].op = "maintain" => txn[f].op # "maintain"
    BY <1>4, <2>1, OpeningFacts
  <2>4. txn'[e].t \in overlap'
    BY <1>4, <2>1, OpeningFacts
  <2> QED BY <2>1, <2>2, <2>3, <2>4
<1> QED BY <1>0, <1>2, <1>3, <1>4, TxnStep

\* A hold remembers what it interrupted.
LEMMA HeldStep == ASSUME Inv, Moves PROVE HeldFits'
<1> SUFFICES ASSUME NEW t \in Tasks, task'[t] = "held" PROVE prior'[t] \in Holdable
  BY DEF HeldFits
<1>1. TaskMoves(t) /\ FactMoves(t) /\ TypeInv /\ (task[t] = "held" => prior[t] \in Holdable)
  BY DEF Moves, Inv, HeldFits
<1>2. task[t] = "held" /\ task'[t] = prior[t] => FALSE
  BY <1>1 DEF TypeInv, Holdable
<1> QED BY <1>1, <1>2 DEF TaskMoves

\* Tasks follow the dispatch of their work order.
LEMMA DispatchedStep == ASSUME Inv, Moves PROVE Dispatched'
<1>0. Dispatched /\ TypeInv
  BY DEF Inv
<1>1. ASSUME NEW t \in Tasks, exec'[t[1]] = "none" PROVE task'[t] = "none"
  <2>1. t[1] \in WorkOrders /\ ExecMoves(t[1])
    BY TaskShape DEF Moves
  <2> QED BY <1>0, <1>1, <2>1 DEF ExecMoves, Dispatched
<1>2. ASSUME NEW w \in WorkOrders, exec'[w] # "none" PROVE w \in attached'
  <2>1. ExecMoves(w) /\ OrderMoves
    BY DEF Moves
  <2> QED BY <1>0, <1>2, <2>1 DEF ExecMoves, OrderMoves, Dispatched
<1>3. ASSUME NEW w \in WorkOrders, po' \in {"none", "draft"} PROVE exec'[w] = "none"
  <2>1. ExecMoves(w) /\ OrderMoves
    BY DEF Moves
  <2>2. po \in {"none", "draft"}
    BY <1>3, <2>1 DEF OrderMoves
  <2>3. exec[w] = "none"
    BY <1>0, <2>2 DEF Dispatched
  <2> QED BY <1>3, <2>1, <2>3 DEF ExecMoves
<1> QED BY <1>1, <1>2, <1>3 DEF Dispatched

\* A task that is done stays done.
LEMMA DoneStays ==
    ASSUME Inv, Moves, NEW t \in Tasks, task[t] \in Done
    PROVE  task'[t] \in Done
  BY DEF Moves, TaskMoves, Done, Holdable, RunOps

\* A task moves on only in the order of its routing.
LEMMA RoutingStep == ASSUME Inv, Moves PROVE RoutingOrder'
<1> SUFFICES ASSUME NEW t \in Tasks, Standing(t)' \notin {"none", "dispatched"}
             PROVE  /\ \A s \in Tasks : s[1] = t[1] /\ s[2] < t[2] => task'[s] \in Done
                    /\ Standing(t)' # "setup" => setup'[t] = "completed"
  BY DEF RoutingOrder
<1>0. TaskMoves(t) /\ FactMoves(t) /\ TypeInv
  BY DEF Moves, Inv
<1>1. \/ Standing(t)' = Standing(t) /\ setup'[t] = setup[t]
      \/ Standing(t)' = Standing(t) /\ Standing(t) \in {"dispatched", "setup"}
      \/ Standing(t) = "dispatched" /\ Standing(t)' = "setup" /\ PredecessorsDone(t)
      \/ Standing(t) = "setup" /\ Standing(t)' = "ready" /\ setup'[t] = "completed"
      \/ /\ Standing(t) \in {"ready", "paused", "running", "completed"}
         /\ Standing(t)' \in {"ready", "running", "paused", "completed", "closed"}
         /\ setup'[t] = setup[t]
  <2>1. task[t] = "held" => prior[t] \in Holdable
    BY DEF Inv, HeldFits
  <2> QED BY <1>0, <2>1 DEF TaskMoves, FactMoves, Standing, Holdable, TypeInv
<1>2. PredecessorsDone(t) \/ Standing(t) \notin {"none", "dispatched"}
  BY <1>1
<1>3. \A s \in Tasks : s[1] = t[1] /\ s[2] < t[2] => task[s] \in Done
  BY <1>2 DEF PredecessorsDone, Inv, RoutingOrder
<1>4. Standing(t)' # "setup" => setup'[t] = "completed"
  BY <1>1 DEF Inv, RoutingOrder
<1> QED BY <1>3, <1>4, DoneStays

\* A work order that is done stays done, and a closed one closed.
LEMMA ExecStays ==
    ASSUME Inv, Moves, NEW w \in WorkOrders
    PROVE  /\ exec[w] \in Done => exec'[w] \in Done
           /\ exec[w] = "closed" => exec'[w] = "closed"
<1>1. ExecMoves(w)
  BY DEF Moves
<1>2. exec[w] = "closed" => \A c \in Clients : ~(txn[c].op = "complete" /\ txn[c].t[1] = w)
  <2> SUFFICES ASSUME exec[w] = "closed", NEW c \in Clients, txn[c].op = "complete",
                      txn[c].t[1] = w
               PROVE  FALSE
    OBVIOUS
  <2>1. txn[c].t \in Tasks /\ task[txn[c].t] = "running"
    BY TxnShape DEF Inv, ReadsHold, Reads
  <2> QED BY <2>1 DEF Inv, DoneMeansDone
<1> QED BY <1>1, <1>2 DEF ExecMoves, Done

\* What is done is done.
LEMMA DoneStep == ASSUME Inv, Moves PROVE DoneMeansDone'
<1>0. DoneMeansDone /\ TypeInv
  BY DEF Inv
<1>1. ASSUME NEW t \in Tasks
      PROVE  qty'[t] <= Plan /\ (task'[t] \in Done => qty'[t] = Plan)
  <2>1. TaskMoves(t) /\ FactMoves(t)
    BY DEF Moves
  <2> QED BY <1>0, <2>1 DEF TaskMoves, FactMoves, DoneMeansDone, Done, Holdable, TypeInv
<1>2. ASSUME NEW w \in WorkOrders, NEW t \in Tasks, t[1] = w
      PROVE  /\ exec'[w] \in Done => task'[t] \in Done
             /\ exec'[w] = "closed" => task'[t] = "closed"
  <2>1. ExecMoves(w) /\ TaskMoves(t)
    BY DEF Moves
  <2>2. task[t] = "closed" => task'[t] = "closed"
    BY <2>1 DEF TaskMoves, Holdable
  <2>3. task[t] \in Done => task'[t] \in Done
    BY DoneStays
  <2> QED BY <1>0, <1>2, <2>1, <2>2, <2>3 DEF ExecMoves, DoneMeansDone, Done
<1>3. ASSUME po' \in Done, NEW w \in attached' PROVE exec'[w] \in Done
  <2>1. OrderMoves
    BY DEF Moves
  <2>2. attached' = attached /\ w \in WorkOrders
    BY <1>0, <1>3, <2>1 DEF OrderMoves, Done, TypeInv
  <2>3. CASE po \in Done
    BY <1>0, <2>2, <2>3, ExecStays DEF DoneMeansDone
  <2>4. CASE po = "in_progress" /\ po' = "completed"
    <3>1. PICK c \in Clients : /\ txn[c].op = "complete" /\ txn[c].last
                               /\ LastTask(txn[c].t)
                                  => exec' = [exec EXCEPT ![txn[c].t[1]] = "completed"]
      BY <2>1, <2>4 DEF OrderMoves
    <3>2. LastOrder(txn[c].t)
      BY <3>1 DEF Inv, Counted
    <3>3. exec' = [exec EXCEPT ![txn[c].t[1]] = "completed"]
      BY <3>1, <3>2 DEF LastOrder
    <3>4. w # txn[c].t[1] => exec[w] \in Done
      BY <2>2, <3>2 DEF LastOrder
    <3> QED BY <1>0, <2>2, <3>3, <3>4 DEF Done, TypeInv
  <2> QED BY <1>3, <2>1, <2>3, <2>4 DEF OrderMoves, Done
<1>4. ASSUME po' = "closed", NEW w \in attached' PROVE exec'[w] = "closed"
  <2>1. OrderMoves
    BY DEF Moves
  <2>2. attached' = attached /\ w \in WorkOrders
    BY <1>0, <1>4, <2>1 DEF OrderMoves, TypeInv
  <2>3. exec[w] = "closed"
    BY <1>0, <1>4, <2>1, <2>2 DEF OrderMoves, DoneMeansDone
  <2> QED BY <2>2, <2>3, ExecStays
<1> QED BY <1>1, <1>2, <1>3, <1>4 DEF DoneMeansDone

\* Two transactions about a task, one of them a start of maintenance, are
\* remembered for good.
LEMMA OverlapStays ==
    ASSUME Inv, Next
    PROVE  /\ overlap \subseteq overlap' /\ (raced => raced')
           /\ \A c, d \in Clients :
                 txn[c].op = "maintain" /\ txn[d].op \in TxnOps \ {"maintain"}
                 /\ txn[c].t = txn[d].t => txn[c].t \in overlap'
<1>1. overlap \subseteq overlap' /\ (raced => raced')
  BY TxnStep, OpeningFacts DEF Inv
<1>2. \A c, d \in Clients :
         txn[c].op = "maintain" /\ txn[d].op \in TxnOps \ {"maintain"} /\ txn[c].t = txn[d].t
         => txn[c].t \in overlap
  BY DEF Inv, OneTxnPerRow, NoTxn
<1> QED BY <1>1, <1>2

\* An order once made stays bound as it is.
LEMMA LooseStays == ASSUME Next PROVE loose \subseteq loose'
<1>1. ASSUME NEW t \in Tasks, NEW b, create_order(t, b) PROVE loose \subseteq loose'
  BY <1>1 DEF create_order
<1>2. ASSUME NEW c \in Clients, NEW o, NEW t, NEW k, NEW l, Opens(c, o, t, k, l)
      PROVE  loose \subseteq loose'
  BY <1>2 DEF Opens, service
<1>3. CASE UNCHANGED loose
  BY <1>3
<1> QED BY <1>1, <1>2, <1>3
        DEF Next, create_production_order, release_production_order, close_production_order,
            attach_work_order, dispatch_work_order, close_work_order, start_setup,
            complete_setup, start_downtime, close_task, maintenance_step,
            generate_preventive_work, pause_task, hold_task, report_quantity, Misses, Refused,
            BeginComplete, BeginMaintain, BeginRelease, BeginRun, CommitRun, CommitRelease,
            CommitComplete, CommitMaintain, RollsBack, service

\* A start of a task that comes to run under maintenance overlapped it.
LEMMA WatchedStep == ASSUME Inv, Next, Moves PROVE Watched'
<1> SUFFICES ASSUME NEW c \in Clients
             PROVE  /\ WillRun(txn[c])' /\ maint'[txn'[c].t] \in Active
                          => txn'[c].t \in overlap'
                    /\ txn'[c].op = "maintain" /\ task'[txn'[c].t] = "running"
                          => txn'[c].t \in overlap' \cup loose'
  BY DEF Watched
<1>0. TypeInv /\ Watched
  BY DEF Inv
<1>1. CASE txn'[c] = NoTxn
  BY <1>1 DEF NoTxn, WillRun, RunOps
<1>2. CASE txn'[c] = txn[c] /\ txn[c] # NoTxn /\ txn[c].op # "maintain"
  <2>1. txn[c].t \in Tasks /\ txn[c].op \in TxnOps \ {"maintain"}
    BY <1>0, <1>2, TxnShape
  <2>2. WillRun(txn[c])' => WillRun(txn[c])
    BY <1>2, <2>1 DEF Moves, RowKept, WillRun
  <2>3. CASE maint[txn[c].t] \in Active
    BY <1>0, <1>2, <2>2, <2>3, OverlapStays DEF Watched
  <2>4. CASE \E d \in Clients : txn[d].op = "maintain" /\ txn[d].t = txn[c].t
    BY <1>2, <2>1, <2>4, OverlapStays
  <2> QED BY <1>2, <2>1, <2>3, <2>4 DEF Moves, FactMoves
<1>3. CASE txn'[c] = txn[c] /\ txn[c] # NoTxn /\ txn[c].op = "maintain"
  <2>1. txn[c].t \in Tasks
    BY <1>0, <1>3, TxnShape
  <2>2. CASE task[txn[c].t] = "running"
    BY <1>0, <1>3, <2>2, OverlapStays, LooseStays DEF Watched, WillRun, RunOps
  <2>3. CASE \E d \in Clients : txn[d].op \in RunOps \cup {"release-hold"} /\ txn[d].t = txn[c].t
    BY <1>3, <2>3, OverlapStays DEF TxnOps, RunOps
  <2>4. task'[txn[c].t] # "running" \/ task[txn[c].t] = "running"
        \/ \E d \in Clients : txn[d].op \in RunOps \cup {"release-hold"} /\ txn[d].t = txn[c].t
    BY <2>1 DEF Moves, TaskMoves
  <2> QED BY <1>3, <2>2, <2>3, <2>4 DEF WillRun, RunOps
<1>4. CASE Opening(c)
  BY <1>4, OpeningFacts DEF WillRun, facts, service
<1> QED BY <1>0, <1>1, <1>2, <1>3, <1>4, TxnStep, OpeningFacts

\* A task comes to run under maintenance only when their starts overlapped, or when the order
\* that starts is not bound to it.
LEMMA SerialStep ==
    ASSUME Inv, Next, Moves, NEW t \in Tasks, Unsafe(t)', ~Unsafe(t)
    PROVE  t \in overlap' \/ (t \in loose /\ task[t] = "running")
<1>0. task'[t] = "running" /\ maint'[t] \in Active BY DEF Unsafe
<1>1. \/ maint[t] \in Active
      \/ \E c \in Clients : txn[c].op = "maintain" /\ txn[c].t = t
  BY <1>0 DEF Moves, FactMoves
<1>2. \/ task[t] = "running"
      \/ \E c \in Clients : WillRun(txn[c]) /\ txn[c].t = t
  BY <1>0 DEF Moves, TaskMoves, WillRun, RunOps
<1>3. CASE task[t] = "running"
  BY <1>1, <1>3, OverlapStays DEF Inv, Unsafe, Watched
<1>4. CASE \E c \in Clients : WillRun(txn[c]) /\ txn[c].t = t
  <2>1. PICK c \in Clients : WillRun(txn[c]) /\ txn[c].t = t
    BY <1>4
  <2>2. txn[c].op \in TxnOps \ {"maintain"}
    BY <2>1 DEF WillRun, TxnOps, RunOps
  <2> QED BY <1>1, <2>1, <2>2, OverlapStays DEF Inv, Watched
<1> QED BY <1>2, <1>3, <1>4

\* A task, or a work order, that becomes done was completed by a transaction.
LEMMA DoneBy ==
    ASSUME Inv, Moves
    PROVE  /\ \A t \in Tasks : task[t] \notin Done /\ task'[t] \in Done =>
                 \E c \in Clients : txn[c].op = "complete" /\ txn[c].t = t
           /\ \A w \in WorkOrders : exec[w] \notin Done /\ exec'[w] \in Done =>
                 \E c \in Clients : txn[c].op = "complete" /\ txn[c].t[1] = w
<1>1. \A t \in Tasks : task[t] \notin Done /\ task'[t] \in Done =>
         \E c \in Clients : txn[c].op = "complete" /\ txn[c].t = t
  <2> SUFFICES ASSUME NEW t \in Tasks, task[t] \notin Done, task'[t] \in Done
               PROVE  \E c \in Clients : txn[c].op = "complete" /\ txn[c].t = t
    OBVIOUS
  <2>1. TaskMoves(t) /\ prior[t] \notin Done
    BY DEF Moves, Inv, TypeInv, Holdable, Done
  <2> QED BY <2>1 DEF TaskMoves, Done, Holdable
<1>2. \A w \in WorkOrders : exec[w] \notin Done /\ exec'[w] \in Done =>
         \E c \in Clients : txn[c].op = "complete" /\ txn[c].t[1] = w
  BY DEF Moves, ExecMoves, Done
<1> QED BY <1>1, <1>2

\* What a completion found of the other tasks and work orders stays true, and
\* stays false as long as no other completion is open.
LEMMA CountedStep == ASSUME Inv, Next, Moves PROVE Counted'
<1>0. TypeInv /\ Counted /\ Dispatched
  BY DEF Inv
<1>1. ASSUME NEW c \in Clients, txn'[c].op = "complete"
      PROVE  /\ txn'[c].last => LastOrder(txn[c].t)'
             /\ ~raced' /\ LastOrder(txn[c].t)' => txn'[c].last
  <2>1. CASE Opening(c)
    <3>1. txn'[c].last <=> LastOrder(txn'[c].t)
      BY <1>1, <2>1, OpeningFacts
    <3>2. task' = task /\ exec' = exec /\ attached' = attached
      BY <2>1, OpeningFacts DEF orders
    <3> QED BY <3>1, <3>2 DEF LastOrder, LastTask
  <2>2. CASE txn'[c] = txn[c]
    <3> DEFINE t == txn[c].t
    <3>1. txn[c].op = "complete" /\ t \in Tasks /\ t[1] \in WorkOrders /\ task[t] = "running"
      BY <1>0, <1>1, <2>2, TxnShape, TaskShape DEF Inv, ReadsHold, Reads
    <3>2. po \notin {"none", "draft"}
      BY <1>0, <3>1 DEF Dispatched
    <3>3. attached' = attached /\ attached \subseteq WorkOrders
      BY <1>0, <3>2 DEF Moves, OrderMoves, TypeInv
    <3>4. LastOrder(t) => LastOrder(t)'
      <4>1. LastTask(t) => LastTask(t)'
        BY <2>2, DoneStays DEF LastTask
      <4> QED BY <2>2, <3>3, <4>1, ExecStays DEF LastOrder
    <3>5. ASSUME ~raced', LastOrder(t)' PROVE LastOrder(t)
      <4>1. ~raced
        BY <3>5, OverlapStays
      <4>2. \A d \in Clients : txn[d].op = "complete" => d = c
        BY <1>0, <3>1, <4>1 DEF Counted
      <4>3. LastTask(t)
        <5> SUFFICES ASSUME NEW s \in Tasks, s[1] = t[1], s # t PROVE task[s] \in Done
          BY DEF LastTask
        <5>1. task'[s] \in Done
          BY <2>2, <3>5 DEF LastOrder, LastTask
        <5> QED BY <4>2, <5>1, DoneBy
      <4>4. \A w \in attached : w # t[1] => exec[w] \in Done
        <5> SUFFICES ASSUME NEW w \in attached, w # t[1] PROVE exec[w] \in Done
          OBVIOUS
        <5>1. exec'[w] \in Done /\ w \in WorkOrders
          BY <2>2, <3>3, <3>5 DEF LastOrder
        <5> QED BY <4>2, <5>1, DoneBy
      <4> QED BY <4>3, <4>4 DEF LastOrder
    <3> QED BY <1>0, <2>2, <3>1, <3>4, <3>5, OverlapStays DEF Counted
  <2>3. txn'[c] # NoTxn
    BY <1>1 DEF NoTxn
  <2> QED BY <1>0, <2>1, <2>2, <2>3, TxnStep, OpeningFacts
<1>2. ASSUME NEW c \in Clients, NEW d \in Clients, c # d, txn'[c].op = "complete",
             txn'[d].op = "complete"
      PROVE  raced'
  <2>1. NoTxn.op # "complete"
    BY DEF NoTxn
  <2>2. CASE Opening(c) \/ Opening(d)
    BY <1>2, <2>2, OpeningFacts
  <2>3. CASE txn'[c] = txn[c] /\ txn'[d] = txn[d]
    BY <1>0, <1>2, <2>3, OverlapStays DEF Counted
  <2> QED BY <1>0, <1>2, <2>1, <2>2, <2>3, TxnStep, OpeningFacts
<1> QED BY <1>1, <1>2 DEF Counted

\* The last completion completes the production order.
LEMMA FollowsStep == ASSUME Inv, Next, Moves PROVE OrderFollows'
<1> SUFFICES ASSUME po' = "in_progress", ~raced'
             PROVE  \E w \in attached' : exec'[w] \notin Done
  BY DEF OrderFollows
<1>0. TypeInv /\ ~raced
  BY OverlapStays DEF Inv
<1>1. OrderMoves
  BY DEF Moves
<1>2. attached' = attached
  BY <1>1 DEF OrderMoves
<1>3. CASE \E w \in attached : exec'[w] = "dispatched"
  BY <1>2, <1>3 DEF Done
<1>4. CASE po = "in_progress"
  <2>1. PICK w \in attached : exec[w] \notin Done
    BY <1>0, <1>4 DEF Inv, OrderFollows
  <2>2. CASE exec'[w] \in Done
    <3>1. w \in WorkOrders /\ ExecMoves(w)
      BY <1>0, <2>1 DEF Moves, TypeInv
    <3>2. PICK c \in Clients :
             /\ txn[c].op = "complete" /\ txn[c].t[1] = w /\ LastTask(txn[c].t)
             /\ \A v \in WorkOrders \ {w} : exec'[v] = exec[v]
             /\ txn[c].last /\ po = "in_progress" => po' = "completed"
      BY <2>1, <2>2, <3>1 DEF ExecMoves, Done
    <3>3. ~LastOrder(txn[c].t)
      BY <1>0, <1>4, <3>2 DEF Inv, Counted
    <3>4. PICK v \in attached : v # w /\ exec[v] \notin Done
      BY <3>2, <3>3 DEF LastOrder
    <3> QED BY <1>0, <1>2, <3>2, <3>4 DEF TypeInv
  <2> QED BY <1>2, <2>1, <2>2
<1> QED BY <1>1, <1>3, <1>4 DEF OrderMoves

\* The invariant is inductive.
LEMMA InvStep == Inv /\ [Next]_vars => Inv'
<1>1. ASSUME Inv, Next PROVE Inv'
  <2>1. Moves
    BY <1>1, StepMoves
  <2> QED BY <1>1, <2>1, TypeStep, KeyStep, ReadsStep, RowStep, HeldStep, DispatchedStep,
             RoutingStep, DoneStep, WatchedStep, CountedStep, FollowsStep DEF Inv
<1>2. ASSUME Inv, UNCHANGED vars PROVE Inv'
  <2> USE <1>2 DEF vars, Inv
  <2>1. TypeInv' /\ KeyCounts' /\ ReadsHold' /\ OneTxnPerRow' /\ HeldFits' /\ Dispatched'
    BY DEF TypeInv, KeyCounts, ReadsHold, Reads, OneTxnPerRow, HeldFits, Dispatched
  <2>2. RoutingOrder' /\ DoneMeansDone'
    BY DEF RoutingOrder, Standing, DoneMeansDone
  <2>3. Watched' /\ Counted' /\ OrderFollows'
    BY DEF Watched, WillRun, Counted, LastOrder, LastTask, OrderFollows
  <2> QED BY <2>1, <2>2, <2>3
<1> QED BY <1>1, <1>2

-----------------------------------------------------------------------------
(* Theorems *)

\* The invariant holds in every reachable state.
THEOREM ExecutionInvariant == Spec => []Inv
<1> QED BY InitInv, InvStep, PTL DEF Spec

\* A request repeated with its idempotency key takes effect once, however the
\* copies interleave with each other and with other requests: the unique keys
\* decide what the early lookup of _idempotent_get cannot.
THEOREM KeyAppliedOnce == Spec => []AppliedOnce
<1>1. Inv => AppliedOnce
  BY DEF Inv, KeyCounts, AppliedOnce
<1> QED BY <1>1, ExecutionInvariant, PTL

\* For every routing, no task is beyond dispatched before its predecessors are
\* completed, nor beyond setup without a completed setup, holds and releases
\* included (_validate_predecessors, hold_task, release_hold).
THEOREM RoutingKept == Spec => []RoutingOrder
<1>1. Inv => RoutingOrder
  BY DEF Inv
<1> QED BY <1>1, ExecutionInvariant, PTL

\* For every plan and number of work orders, a completed task has reported its
\* plan, a completed work order has completed tasks, a completed production
\* order completed work orders (_update_completion_aggregates), although a
\* completion reads the other work orders without locking them.
THEOREM CompletionSound == Spec => []DoneMeansDone
<1>1. Inv => DoneMeansDone
  BY DEF Inv
<1> QED BY <1>1, ExecutionInvariant, PTL

\* A task comes to run on equipment that is out of service only when the two starts were open
\* at once, and its equipment goes out of service under it only then or when the order is not
\* bound to it: no other interleaving of holds, downtimes, releases and maintenance steps leads
\* there (_require_maintenance_readiness, start_order).
THEOREM MaintenanceExcluded == Spec => SerialMaintenance
<1>1. Inv /\ [Next]_vars =>
         [\A t \in Tasks : Unsafe(t)' /\ ~Unsafe(t) =>
             t \in overlap' \/ (t \in loose /\ task[t] = "running")]_vars
  <2> SUFFICES ASSUME Inv, Next, NEW t \in Tasks, Unsafe(t)', ~Unsafe(t)
               PROVE  t \in overlap' \/ (t \in loose /\ task[t] = "running")
    OBVIOUS
  <2> QED BY SerialStep, StepMoves
<1> QED BY <1>1, ExecutionInvariant, PTL DEF Spec, SerialMaintenance

\* A production order is left in progress with every work order done only when
\* two completions were open at once (_update_completion_aggregates).
THEOREM OrderCompletes == Spec => []SerialOrderFollows
<1>1. Inv => SerialOrderFollows
  BY DEF Inv, OrderFollows, SerialOrderFollows
<1> QED BY <1>1, ExecutionInvariant, PTL

=============================================================================
