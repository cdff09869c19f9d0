------------------------------ MODULE Execution ------------------------------
(***************************************************************************)
(* Production execution: production orders, the work orders attached to    *)
(* them, the operation tasks a dispatch materialises, and the maintenance  *)
(* order that can take a task's equipment out of service, which may be     *)
(* bound to the task, to another task of the equipment, or to none.        *)
(*                                                                         *)
(* Every operation is one PostgreSQL transaction at READ COMMITTED that    *)
(* locks its own row first.  Where all it reads is under that lock, or can *)
(* no longer change once the check has passed, the transaction is one      *)
(* step; where it reads rows it does not lock (the maintenance order, the  *)
(* task a maintenance order is bound to, the other work orders) it is two, *)
(* Begin and Commit, and what it read may be stale when it commits.        *)
(*                                                                         *)
(* Idempotency keys are independent of each other, so one of them is       *)
(* tracked: requests with that key may be repeated, all others are new.    *)
(* Assignments, evidence texts, audit rows and tool readiness, which can   *)
(* only refuse, are left out; a refused request changes nothing.           *)
(***************************************************************************)
EXTENDS Naturals, FiniteSets

CONSTANTS
    WorkOrders,  \* released work orders of one product
    Ops,         \* number of routing operations of each work order
    Plan,        \* quantity of a work order, planned for each of its tasks
    Quantity,    \* quantity of the production order
    Clients,     \* transactions that can be open at once
    MaxHolds, MaxDowntimes, \* bounds: holds and downtimes
    Disturbed,   \* bound: the tasks with holds, downtimes, maintenance, repeated requests
    Repeatable   \* bound: the operations that are repeated

ASSUME ExecutionAssumption ==
    /\ Ops \in [WorkOrders -> Nat \ {0}]     \* ROUTING_OPERATIONS_MISSING
    /\ Plan \in Nat \ {0} /\ Quantity \in Nat \ {0}
    /\ MaxHolds \in Nat /\ MaxDowntimes \in Nat
    /\ Repeatable \subseteq {"start", "pause", "resume", "hold", "release-hold", "report"}

\* operation_tasks, by work order and routing sequence.
Tasks == UNION {{<<w, i>> : i \in 1..Ops[w]} : w \in WorkOrders}

VARIABLES
    po,        \* production_orders.status
    attached,  \* production_order_work_orders
    exec,      \* work_order_execution.status
    task,      \* operation_tasks.status
    prior,     \* prior_status of the open row of operation_holds
    setup,     \* operation_setups.status
    qty,       \* what operation_quantity_reports account for
    down,      \* the open row of operation_downtime, by number, 0 for none
    downs, holds, \* how many there have been, of all tasks
    maint,     \* maintenance_orders.status of the order for the task's equipment
    bound,     \* its operation_downtime_id, 0 for none
    loose,     \* tasks whose equipment has an order that is not bound to them
    txn,       \* the open two-step transactions
    key,       \* the tracked idempotency key
    overlap,   \* history: tasks whose start and maintenance start were open at once
    raced      \* history: two completions were open at once

orders == <<po, attached, exec>>
facts == <<prior, setup, qty, down, downs, holds>>
service == <<maint, bound, loose>>
history == <<overlap, raced>>
vars == <<po, attached, exec, task, prior, setup, qty, down, downs, holds, maint, bound,
          loose, txn, key, overlap, raced>>

NoTxn == [op |-> "none", t |-> <<>>, tracked |-> FALSE, last |-> FALSE]
NoKey == [op |-> "none", t |-> <<>>, missed |-> 0, stored |-> FALSE, effects |-> 0]

Init ==
    /\ po = "none" /\ attached = {}
    /\ exec = [w \in WorkOrders |-> "none"]
    /\ task = [t \in Tasks |-> "none"] /\ prior = [t \in Tasks |-> "none"]
    /\ setup = [t \in Tasks |-> "none"] /\ qty = [t \in Tasks |-> 0]
    /\ down = [t \in Tasks |-> 0] /\ downs = 0 /\ holds = 0
    /\ maint = [t \in Tasks |-> "none"] /\ bound = [t \in Tasks |-> 0]
    /\ loose = {}
    /\ txn = [c \in Clients |-> NoTxn]
    /\ key = NoKey
    /\ overlap = {} /\ raced = FALSE

-----------------------------------------------------------------------------
(* Locks and idempotency *)

\* Nobody holds the row of t: SELECT ... FOR UPDATE does not wait.
Free(t) == \A c \in Clients : txn[c].t = t => txn[c].op = "maintain"

\* A request with the tracked key arrives; _idempotent_get, which runs before
\* the row is locked, finds no response.
Misses(op, t) ==
    /\ t \in Disturbed /\ task[t] # "none" /\ ~key.stored
    /\ key = NoKey \/ (key.op = op /\ key.t = t)
    /\ key.missed < 2
    /\ key' = [key EXCEPT !.op = op, !.t = t, !.missed = @ + 1]
    /\ UNCHANGED <<orders, task, facts, service, txn, history>>

\* Mutant: no unique key, the first of two responses does not stop the second.
UnusedAny == TRUE

\* UNIQUE (operation_task_id, idempotency_key) of the history, the unique key
\* of execution_idempotency, and UNIQUE (report_id).
Unused == ~key.stored

\* The transaction runs with a new key, or as one of the requests that missed;
\* of those only the first can insert its rows.
Keyed(op, t, tracked) ==
    IF tracked
      THEN /\ key.op = op /\ key.t = t /\ key.missed > 0 /\ Unused
           /\ key' = [key EXCEPT !.missed = @ - 1, !.stored = TRUE, !.effects = @ + 1]
      ELSE UNCHANGED key

\* A repeated request meets the status, or the row, that the first one left.
Refused ==
    /\ key.missed > 0
    /\ key' = [key EXCEPT !.missed = @ - 1]
    /\ UNCHANGED <<orders, task, facts, service, txn, history>>

-----------------------------------------------------------------------------
(* Production orders and dispatch *)

create_production_order ==
    /\ po = "none" /\ po' = "draft"
    /\ UNCHANGED <<attached, exec, task, facts, service, txn, key, history>>

attach_work_order(w) ==
    /\ po = "draft" /\ w \notin attached
    /\ attached' = attached \cup {w}
    /\ UNCHANGED <<po, exec, task, facts, service, txn, key, history>>

release_production_order ==
    /\ po = "draft" /\ attached # {}
    /\ Plan * Cardinality(attached) = Quantity
    /\ po' = "released"
    /\ UNCHANGED <<attached, exec, task, facts, service, txn, key, history>>

dispatch_work_order(w) ==
    /\ w \in attached /\ po \in {"released", "in_progress"}
    /\ exec[w] = "none"
    /\ exec' = [exec EXCEPT ![w] = "dispatched"]
    /\ task' = [t \in Tasks |-> IF t[1] = w THEN "dispatched" ELSE task[t]]
    /\ po' = "in_progress"
    /\ UNCHANGED <<attached, facts, service, txn, key, history>>

-----------------------------------------------------------------------------
(* Operation tasks, in one step *)

Done == {"completed", "closed"}

\* Mutant: a predecessor that is running will do.
PredecessorsStarted(t) ==
    \A s \in Tasks : s[1] = t[1] /\ s[2] < t[2] => task[s] \in Done \cup {"running"}

\* _validate_predecessors and the database's predecessor guard.
PredecessorsDone(t) ==
    \A s \in Tasks : s[1] = t[1] /\ s[2] < t[2] => task[s] \in Done

Change(t, to) == task' = [task EXCEPT ![t] = to]

start_setup(t) ==
    /\ Free(t) /\ task[t] = "dispatched" /\ PredecessorsDone(t)
    /\ setup[t] = "none" /\ setup' = [setup EXCEPT ![t] = "in_progress"]
    /\ Change(t, "setup")
    /\ UNCHANGED <<orders, prior, qty, down, downs, holds, service, txn, key, history>>

complete_setup(t) ==
    /\ Free(t) /\ task[t] = "setup"
    /\ setup[t] = "in_progress" /\ setup' = [setup EXCEPT ![t] = "completed"]
    /\ Change(t, "ready")
    /\ UNCHANGED <<orders, prior, qty, down, downs, holds, service, txn, key, history>>

pause_task(t, tracked) ==
    /\ Free(t) /\ task[t] = "running"
    /\ Change(t, "paused") /\ Keyed("pause", t, tracked)
    /\ UNCHANGED <<orders, facts, service, txn, history>>

hold_task(t, tracked) ==
    /\ Free(t) /\ task[t] \in {"dispatched", "setup", "ready", "running", "paused"}
    /\ t \in Disturbed /\ holds < MaxHolds /\ holds' = holds + 1
    /\ prior' = [prior EXCEPT ![t] = task[t]]
    /\ Change(t, "held") /\ Keyed("hold", t, tracked)
    /\ UNCHANGED <<orders, setup, qty, down, downs, service, txn, history>>

\* report_quantity and the database's quantity guard.
Fits(q, n) == q + n <= Plan

report_quantity(t, n, tracked) ==
    /\ Free(t) /\ task[t] \in {"running", "paused"}
    /\ Fits(qty[t], n)
    /\ qty' = [qty EXCEPT ![t] = @ + n]
    /\ Keyed("report", t, tracked)
    /\ UNCHANGED <<orders, task, prior, setup, down, downs, holds, service, txn, history>>

start_downtime(t) ==
    /\ Free(t) /\ task[t] = "running" /\ down[t] = 0
    /\ t \in Disturbed /\ downs < MaxDowntimes /\ downs' = downs + 1
    /\ down' = [down EXCEPT ![t] = downs']
    /\ Change(t, "paused")
    /\ UNCHANGED <<orders, prior, setup, qty, holds, service, txn, key, history>>

close_task(t) ==
    /\ Free(t) /\ task[t] = "completed"
    /\ Change(t, "closed")
    /\ UNCHANGED <<orders, facts, service, txn, key, history>>

close_work_order(w) ==
    /\ exec[w] = "completed" /\ \A t \in Tasks : t[1] = w => task[t] = "closed"
    /\ exec' = [exec EXCEPT ![w] = "closed"]
    /\ UNCHANGED <<po, attached, task, facts, service, txn, key, history>>

\* Mutant: a completed work order counts as closed.
ClosedOrCompleted == Done

Closed == {"closed"}

close_production_order ==
    /\ po = "completed" /\ attached # {} /\ \A w \in attached : exec[w] \in Closed
    /\ po' = "closed"
    /\ UNCHANGED <<attached, exec, task, facts, service, txn, key, history>>

-----------------------------------------------------------------------------
(* Operation tasks, in two steps: what they read without a lock *)

Active == {"in_progress", "work_completed"}

\* Mutant: work that is completed and not verified no longer blocks.
EquipmentReadyUnverified(t) == maint[t] # "in_progress"

\* _require_maintenance_readiness and the database's maintenance guard, for
\* an order whose production_impact is equipment_unavailable.
EquipmentReady(t) == maint[t] \notin Active

MayResume(t) == down[t] = 0

\* The quantity reports account for the plan exactly.
Conserved(t) == qty[t] = Plan

\* The transactions that make a task run, and the status each starts from.
Runs(op, t) ==
    \/ op = "start" /\ task[t] = "ready"
    \/ op = "resume" /\ task[t] = "paused" /\ MayResume(t)
    \/ op = "downtime-end" /\ task[t] = "paused" /\ down[t] # 0

\* _update_completion_aggregates: t is the last task of the last work order
\* that had not completed, as far as committed rows show.
LastTask(t) == \A s \in Tasks : s[1] = t[1] /\ s # t => task[s] \in Done

\* Mutant: the other work orders have to be closed.
LastOrderClosed(t) ==
    LastTask(t) /\ \A w \in attached : w # t[1] => exec[w] = "closed"

LastOrder(t) ==
    LastTask(t) /\ \A w \in attached : w # t[1] => exec[w] \in Done

Opens(c, op, t, tracked, last) ==
    /\ txn[c] = NoTxn
    /\ tracked => key.op = op /\ key.t = t /\ key.missed > 0
    /\ txn' = [txn EXCEPT ![c] = [op |-> op, t |-> t, tracked |-> tracked, last |-> last]]
    /\ overlap' = overlap \cup {s \in {t} : \E d \in Clients : txn[d].t = s}
    /\ raced' = (raced \/ /\ op = "complete"
                          /\ \E d \in Clients : txn[d].op = "complete")
    /\ UNCHANGED <<orders, task, facts, service, key>>

BeginRun(c, op, t, tracked) ==
    /\ Free(t) /\ Runs(op, t) /\ EquipmentReady(t)
    /\ Opens(c, op, t, tracked, FALSE)

\* The held status is restored; only the database's guard asks for readiness.
BeginRelease(c, t, tracked) ==
    /\ Free(t) /\ task[t] = "held"
    /\ prior[t] = "running" => EquipmentReady(t)
    /\ Opens(c, "release-hold", t, tracked, FALSE)

BeginComplete(c, t) ==
    /\ Free(t) /\ task[t] = "running" /\ Conserved(t)
    /\ Opens(c, "complete", t, FALSE, LastOrder(t))

\* start_order reads the bound task without locking it, and no other task of the equipment:
\* an order that is not bound to t starts whatever t does.
MayMaintain(t) ==
    t \notin loose =>
        /\ task[t] # "running"
        /\ task[t] = "paused" => bound[t] # 0 /\ down[t] = bound[t]

BeginMaintain(c, t) ==
    /\ maint[t] = "approved" /\ MayMaintain(t)
    /\ \A d \in Clients : txn[d].t = t => txn[d].op # "maintain"
    /\ Opens(c, "maintain", t, FALSE, FALSE)

Ends(c) == txn' = [txn EXCEPT ![c] = NoTxn]

CommitRun(c) ==
    LET t == txn[c].t
    IN  /\ txn[c].op \in {"start", "resume", "downtime-end"}
        /\ Change(t, "running")
        /\ exec' = IF txn[c].op = "start" /\ exec[t[1]] = "dispatched"
                     THEN [exec EXCEPT ![t[1]] = "in_progress"] ELSE exec
        /\ down' = IF txn[c].op = "downtime-end" THEN [down EXCEPT ![t] = 0] ELSE down
        /\ Keyed(txn[c].op, t, txn[c].tracked) /\ Ends(c)
        /\ UNCHANGED <<po, attached, prior, setup, qty, downs, holds, service, history>>

CommitRelease(c) ==
    LET t == txn[c].t
    IN  /\ txn[c].op = "release-hold"
        /\ Change(t, prior[t]) /\ prior' = [prior EXCEPT ![t] = "none"]
        /\ Keyed("release-hold", t, txn[c].tracked) /\ Ends(c)
        /\ UNCHANGED <<orders, setup, qty, down, downs, holds, service, history>>

CommitComplete(c) ==
    LET t == txn[c].t
    IN  /\ txn[c].op = "complete"
        /\ Change(t, "completed")
        /\ exec' = IF LastTask(t) THEN [exec EXCEPT ![t[1]] = "completed"] ELSE exec
        /\ po' = IF txn[c].last /\ po = "in_progress" THEN "completed" ELSE po
        /\ Ends(c)
        /\ UNCHANGED <<attached, facts, service, key, history>>

CommitMaintain(c) ==
    /\ txn[c].op = "maintain"
    /\ maint' = [maint EXCEPT ![txn[c].t] = "in_progress"]
    /\ Ends(c)
    /\ UNCHANGED <<orders, task, facts, bound, loose, key, history>>

\* An exception, the audit envelope's included, rolls everything back.
RollsBack(c) ==
    /\ txn[c] # NoTxn /\ Ends(c)
    /\ UNCHANGED <<orders, task, facts, service, key, history>>

-----------------------------------------------------------------------------
(* The maintenance order of a task, where it does not read the task *)

\* operation_task_id and operation_downtime_id are optional: an order is bound to the task, to
\* the task and its open downtime, or to neither ("none": another task, or no task at all).
Bindings == {"none", "task", "downtime"}

create_order(t, binding) ==
    /\ t \in Disturbed /\ maint[t] = "none"
    /\ binding # "none" => task[t] # "none"
    /\ binding = "downtime" => down[t] # 0
    /\ maint' = [maint EXCEPT ![t] = "draft"]
    /\ bound' = [bound EXCEPT ![t] = IF binding = "downtime" THEN down[t] ELSE 0]
    /\ loose' = IF binding = "none" THEN loose \cup {t} ELSE loose
    /\ UNCHANGED <<orders, task, facts, txn, key, history>>

\* The order of a preventive plan has no task.
generate_preventive_work(t) == create_order(t, "none")

\* approve_order, complete_work and verify_order.
maintenance_step(t) ==
    /\ \/ maint[t] = "draft" /\ maint' = [maint EXCEPT ![t] = "approved"]
       \/ maint[t] = "in_progress" /\ maint' = [maint EXCEPT ![t] = "work_completed"]
       \/ maint[t] = "work_completed" /\ maint' = [maint EXCEPT ![t] = "verified"]
    /\ UNCHANGED <<orders, task, facts, bound, loose, txn, key, history>>

-----------------------------------------------------------------------------
Next ==
    \/ create_production_order \/ release_production_order \/ close_production_order
    \/ \E w \in WorkOrders :
          attach_work_order(w) \/ dispatch_work_order(w) \/ close_work_order(w)
    \/ \E t \in Tasks :
          \/ start_setup(t) \/ complete_setup(t) \/ start_downtime(t) \/ close_task(t)
          \/ maintenance_step(t) \/ generate_preventive_work(t)
          \/ \E b \in Bindings : create_order(t, b)
          \/ \E k \in BOOLEAN : \/ pause_task(t, k) \/ hold_task(t, k)
                                \/ \E n \in 1..Plan : report_quantity(t, n, k)
          \/ \E op \in Repeatable : Misses(op, t)
    \/ Refused
    \/ \E c \in Clients, t \in Tasks :
          \/ BeginComplete(c, t) \/ BeginMaintain(c, t)
          \/ \E k \in BOOLEAN :
                \/ BeginRelease(c, t, k)
                \/ \E op \in {"start", "resume", "downtime-end"} : BeginRun(c, op, t, k)
    \/ \E c \in Clients :
          \/ CommitRun(c) \/ CommitRelease(c) \/ CommitComplete(c) \/ CommitMaintain(c)
          \/ RollsBack(c)

Spec == Init /\ [][Next]_vars

-----------------------------------------------------------------------------
(* Properties *)

\* The status a held task will return to, or its status.
Standing(t) == IF task[t] = "held" THEN prior[t] ELSE task[t]

\* A request repeated with its idempotency key, or a report with its report_id,
\* takes effect once, even when both copies were read before either wrote and
\* the task has come back to the status the action starts from.
AppliedOnce == key.effects <= 1

\* Routing order holds through holds and releases: a task is beyond dispatched
\* only when every earlier operation of its work order is completed, and it is
\* beyond setup only with a completed setup record.
RoutingOrder ==
    \A t \in Tasks : Standing(t) \notin {"none", "dispatched"} =>
        /\ \A s \in Tasks : s[1] = t[1] /\ s[2] < t[2] => task[s] \in Done
        /\ Standing(t) # "setup" => setup[t] = "completed"

\* What an order says is done is done, through holds and overlapping reports and
\* completions: the quantities of a completed task, which never exceed the plan,
\* the tasks of a completed or closed work order, the work orders of a completed
\* or closed production order.
DoneMeansDone ==
    /\ \A t \in Tasks : qty[t] <= Plan /\ (task[t] \in Done => qty[t] = Plan)
    /\ \A w \in WorkOrders :
          /\ exec[w] \in Done => \A t \in Tasks : t[1] = w => task[t] \in Done
          /\ exec[w] = "closed" => \A t \in Tasks : t[1] = w => task[t] = "closed"
    /\ po \in Done => \A w \in attached : exec[w] \in Done
    /\ po = "closed" => \A w \in attached : exec[w] = "closed"

\* Equipment out of service under a running task
Unsafe(t) == task[t] = "running" /\ maint[t] \in Active

\* A task comes to run on equipment that is out of service, or its equipment is taken out of
\* service under it, only in two ways: a start of the task and a start of the maintenance
\* overlapped, or the order that starts is not bound to the task, which start_order then does
\* not look at.  The downtime binding, holds and their release, and the wait for verification
\* leave no gap, whatever the order is bound to.
SerialMaintenance ==
    [][\A t \in Tasks : Unsafe(t)' /\ ~Unsafe(t) =>
          t \in overlap' \/ (t \in loose /\ task[t] = "running")]_vars

\* Unless two completions overlapped, the production order is completed as soon
\* as the last of its work orders is.
SerialOrderFollows ==
    (\A c \in Clients : txn[c] = NoTxn) /\ po = "in_progress" /\ ~raced
        => \E w \in attached : exec[w] \notin Done

=============================================================================
