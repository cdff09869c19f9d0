------------------------------ MODULE Maintenance ------------------------------
(***************************************************************************)
(* Assets, checklists, maintenance orders, preventive plans, spare parts   *)
(* and tools of app/repositories/maintenance.py, with the triggers of      *)
(* core/phase6_schema.py.  A request locks the row it decides on, so it is *)
(* one step; the consume movement of a spare part reads the order without  *)
(* a lock (material_flow.record_movement) and is two.  How an order and    *)
(* the task of its equipment exclude each other is in module Execution.    *)
(***************************************************************************)
EXTENDS Integers, FiniteSets

CONSTANTS
    Orders,          \* order codes, with a request each
    Revs,            \* revisions of the checklist
    Items, Required, \* checklist items, those a work must pass
    People,          \* actors
    Moves,           \* consume movements for spare parts
    LifeLimit,       \* the tool's life_limit
    Interval,        \* interval_hours of the preventive plan
    MaxTime,         \* bound: hours that pass
    MaxUses,         \* bound: tool life events
    MaxCals          \* bound: calibrations

ASSUME MaintenanceAssumption ==
    /\ Required \subseteq Items
    /\ LifeLimit \in Nat \ {0} /\ Interval \in Nat \ {0}
    /\ MaxTime \in Nat /\ MaxUses \in Nat /\ MaxCals \in Nat

VARIABLES
    asset,      \* maintenance_assets.status
    codes,      \* kinds of maintenance codes registered
    checklist,  \* status of every revision
    request,    \* maintenance_requests.status
    order,      \* maintenance_orders, with their check results
    plan,       \* the preventive plan
    now,        \* hours
    made,       \* history: the hour a preventive order was generated, or -1
    tool,       \* the tool, its calibration and the task it is assigned to
    used, cals, \* tool life events and calibrations so far
    spare       \* consume movements: read, then recorded, then linked to the order

orderVars == <<asset, codes, checklist, request, order, plan, now, made>>
toolVars == <<tool, used, cals>>
maintenanceVars == <<orderVars, toolVars, spare>>

None == "none"
Impacts == {"none", "reduced_capacity", "equipment_unavailable"}
Active(o) == order[o].status \in {"in_progress", "work_completed"}
NoOrder == [status |-> None, impact |-> "none", rev |-> None,
            result |-> [i \in Items |-> None], completer |-> None, verifier |-> None]
NoPlan == [status |-> None, due |-> 0, rev |-> None, impact |-> "none"]
NoTool == [status |-> None, life |-> 0, calibrated |-> FALSE, assigned |-> FALSE]
NoSpare == [status |-> None, order |-> None, late |-> FALSE]

-----------------------------------------------------------------------------
(* Assets, codes and checklists *)

CreateAsset ==
    /\ asset = None /\ asset' = "active"
    /\ UNCHANGED <<codes, checklist, request, order, plan, now, made, toolVars, spare>>

CreateCode(k) ==
    /\ k \notin codes /\ codes' = codes \cup {k}
    /\ UNCHANGED <<asset, checklist, request, order, plan, now, made, toolVars, spare>>

CreateChecklist(r) ==
    /\ checklist[r] = None
    /\ checklist' = [checklist EXCEPT ![r] = "draft"]
    /\ UNCHANGED <<asset, codes, request, order, plan, now, made, toolVars, spare>>

\* transition_checklist: the effective revision is superseded by the new one
TransitionChecklist(r) ==
    /\ \/ /\ checklist[r] = "draft"
          /\ checklist' = [checklist EXCEPT ![r] = "approved"]
       \/ /\ checklist[r] = "approved"
          /\ checklist' = [s \in Revs |-> IF s = r THEN "effective"
                                          ELSE IF checklist[s] = "effective" THEN "superseded"
                                          ELSE checklist[s]]
    /\ UNCHANGED <<asset, codes, request, order, plan, now, made, toolVars, spare>>

-----------------------------------------------------------------------------
(* Requests and orders *)

CreateRequest(o) ==
    /\ asset # None /\ request[o] = None
    /\ request' = [request EXCEPT ![o] = "open"]
    /\ UNCHANGED <<asset, codes, checklist, order, plan, now, made, toolVars, spare>>

\* create_order: an open request, an effective checklist
CreateOrder(o, r, impact) ==
    /\ request[o] = "open" /\ checklist[r] = "effective"
    /\ request' = [request EXCEPT ![o] = "converted"]
    /\ order' = [order EXCEPT ![o] = [NoOrder EXCEPT !.status = "draft", !.rev = r,
                                                     !.impact = impact]]
    /\ UNCHANGED <<asset, codes, checklist, plan, now, made, toolVars, spare>>

\* The trigger every update of an order fires: what it binds and what was signed stay
Lifecycle == {<<"draft", "approved">>, <<"approved", "in_progress">>,
              <<"in_progress", "work_completed">>, <<"work_completed", "verified">>}

LifecycleGuard(old, new) ==
    /\ new.rev = old.rev /\ new.impact = old.impact
    /\ new.status = old.status \/ <<old.status, new.status>> \in Lifecycle
    /\ old.status \in {"work_completed", "verified"} => new.completer = old.completer
    /\ old.status = "verified" => new.verifier = old.verifier

Update(o, new) == LifecycleGuard(order[o], new) /\ order' = [order EXCEPT ![o] = new]

ApproveOrder(o) ==
    /\ order[o].status = "draft"
    /\ Update(o, [order[o] EXCEPT !.status = "approved"])
    /\ UNCHANGED <<asset, codes, checklist, request, plan, now, made, toolVars, spare>>

\* What starting an order of some impact makes of the asset.
Impacted(impact) ==
    CASE impact = "equipment_unavailable" -> "out_of_service"
      [] impact = "reduced_capacity" -> "degraded"
      [] impact = "none" -> asset

StartOrder(o) ==
    /\ order[o].status = "approved"
    /\ Update(o, [order[o] EXCEPT !.status = "in_progress"])
    /\ asset' = Impacted(order[o].impact)
    /\ UNCHANGED <<codes, checklist, request, plan, now, made, toolVars, spare>>

\* record_check_result: once per item, and a required item is not skipped
RecordCheckResult(o, i, v) ==
    /\ order[o].status = "in_progress"
    /\ i \in Required => v # "not_applicable"
    /\ order[o].result[i] = None
    /\ order' = [order EXCEPT ![o].result[i] = v]
    /\ UNCHANGED <<asset, codes, checklist, request, plan, now, made, toolVars, spare>>

\* complete_work, and the work_complete guard.  Mutant: any result counts.
Answered(o) == \A i \in Required : order[o].result[i] # None
Passed(o) == \A i \in Required : order[o].result[i] = "pass"

CompleteWork(o, w) ==
    /\ order[o].status = "in_progress" /\ Passed(o)
    /\ codes = {"failure", "cause", "remedy"}
    /\ Update(o, [order[o] EXCEPT !.status = "work_completed", !.completer = w])
    /\ UNCHANGED <<asset, codes, checklist, request, plan, now, made, toolVars, spare>>

Restored(v) == CASE v = "restored" -> "active"
                 [] v = "degraded" -> "degraded"
                 [] v = "not_restored" -> "out_of_service"

VerifyOrder(o, w, v) ==
    /\ order[o].status = "work_completed" /\ w # order[o].completer
    /\ Update(o, [order[o] EXCEPT !.status = "verified", !.verifier = w])
    /\ asset' = Restored(v)
    /\ UNCHANGED <<codes, checklist, request, plan, now, made, toolVars, spare>>

-----------------------------------------------------------------------------
(* Preventive maintenance *)

CreatePreventivePlan(r, d, impact) ==
    /\ asset # None /\ plan.status = None /\ checklist[r] = "effective"
    /\ plan' = [status |-> "draft", due |-> d, rev |-> r, impact |-> impact]
    /\ UNCHANGED <<asset, codes, checklist, request, order, now, made, toolVars, spare>>

EffectivePreventivePlan ==
    /\ plan.status = "draft"
    /\ plan' = [plan EXCEPT !.status = "effective"]
    /\ UNCHANGED <<asset, codes, checklist, request, order, now, made, toolVars, spare>>

\* The loop of generate_preventive_work: the first due time after now, on the grid.
\* Mutant: one interval is added, however late the plan is.
OneInterval(d) == d + Interval
NextDue(d) == CHOOSE e \in (now + 1)..(now + Interval) : (e - d) % Interval = 0

\* generate_preventive_work: a converted request and a draft order of the plan's
\* checklist, whatever that revision's status is by now
GeneratePreventiveWork(o) ==
    /\ plan.status = "effective" /\ plan.due <= now
    /\ request[o] = None
    /\ request' = [request EXCEPT ![o] = "converted"]
    /\ order' = [order EXCEPT ![o] = [NoOrder EXCEPT !.status = "draft", !.rev = plan.rev,
                                                     !.impact = plan.impact]]
    /\ made' = [made EXCEPT ![o] = now]
    /\ plan' = [plan EXCEPT !.due = NextDue(plan.due)]
    /\ UNCHANGED <<asset, codes, checklist, now, toolVars, spare>>

Tick ==
    /\ now < MaxTime /\ now' = now + 1
    /\ UNCHANGED <<asset, codes, checklist, request, order, plan, made, toolVars, spare>>

-----------------------------------------------------------------------------
(* Tools *)

CreateTool(u, expired) ==
    /\ asset # None /\ tool.status = None
    /\ tool' = [status |-> IF u >= LifeLimit THEN "over_life"
                           ELSE IF expired THEN "calibration_invalid" ELSE "active",
                life |-> u, calibrated |-> ~expired, assigned |-> FALSE]
    /\ UNCHANGED <<orderVars, used, cals, spare>>

AssignTool ==
    /\ tool.status # None /\ ~tool.assigned
    /\ tool' = [tool EXCEPT !.assigned = TRUE]
    /\ UNCHANGED <<orderVars, used, cals, spare>>

\* record_tool_life and the trigger it fires; a usage that names a task needs the
\* assignment
RecordToolLife(u, forTask) ==
    /\ tool.status # None /\ used < MaxUses
    /\ forTask => tool.assigned
    /\ used' = used + 1
    /\ tool' = [tool EXCEPT !.life = @ + u,
                            !.status = IF tool.life + u >= LifeLimit THEN "over_life" ELSE @]
    /\ UNCHANGED <<orderVars, cals, spare>>

\* What a calibration makes of the tool.  Mutant: a pass makes any tool active.
PassActivates(r) == IF r = "fail" THEN "calibration_invalid" ELSE "active"
Calibrated(r) ==
    IF r = "fail" THEN "calibration_invalid"
    ELSE IF tool.life >= LifeLimit THEN "over_life" ELSE "active"

RecordCalibration(r) ==
    /\ tool.status # None /\ cals < MaxCals
    /\ cals' = cals + 1
    /\ tool' = [tool EXCEPT !.status = Calibrated(r), !.calibrated = r = "pass"]
    /\ UNCHANGED <<orderVars, used, spare>>

-----------------------------------------------------------------------------
(* Spare parts: record_movement with a maintenance order, then record_spare_use *)

ReadOrder(m, o) ==
    /\ spare[m].status = None /\ Active(o)
    /\ spare' = [spare EXCEPT ![m] = [status |-> "read", order |-> o, late |-> FALSE]]
    /\ UNCHANGED <<orderVars, toolVars>>

RecordConsume(m) ==
    /\ spare[m].status = "read"
    /\ spare' = [spare EXCEPT ![m].status = "recorded", ![m].late = ~Active(spare[m].order)]
    /\ UNCHANGED <<orderVars, toolVars>>

Linkable(o) == Active(o)

RecordSpareUse(m) ==
    /\ spare[m].status = "recorded" /\ Linkable(spare[m].order)
    /\ spare' = [spare EXCEPT ![m].status = "linked"]
    /\ UNCHANGED <<orderVars, toolVars>>

-----------------------------------------------------------------------------

NothingRegistered == asset = None /\ codes = {} /\ checklist = [r \in Revs |-> None]

NothingDone ==
    /\ request = [o \in Orders |-> None] /\ order = [o \in Orders |-> NoOrder]
    /\ plan = NoPlan
    /\ now = 0 /\ made = [o \in Orders |-> -1]
    /\ tool = NoTool
    /\ used = 0 /\ cals = 0
    /\ spare = [m \in Moves |-> NoSpare]

MaintenanceInit == NothingRegistered /\ NothingDone

MasterStep ==
    \/ CreateAsset \/ \E k \in {"failure", "cause", "remedy"} : CreateCode(k)
    \/ \E r \in Revs : CreateChecklist(r) \/ TransitionChecklist(r)

WorkStep ==
    \/ \E o \in Orders :
         \/ CreateRequest(o) \/ ApproveOrder(o) \/ StartOrder(o)
         \/ \E r \in Revs, impact \in Impacts : CreateOrder(o, r, impact)
         \/ \E i \in Items, v \in {"pass", "fail", "not_applicable"} :
               RecordCheckResult(o, i, v)
         \/ \E w \in People :
              \/ CompleteWork(o, w)
              \/ \E v \in {"restored", "degraded", "not_restored"} : VerifyOrder(o, w, v)
         \/ \E m \in Moves : ReadOrder(m, o)
    \/ \E m \in Moves : RecordConsume(m) \/ RecordSpareUse(m)

PlanStep ==
    \/ \E r \in Revs, d \in 0..MaxTime, impact \in Impacts : CreatePreventivePlan(r, d, impact)
    \/ EffectivePreventivePlan \/ Tick
    \/ \E o \in Orders : GeneratePreventiveWork(o)

ToolStep ==
    \/ \E u \in 0..LifeLimit, x \in BOOLEAN : CreateTool(u, x) \/ RecordToolLife(u, x)
    \/ AssignTool \/ \E r \in {"pass", "fail"} : RecordCalibration(r)

MaintenanceNext == MasterStep \/ WorkStep \/ PlanStep \/ ToolStep

MaintenanceSpec == MaintenanceInit /\ [][MaintenanceNext]_maintenanceVars

-----------------------------------------------------------------------------
(* Properties *)

\* What an order says of its work is so: completed work has a pass for every required item,
\* it is verified by somebody else than who completed it, and a spare part that is linked to
\* an order was consumed while the order was active, although the movement reads the order
\* without a lock and may be recorded after it was verified.
WorkProven ==
    /\ \A o \in Orders :
          /\ order[o].status \in {"work_completed", "verified"}
               => \A i \in Required : order[o].result[i] = "pass"
          /\ order[o].status = "verified" => order[o].verifier # order[o].completer
    /\ \A m \in Moves : spare[m].status = "linked" => ~spare[m].late

\* A tool that is used up, or whose last calibration failed, is not active, in whatever
\* order usage and calibrations arrive: the triggers overwrite each other's status.
WornToolBlocked ==
    tool.status = "active" => tool.life < LifeLimit /\ tool.calibrated

\* However late work is generated, one period of the preventive plan gives one order:
\* catching up after missed periods neither repeats them nor counts the current one twice.
OneOrderPerPeriod ==
    \A o, p \in Orders :
       o # p /\ made[o] >= 0 /\ made[p] >= 0
          => (made[o] - plan.due) \div Interval # (made[p] - plan.due) \div Interval

=============================================================================
