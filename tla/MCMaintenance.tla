---------------------------- MODULE MCMaintenance ----------------------------
(***************************************************************************)
(* Four instances in one run, told apart by focus, so that their states   *)
(* add up instead of multiplying:                                          *)
(*   masters  asset, codes and checklist revisions are registered;         *)
(*   work     they are there: two orders of one asset, with a spare part;  *)
(*   plan     the preventive plan over MaxTime hours, orders only created; *)
(*   tools    the tool.                                                    *)
(***************************************************************************)
EXTENDS Maintenance

CONSTANT Current   \* the effective revision where the masters are registered

VARIABLE focus

Registered ==
    /\ asset = "active" /\ codes = {"failure", "cause", "remedy"}
    /\ checklist = [r \in Revs |-> IF r = Current THEN "effective" ELSE "approved"]

MCInit ==
    /\ focus \in {"masters", "work", "plan", "tools"}
    /\ IF focus = "masters" THEN NothingRegistered ELSE Registered
    /\ NothingDone

MCNext ==
    /\ \/ focus = "masters" /\ MasterStep
       \/ focus = "work" /\ WorkStep
       \/ focus = "plan" /\ (PlanStep \/ \E r \in Revs : TransitionChecklist(r))
       \/ focus = "tools" /\ ToolStep
    /\ UNCHANGED focus

MCSpec == MCInit /\ [][MCNext]_<<maintenanceVars, focus>>
=============================================================================
