-------------------------------- MODULE MCStock --------------------------------
(***************************************************************************)
(* Four instances in one run, told apart by focus, so that their states   *)
(* add up instead of multiplying:                                          *)
(*   masters  nothing is registered yet: places, lots, gauges and plans;   *)
(*   race     all of them are there (they enable the other steps and       *)
(*            disable none): two open sessions, with an inspection up to   *)
(*            the release of one that passed;                              *)
(*   lineage  one session, one request more, to close a cycle of lots;     *)
(*   decide   one session and every decision on a failed inspection.       *)
(***************************************************************************)
EXTENDS Quality, TLC

CONSTANTS Current,  \* the effective revision where the masters are registered
          Extra     \* a request only lineage makes

VARIABLE focus

Registered ==
    /\ place = Places /\ lot = [l \in Lots |-> "active"] /\ gauge = Gauges
    /\ plan = [r \in Revs |-> IF r = Current THEN "effective" ELSE "superseded"]

MCInit ==
    /\ focus \in {"masters", "race", "lineage", "decide"}
    /\ IF focus = "masters" THEN NothingRegistered ELSE Registered
    /\ NothingRecorded /\ NothingInspected

Sessions == Cardinality({c \in Txns : tx[c] # Closed})
            + Cardinality({i \in Insps : opening[i] # NotOpening})

MCNext ==
    /\ \/ focus = "masters" /\ MasterStep
       \/ /\ focus = "race"
          /\ MaterialStep(Ids \ {Extra}) \/ \E i \in Insps : InspectStep(i)
          /\ Sessions' <= 2
       \/ focus = "lineage" /\ MaterialStep(Ids) /\ Sessions' <= 1 /\ case' = case
       \/ /\ focus = "decide"
          /\ MaterialStep(Ids \ {Extra}) \/ \E i \in Insps : InspectStep(i) \/ DispositionStep(i)
          /\ Sessions' <= 1 /\ case' = case
    /\ UNCHANGED focus

MCSpec == MCInit /\ [][MCNext]_<<stockVars, focus>>

Instances == Permutations(Places) \cup Permutations(Txns)
=============================================================================
