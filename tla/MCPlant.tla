------------------------------- MODULE MCPlant -------------------------------
(***************************************************************************)
(* The fleet, the part flow, one agent's records and the AI dispatcher, for *)
(* TLC.  They share no state here: the variable focus says which of them   *)
(* moves, and under which of the bounds below.                             *)
(***************************************************************************)
EXTENDS Fleet, PartFlow, EdgeSync, Dispatcher, TLC

CONSTANTS t1, t2    \* the alarm types

VARIABLE focus

plantVars == <<fleetVars, partVars, edgeVars, dispatcherVars, focus>>

\* The head of AI_PROVIDER_CHAIN's default and one of the local providers
TwoProviders == <<"deepseek", "ollama">>

-----------------------------------------------------------------------------
(* Bounds of a focus, on the state a step leads to *)

Doing(op) == Cardinality({r \in Requests : request'[r].op = op})
Only(ops) == \A r \in Requests : request'[r].op \in ops \cup {Nil, "save"}
Alarms(S) == \A r \in Requests : request'[r].op = "heartbeat" => request'[r].alarms \in S
OfType(t) == \A r \in Requests : request'[r].type \in {Nil, t}
NoFault == \A n \in Nodes : kept'[n] # "fault"

Busy == Cardinality({r \in Requests : request'[r].op # Nil})

\* Status of a node: one request, one alert, heartbeats without alarms
NodesBound ==
    /\ Busy <= 1
    /\ Only({"heartbeat", "metric"}) /\ alerts'[2] = NoAlert /\ OfType(t1) /\ Alarms({{}})

\* One alarm from its heartbeat to the person who decides, with a heartbeat or a diagnosis
\* under way
HumanBound ==
    /\ NoFault /\ alerts'[2] = NoAlert /\ alerts'[1].source # "central-api" /\ OfType(t1)
    /\ \A r \in Requests : request'[r].status \in {Nil, "closed", "diagnosed"}
    /\ Alarms({{}, {t1}}) /\ Doing("heartbeat") <= 1 /\ Doing("diagnosis") <= 1
    /\ Doing("mark") + Doing("approve") + Doing("escalate") + Doing("report") <= 1
    /\ failed' = {}

\* Ids of the alerts of two heartbeats, with a reload
IdsBound ==
    /\ NoFault /\ alerts'[3] = NoAlert /\ Only({"heartbeat"}) /\ Alarms({{t1, t2}})

\* One request or reload at a time and a full list: heartbeats and an escalation
FullBound ==
    /\ NoFault /\ Busy <= (IF loading' = NotLoading THEN 1 ELSE 0)
    /\ Only({"heartbeat", "escalate", "report"}) /\ Alarms({{t1}, {t2}})
    /\ \A r \in Requests : request'[r].op = "escalate" => request'[r].type = t1

\* Claims: one part set back by a reload or one answer lost, one part cut; heartbeats of
\* milling; a second part for grinding is not worked on
ClaimsBound ==
    /\ part'[3].status \in {"none", "ready"}
    /\ Cardinality(torn') + Cardinality(unanswered') <= 1 /\ Cardinality(cut') <= 1
    /\ \A r \in Threads : thread'[r].op = "consume" => thread'[r].at # "grinding"

\* One request without an answer at a time, and none where the mode or the loss of the
\* database is the question
EdgeBound ==
    /\ Cardinality(late') <= IF mode = "primary" /\ ~renewed' THEN 1 ELSE 0
    /\ renewed' => mode = "primary"

-----------------------------------------------------------------------------

PlantInit ==
    /\ focus \in {"nodes", "human", "ids", "full", "turning", "claims", "edge", "ai"}
    /\ FleetInit
    /\ row \in {[i \in Parts |-> IF focus = "claims" /\ i <= ready
                    THEN [status |-> "ready", at |-> "milling", token |-> 0] ELSE NoPart] :
                 ready \in {1, 2}}
    /\ PartInit
    /\ EdgeInit /\ (focus # "edge" => mode = "primary" /\ beat = 0)
    /\ DispatcherInit /\ (focus # "ai" => settings = [p \in Providers |-> "usable"])

FleetMoves ==
    /\ \/ focus = "nodes" /\ (NodeStep \/ AlertStep) /\ NodesBound
       \/ focus = "human" /\ AlertStep /\ HumanBound
       \/ focus = "ids" /\ AlertStep /\ IdsBound
       \/ focus = "full" /\ AlertStep /\ FullBound
    /\ UNCHANGED <<partVars, edgeVars, dispatcherVars, focus>>

PartsMove ==
    /\ \/ focus = "turning" /\ (TurningStep \/ QueueStep)
       \/ focus = "claims" /\ (ClaimStep \/ QueueStep) /\ ClaimsBound
    /\ UNCHANGED <<fleetVars, edgeVars, dispatcherVars, focus>>

EdgeMoves ==
    /\ focus = "edge" /\ EdgeStep /\ EdgeBound
    /\ UNCHANGED <<fleetVars, partVars, dispatcherVars, focus>>

DispatcherMoves ==
    /\ focus = "ai" /\ DispatcherStep
    /\ UNCHANGED <<fleetVars, partVars, edgeVars, focus>>

PlantSpec == PlantInit /\ [][FleetMoves \/ PartsMove \/ EdgeMoves \/ DispatcherMoves]_plantVars

\* Handlers run the same code
Symmetry == Permutations(Requests) \cup Permutations(Threads) \cup Permutations(Inferences)
=============================================================================
