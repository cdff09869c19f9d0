--------------------------------- MODULE Fleet ---------------------------------
(***************************************************************************)
(* Workshop nodes and their alerts: store.py (heartbeats, metrics,         *)
(* isolation, alerts, escalation and the reload of the primary projection),*)
(* repositories/incidents.py, repositories/nodes.py and the alert routes   *)
(* of routers/compat.py.  Handlers run in threads.  They change an alert   *)
(* in the list first and save it afterwards; a save of its state waits for *)
(* a running reload from PostgreSQL, which replaces the list.  A request   *)
(* whose alert has left the list goes on with an object nobody else sees.  *)
(***************************************************************************)
EXTENDS Integers, FiniteSets, FiniteSetsExt

CONSTANTS
    Nodes, Types,   \* production nodes, alarm types
    Requests,       \* threads that serve requests
    AlertLimit,     \* alerts the list keeps (120 in the code)
    MaxAlerts       \* bound: alert ids

ASSUME FleetAssumption == AlertLimit \in Nat \ {0} /\ MaxAlerts \in Nat \ {0}

VARIABLES
    node,       \* nodes[n].status, Nil when unknown
    edge,       \* topology edge of a node: "healthy", "isolated", or Nil
    kept,       \* newest heartbeat_shadow row: status reported, or Nil
    fresh,      \* is it younger than heartbeat_timeout_seconds
    alerts,     \* in-process alerts by id
    saved,      \* rows of the alerts table
    escalated,  \* escalation events without a later decision on their node
    request,    \* what a thread is doing
    loading,    \* rows a reload has read
    lastId,     \* history: highest id given
    dropped,    \* history: ids a reload left to be given again
    failed      \* history: ids whose change could not be saved

listVars == <<alerts, saved, lastId, dropped, failed>>
alertVars == <<listVars, escalated, loading>>
nodeVars == <<node, edge, kept, fresh>>
fleetVars == <<nodeVars, alertVars, request>>

Nil == "nil"
Ids == 1..MaxAlerts
NoAlert == [node |-> Nil, type |-> Nil, status |-> Nil, by |-> Nil, source |-> Nil]
NotLoading == <<>>

\* The alert object of a request: in the list, or as it was when it left the list
Live(i) == [id |-> i, copy |-> NoAlert]
NoHold == Live(0)
Held(h) == IF h.copy = NoAlert THEN alerts[h.id] ELSE h.copy

\* new: created and to be inserted; held: to be changed; saves: changed and to be saved
Quiet == [op |-> Nil, node |-> Nil, type |-> Nil, by |-> Nil, status |-> Nil, alarms |-> {},
          todo |-> {}, missing |-> FALSE, new |-> NoHold, held |-> NoHold, saves |-> {}]

Open(a) == a # NoAlert /\ a.status \notin {"closed", "resolved"}
NeedsHuman(a) == Open(a) /\ a.by = "human-required"

-----------------------------------------------------------------------------
(* Node status *)

\* record_heartbeat.  A degraded or faulty report changes nothing.
BeatStatus(old, reported) ==
    CASE reported = "shutting_down" -> IF old = "isolated" THEN old ELSE "offline"
      [] reported = "online" /\ old \in {"degraded", "offline", Nil} -> "online"
      [] OTHER -> IF old = Nil THEN "online" ELSE old

\* record_metric under its lock
MetricStatus(old, cool) ==
    IF old \in {"isolated", "degraded"} /\ ~(old = "degraded" /\ cool) THEN old ELSE "online"

\* _restore_heartbeat_shadow_locked
RestoredStatus(n) ==
    IF ~fresh[n] THEN "offline" ELSE IF kept[n] = "running" THEN "online" ELSE "degraded"

-----------------------------------------------------------------------------
(* Alerts *)

Listed(list) == {i \in Ids : list[i] # NoAlert}
OfIssue(n, t) == {i \in Listed(alerts) : alerts[i].node = n /\ alerts[i].type = t}

\* create_alert: the largest id of the list, plus one.
\* Mutant: ids are counted, so a closed alert frees one.
CountedId == Cardinality({i \in Ids : Open(alerts[i])}) + 1
NextId == Max(Listed(alerts) \cup {0}) + 1

\* alerts[-120:] after an append takes the oldest alert: that of the least id, or one whose
\* id was given again
Trims ==
    IF Cardinality(Listed(alerts)) < AlertLimit THEN {{}}
    ELSE {{i} : i \in {j \in Listed(alerts) : j = Min(Listed(alerts)) \/ j \in dropped}}

\* Alerts of out leave the list; requests keep their objects
Parted(h, out) == IF h.copy = NoAlert /\ h.id \in out THEN [h EXCEPT !.copy = alerts[h.id]] ELSE h
Without(req, out) ==
    [r \in Requests |-> [req[r] EXCEPT !.new = Parted(@, out), !.held = Parted(@, out),
                                       !.saves = {Parted(h, out) : h \in @}]]

\* Alerts of a heartbeat that may be resolved when the alarm is gone.
\* Mutant: alerts that wait for a person are resolved too.
AnyHandler(a) == TRUE
Recoverable(a) == a.by # "human-required"

Cleared(n, alarms) ==
    {i \in Ids : /\ Open(alerts[i]) /\ alerts[i].node = n /\ alerts[i].source = "node-heartbeat"
                 /\ alerts[i].type \notin alarms /\ Recoverable(alerts[i])}

\* r changes the alerts of hit in the list and has to save them
SetState(r, hit, status, by, q) ==
    /\ alerts' = [i \in Ids |-> IF i \in hit THEN [alerts[i] EXCEPT !.status = status, !.by = by]
                                ELSE alerts[i]]
    /\ request' = [request EXCEPT ![r] = IF hit = {} THEN Quiet
                                         ELSE [q EXCEPT !.saves = {Live(i) : i \in hit}]]
    /\ UNCHANGED <<saved, escalated, loading, lastId, dropped, failed>>

\* create_alert: the alert is appended and has to be inserted
CreateAlert(r) ==
    LET q == request[r]
        a == [node |-> q.node, type |-> q.type, status |-> "open", by |-> q.by,
              source |-> IF q.op = "heartbeat" THEN "node-heartbeat" ELSE "central-api"] IN
    /\ q.missing /\ NextId \in Ids
    /\ \E out \in Trims :
          /\ alerts' = [i \in Ids |-> IF i = NextId THEN a
                                      ELSE IF i \in out THEN NoAlert ELSE alerts[i]]
          /\ request' = Without([request EXCEPT ![r].missing = FALSE, ![r].new = Live(NextId)], out)
    /\ lastId' = Max({lastId, NextId})
    /\ UNCHANGED <<nodeVars, saved, escalated, loading, dropped, failed>>

\* persist_alert; a failed write is logged and forgotten
SaveAlert(r, ok) ==
    LET q == request[r]
        i == q.new.id IN
    /\ q.new # NoHold
    /\ saved' = IF ok THEN [saved EXCEPT ![i] = Held(q.new)] ELSE saved
    /\ failed' = IF ok THEN failed \ {i} ELSE failed \cup {i}
    /\ request' = [request EXCEPT ![r].new = NoHold,
                                  ![r].held = IF q.op \in {"mark", "diagnosis"} THEN q.new ELSE NoHold]
    /\ UNCHANGED <<nodeVars, alerts, escalated, loading, lastId, dropped>>

\* persist_alert_state of one alert, which waits for a running reload: row and list get
\* status and handler.  A write that fails or finds no row ends the request.
SaveState(r, h, ok) ==
    LET q == request[r]
        State(list) == IF list[h.id] = NoAlert THEN list
                       ELSE [list EXCEPT ![h.id].status = Held(h).status, ![h.id].by = Held(h).by] IN
    /\ h \in q.saves /\ loading = NotLoading
    /\ IF ok /\ saved[h.id] # NoAlert
       THEN /\ saved' = State(saved) /\ alerts' = State(alerts) /\ failed' = failed \ {h.id}
            /\ request' = [request EXCEPT ![r] = IF q.op = "save" /\ q.saves = {h} THEN Quiet
                                                 ELSE [q EXCEPT !.saves = @ \ {h}]]
       ELSE /\ failed' = failed \cup {k.id : k \in {x \in q.saves : x.copy = NoAlert}}
            /\ request' = [request EXCEPT ![r] = Quiet]
            /\ UNCHANGED <<saved, alerts>>
    /\ UNCHANGED <<nodeVars, escalated, loading, lastId, dropped>>

-----------------------------------------------------------------------------
(* Heartbeats and metrics *)

\* record_heartbeat alone (PUT /nodes/{node_code}/heartbeat)
PlainHeartbeat(n, reported) ==
    /\ node' = [node EXCEPT ![n] = BeatStatus(@, reported)]
    /\ UNCHANGED <<edge, kept, fresh, alertVars, request>>

\* persist_heartbeat_shadow.  A run that belongs to another scenario or a failed write
\* refuses the request, which then changes nothing.
KeepHeartbeat(n, reported) ==
    kept' = [kept EXCEPT ![n] = reported] /\ fresh' = [fresh EXCEPT ![n] = TRUE]

\* record_node_heartbeat_v2 up to its alarms: the row is written first, then the status
BeginHeartbeat(r, n, reported, alarms) ==
    /\ request[r] = Quiet
    /\ KeepHeartbeat(n, reported)
    /\ node' = [node EXCEPT ![n] = BeatStatus(@, IF reported = "running" THEN "online"
                                                 ELSE "degraded")]
    /\ request' = [request EXCEPT ![r] = [Quiet EXCEPT !.op = "heartbeat", !.node = n,
                                                       !.alarms = alarms, !.todo = alarms]]
    /\ UNCHANGED <<edge, alertVars>>

Waits(q) == q.missing \/ q.new # NoHold \/ q.held # NoHold \/ q.saves # {}

\* Whether an alarm has an open alert is looked up without the lock that create_alert takes
LookUpAlarm(r, t) ==
    LET q == request[r] IN
    /\ q.op = "heartbeat" /\ ~Waits(q) /\ t \in q.todo
    /\ request' = [request EXCEPT ![r].todo = @ \ {t}, ![r].type = t,
                                  ![r].missing = ~\E i \in OfIssue(q.node, t) : Open(alerts[i])]
    /\ UNCHANGED <<nodeVars, alertVars>>

ResolveCleared(r) ==
    LET q == request[r] IN
    /\ q.op = "heartbeat" /\ ~Waits(q) /\ q.todo = {}
    /\ SetState(r, Cleared(q.node, q.alarms), "resolved", "node-heartbeat-recovery",
                [Quiet EXCEPT !.op = "save"])
    /\ UNCHANGED nodeVars

\* record_metric, with cool for a CPU below its limit.  A finding of the rules creates an
\* alert: "disk", "strained" (CPU and latency) or "hostile" (inbound traffic); one metric
\* with several findings is taken for several metrics.  The commands it issues are those of
\* CommandLoop.
Handler(finding) ==
    CASE finding = "disk" -> "script" [] finding = "strained" -> "ai" [] OTHER -> "system"

Metric(r, n, cool, finding, t) ==
    /\ request[r] = Quiet /\ (finding = "strained" => ~cool)
    /\ node' = [node EXCEPT ![n] = MetricStatus(@, cool)]
    /\ request' = IF finding = "none" THEN request
                  ELSE [request EXCEPT ![r] = [Quiet EXCEPT !.op = "metric", !.node = n, !.type = t,
                                                   !.by = Handler(finding), !.missing = TRUE]]
    /\ UNCHANGED <<edge, kept, fresh, alertVars>>

\* ... and, with its alert inserted, degrades a strained node and isolates a hostile one,
\* unless that is blocked or the node has been retired
MetricActs(r, contained) ==
    LET q == request[r]
        isolates == q.by = "system" /\ contained /\ node[q.node] # Nil IN
    /\ q.op = "metric" /\ ~Waits(q)
    /\ node' = [node EXCEPT ![q.node] = IF isolates THEN "isolated"
                                        ELSE IF q.by = "ai" /\ @ # Nil THEN "degraded" ELSE @]
    /\ edge' = [edge EXCEPT ![q.node] = IF isolates /\ @ # Nil THEN "isolated" ELSE @]
    /\ request' = [request EXCEPT ![r] = Quiet]
    /\ UNCHANGED <<kept, fresh, alertVars>>

-----------------------------------------------------------------------------
(* Isolation, after the governor has agreed *)

Isolate(n) ==
    /\ node[n] # Nil
    /\ node' = [node EXCEPT ![n] = "isolated"]
    /\ edge' = [edge EXCEPT ![n] = IF @ = Nil THEN Nil ELSE "isolated"]
    /\ UNCHANGED <<kept, fresh, alertVars, request>>

Restore(n) ==
    /\ node[n] # Nil
    /\ node' = [node EXCEPT ![n] = "online"]
    /\ edge' = [edge EXCEPT ![n] = IF @ = Nil THEN Nil ELSE "healthy"]
    /\ UNCHANGED <<kept, fresh, alertVars, request>>

\* retire_node, whose parts are those of RetireWorkshop in PartFlow: the open alerts of the
\* node are closed.  The heartbeat rows stay, so a reload brings the node back.
OpenOf(n) == {i \in Ids : Open(alerts[i]) /\ alerts[i].node = n}

Retire(r, n) ==
    /\ request[r] = Quiet /\ node[n] # Nil
    /\ node' = [node EXCEPT ![n] = Nil] /\ edge' = [edge EXCEPT ![n] = Nil]
    /\ SetState(r, OpenOf(n), "closed", "operator", [Quiet EXCEPT !.op = "save"])
    /\ UNCHANGED <<kept, fresh>>

-----------------------------------------------------------------------------
(* The alarm workflow *)

\* _find_alert: the newest alert of the issue, whatever its status.  Without one, by creates it.
TakeAlert(r, n, t, op, status, by) ==
    LET found == OfIssue(n, t) IN
    /\ request[r] = Quiet
    /\ request' = [request EXCEPT ![r] =
          [Quiet EXCEPT !.op = op, !.node = n, !.type = t, !.by = by, !.status = status,
                        !.missing = found = {},
                        !.held = IF found = {} THEN NoHold ELSE Live(Max(found))]]
    /\ UNCHANGED <<nodeVars, alertVars>>

\* confirm_alert, also of an alert that was resolved before; issue_actions closes it,
\* issue_decision observes or closes it; diagnose_by_issue_id asks the dispatcher
ConfirmAlert(r, n, t) == TakeAlert(r, n, t, "mark", "confirmed", "operator")
DecideIssue(r, n, t, status) ==
    OfIssue(n, t) # {} /\ TakeAlert(r, n, t, "mark", status, "operator")
BeginDiagnosis(r, n, t) == TakeAlert(r, n, t, "diagnosis", "diagnosed", "ai")

\* ... and marks the alert, whatever has happened to it since; a diagnosis keeps its handler
Mark(r) ==
    LET q == request[r]
        a == [Held(q.held) EXCEPT !.status = q.status,
                                  !.by = IF q.op = "mark" THEN "operator" ELSE @]
        h == IF q.held.copy = NoAlert THEN q.held ELSE [q.held EXCEPT !.copy = a] IN
    /\ q.held # NoHold
    /\ alerts' = IF h.copy = NoAlert THEN [alerts EXCEPT ![h.id] = a] ELSE alerts
    /\ request' = [request EXCEPT ![r].op = IF @ = "mark" THEN "save" ELSE @,
                                  ![r].held = NoHold, ![r].saves = {h}]
    /\ UNCHANGED <<nodeVars, saved, escalated, loading, lastId, dropped, failed>>

\* pending_escalations: the escalation is on the list while an alert of the issue waits
Pending(n, t) == <<n, t>> \in escalated /\ \E i \in OfIssue(n, t) : NeedsHuman(alerts[i])

Escalation(n, t) ==
    [Quiet EXCEPT !.op = "escalate", !.node = n, !.type = t, !.by = "human-required"]

\* A severe diagnosis without a pending escalation is escalated
FinishDiagnosis(r, severe) ==
    LET q == request[r] IN
    /\ q.op = "diagnosis" /\ ~Waits(q)
    /\ request' = [request EXCEPT ![r] = IF severe /\ ~Pending(q.node, q.type)
                                         THEN Escalation(q.node, q.type) ELSE Quiet]
    /\ UNCHANGED <<nodeVars, alertVars>>

AskEscalation(r, n, t) ==
    /\ request[r] = Quiet
    /\ request' = [request EXCEPT ![r] = Escalation(n, t)]
    /\ UNCHANGED <<nodeVars, alertVars>>

\* escalate_to_human: under the lock the newest open alert of the issue gets its handler, or
\* one is missing; the event is written when it is saved
Escalate(r) ==
    LET q == request[r]
        open == {i \in OfIssue(q.node, q.type) : Open(alerts[i])}
        i == Max(open) IN
    /\ q.op = "escalate" /\ ~Waits(q)
    /\ IF open = {}
       THEN /\ request' = [request EXCEPT ![r].op = "report", ![r].missing = TRUE]
            /\ UNCHANGED listVars
       ELSE SetState(r, {i}, alerts[i].status, "human-required", [q EXCEPT !.op = "report"])
    /\ UNCHANGED <<nodeVars, escalated, loading>>

ReportEscalation(r) ==
    LET q == request[r] IN
    /\ q.op = "report" /\ ~Waits(q)
    /\ escalated' = escalated \cup {<<q.node, q.type>>}
    /\ request' = [request EXCEPT ![r] = Quiet]
    /\ UNCHANGED <<nodeVars, listVars, loading>>

\* escalation_decision: either answer takes every escalation of the node off the list; an
\* approval closes the open alerts of the issue ...
DecideEscalation(r, n, t, approved) ==
    /\ request[r] = Quiet /\ <<n, t>> \in escalated
    /\ escalated' = {e \in escalated : e[1] # n}
    /\ request' = IF approved
                  THEN [request EXCEPT ![r] = [Quiet EXCEPT !.op = "approve", !.node = n, !.type = t]]
                  ELSE request
    /\ UNCHANGED <<nodeVars, listVars, loading>>

\* ... one after the other
CloseNext(r) ==
    LET q == request[r]
        open == {i \in OfIssue(q.node, q.type) : Open(alerts[i])} IN
    /\ q.op = "approve" /\ ~Waits(q)
    /\ SetState(r, IF open = {} THEN {} ELSE {Min(open)}, "closed", "operator", q)
    /\ UNCHANGED nodeVars

-----------------------------------------------------------------------------
(* refresh_primary_projection *)

\* The heartbeats are restored, then the alerts are read ...
BeginReload ==
    /\ loading = NotLoading
    /\ node' = [n \in Nodes |-> IF kept[n] # Nil THEN RestoredStatus(n)
                                ELSE IF node[n] # Nil /\ \A m \in Nodes : kept[m] = Nil
                                     THEN "offline" ELSE node[n]]
    /\ loading' = saved
    /\ UNCHANGED <<edge, kept, fresh, listVars, escalated, request>>

\* ... and the newest of them replace the list.  Ids above them will be given again.
Newer(i) == {j \in Listed(loading) : j >= i}
Loaded == [i \in Ids |-> IF Cardinality(Newer(i)) <= AlertLimit THEN loading[i] ELSE NoAlert]

FinishReload ==
    /\ loading # NotLoading
    /\ alerts' = Loaded /\ loading' = NotLoading
    /\ request' = Without(request, Ids)
    /\ dropped' = dropped \cup (Max(Listed(Loaded) \cup {0}) + 1)..lastId
    /\ failed' = {}
    /\ UNCHANGED <<nodeVars, saved, escalated, lastId>>

\* No heartbeat for heartbeat_timeout_seconds
Silence(n) ==
    /\ fresh[n] /\ fresh' = [fresh EXCEPT ![n] = FALSE]
    /\ UNCHANGED <<node, edge, kept, alertVars, request>>

-----------------------------------------------------------------------------

FleetInit ==
    /\ node = [n \in Nodes |-> "online"] /\ edge = [n \in Nodes |-> "healthy"]
    /\ kept = [n \in Nodes |-> Nil] /\ fresh = [n \in Nodes |-> FALSE]
    /\ alerts = [i \in Ids |-> NoAlert] /\ saved = alerts /\ escalated = {}
    /\ request = [r \in Requests |-> Quiet] /\ loading = NotLoading
    /\ lastId = 0 /\ dropped = {} /\ failed = {}

NodeStep ==
    \/ \E n \in Nodes :
          \/ Isolate(n) \/ Restore(n) \/ Silence(n)
          \/ \E st \in {"online", "degraded", "shutting_down"} : PlainHeartbeat(n, st)
          \/ \E r \in Requests :
                \/ Retire(r, n)
                \/ \E cool \in BOOLEAN, t \in Types,
                      finding \in {"none", "disk", "strained", "hostile"} :
                         Metric(r, n, cool, finding, t)
    \/ \E r \in Requests, x \in BOOLEAN : MetricActs(r, x)

AlertStep ==
    \/ BeginReload \/ FinishReload
    \/ \E r \in Requests :
          \/ \E n \in Nodes, t \in Types :
                \/ ConfirmAlert(r, n, t) \/ BeginDiagnosis(r, n, t) \/ AskEscalation(r, n, t)
                \/ \E st \in {"observing", "closed"} : DecideIssue(r, n, t, st)
                \/ \E x \in BOOLEAN : DecideEscalation(r, n, t, x)
          \/ \E n \in Nodes, st \in {"running", "fault"}, alarms \in SUBSET Types :
                BeginHeartbeat(r, n, st, alarms)
          \/ \E t \in Types : LookUpAlarm(r, t)
          \/ \E x \in BOOLEAN :
                \/ SaveAlert(r, x) \/ FinishDiagnosis(r, x)
                \/ \E h \in request[r].saves : SaveState(r, h, x)
          \/ CreateAlert(r) \/ ResolveCleared(r) \/ Mark(r)
          \/ Escalate(r) \/ ReportEscalation(r) \/ CloseNext(r)

FleetSpec == FleetInit /\ [][NodeStep \/ AlertStep]_fleetVars

-----------------------------------------------------------------------------
(* Properties *)

\* A change of alert i in the list is not yet saved
Unwritten(i) == \E r \in Requests : Live(i) \in {request[r].new} \cup request[r].saves

\* r saves alert i from an object that had left the list
WritesBack(r, i) ==
    \E h \in request[r].saves \ request'[r].saves : h.id = i /\ h.copy # NoAlert

\* An alert that waits for a person goes on waiting until a person acts on it: neither a
\* heartbeat without the alarm nor the end of a diagnosis takes it back.  Excepted are an
\* alert cut from a full list, one whose row a reload read without its last change, one that
\* is written back from an object that had left the list, and an id that was given again.
EscalationKept ==
    [][\A i \in Ids : NeedsHuman(alerts[i]) =>
          \/ NeedsHuman(alerts'[i]) \/ alerts'[i].by = "operator"
          \/ alerts'[i] = NoAlert /\ Cardinality(Listed(alerts)) >= AlertLimit
          \/ /\ loading # NotLoading /\ loading' = NotLoading
             /\ \/ loading[i] = NoAlert \/ Cardinality(Newer(i)) > AlertLimit
                \/ i \in failed \/ Unwritten(i)
          \/ \E r \in Requests : WritesBack(r, i)
          \/ i \in dropped']_fleetVars

\* A row of the alerts table keeps its node and type: no other alert gets its id, unless a
\* reload left the id to be given again.
AlertRowsKept ==
    [][\A i \in Ids : saved[i] # NoAlert =>
          \/ saved'[i].node = saved[i].node /\ saved'[i].type = saved[i].type
          \/ i \in dropped']_fleetVars

\* An isolated node is out until an operator restores or retires it.
IsolationHolds ==
    [][\A n \in Nodes : node[n] = "isolated" =>
          node'[n] = "isolated" \/ Restore(n) \/ \E r \in Requests : Retire(r, n)]_fleetVars
=============================================================================
