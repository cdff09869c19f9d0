----------------------------- MODULE Supervisor -----------------------------
(***************************************************************************)
(* The process supervisor: Manager starts the configured children in       *)
(* dependency order, one monitor goroutine per launched child marks it     *)
(* healthy and restarts it after a crash, and HTTP handlers stop, start    *)
(* and restart children.                                                   *)
(*                                                                         *)
(* Each section under proc.mu is one step.  Generation ties a monitor to   *)
(* the launch it belongs to, so a child, its context, its exited channel   *)
(* and its monitor are named by the pair of process and generation; 0 is   *)
(* nil.  Timers (bind window, probe interval, backoff, the 5 and 6 second  *)
(* waits) are abstracted to "some time later" or "gave up"; CrashCount and *)
(* Backoff, which only set the length of a sleep, are left out.            *)
(***************************************************************************)
EXTENDS Naturals, Sequences, FiniteSets

CONSTANTS
    Procs,       \* the configured processes
    Deps,        \* ProcessSpec.DependsOn, a sequence for each process
    Probed,      \* the processes whose health check is an HTTP probe
    Clients,     \* concurrent requests of the management API
    Retries,     \* Health.Retries
    MaxGen,      \* bound: generations of one process
    MaxFaults,   \* bound: crashes, failed probe series and failed launches
    MaxRequests, \* bound: management requests
    MaxTimeouts  \* bound: waits that give up

Main == "main"      \* the goroutine that runs StartAll
Nobody == "none"

ASSUME DepsAssumption ==
    /\ \A p \in Procs : Deps[p] \in Seq(Procs)
    /\ Probed \subseteq Procs /\ Nobody \notin Procs /\ Main \notin Clients
    /\ IsFiniteSet(Clients)

\* config.validate
ASSUME RetriesAssumption == Retries \in Nat \ {0}

ASSUME BoundsAssumption ==
    /\ MaxGen \in Nat \ {0} /\ MaxFaults \in Nat
    /\ MaxRequests \in Nat /\ MaxTimeouts \in Nat

Gens == 1..MaxGen
Actors == Clients \cup {Main}

VARIABLES
    state, gen, pid, cancel, exited, \* ManagedProcess; a pointer is a generation
    child,     \* the operating system process of each launch
    killed,    \* its context is cancelled
    closed,    \* its exited channel is closed
    mon,       \* its monitor
    actor,     \* StartAll and the management requests
    started,   \* StartAll's started
    down,      \* whether and how the supervisor process ended
    retired,   \* history: a Stop succeeded and no request started it since
    overlap,   \* history: two operations on the process overlapped
    faults, requests, timeouts

proc == <<state, gen, pid, cancel, exited>>
children == <<child, killed, closed>>
budget == <<faults, requests, timeouts>>
vars == <<state, gen, pid, cancel, exited, child, killed, closed, mon, actor, started,
          down, retired, overlap, faults, requests, timeouts>>

NoMonitor == [pc |-> "none", chan |-> 0, fails |-> 0, next |-> 0]

IdleActor == [pc |-> "idle", p |-> Nobody, g |-> 0, todo |-> {}, again |-> FALSE]

\* Register, then main calls StartAll before it serves the management API.
Init ==
    /\ state = [p \in Procs |-> "stopped"]
    /\ gen = [p \in Procs |-> 0] /\ pid = [p \in Procs |-> 0]
    /\ cancel = [p \in Procs |-> 0] /\ exited = [p \in Procs |-> 0]
    /\ child = [p \in Procs |-> [g \in Gens |-> "none"]]
    /\ killed = [p \in Procs |-> [g \in Gens |-> FALSE]]
    /\ closed = [p \in Procs |-> [g \in Gens |-> FALSE]]
    /\ mon = [p \in Procs |-> [g \in Gens |-> NoMonitor]]
    /\ actor = [a \in Actors |->
                   IF a = Main THEN [IdleActor EXCEPT !.pc = "select"] ELSE IdleActor]
    /\ started = {} /\ down = "no"
    /\ retired = {} /\ overlap = {}
    /\ faults = 0 /\ requests = 0 /\ timeouts = 0

Fault == faults < MaxFaults /\ faults' = faults + 1
GivesUp == timeouts < MaxTimeouts /\ timeouts' = timeouts + 1

-----------------------------------------------------------------------------
(* startOne *)

\* Its first locked section; the caller goes on with the new generation.
Begin(p) ==
    /\ gen[p] < MaxGen
    /\ gen' = [gen EXCEPT ![p] = @ + 1]
    /\ state' = [state EXCEPT ![p] = "starting"]
    /\ UNCHANGED <<pid, cancel, exited>>

\* The monitor to run for the launch g of p: the channel it will close is
\* read from the process, whoever set it.
NewMonitor(p, g) ==
    [NoMonitor EXCEPT !.pc = "fresh", !.chan = IF gen[p] = g THEN g ELSE exited[p]]

\* cmd.Start and the second locked section; after is the caller's monitor
\* table once startOne has returned.
Land(p, g, after) ==
    /\ child' = [child EXCEPT ![p][g] = "alive"]
    /\ mon' = [after EXCEPT ![p][g] = NewMonitor(p, g)]
    /\ IF gen[p] = g
       THEN /\ pid' = [pid EXCEPT ![p] = g]
            /\ state' = [state EXCEPT ![p] = "running"]
            /\ cancel' = [cancel EXCEPT ![p] = g]
            /\ exited' = [exited EXCEPT ![p] = g]
       ELSE UNCHANGED <<pid, state, cancel, exited>>
    /\ UNCHANGED <<gen, killed, closed, faults>>

\* cmd.Start fails.
Misfire(p, g, after) ==
    /\ Fault
    /\ state' = IF gen[p] = g THEN [state EXCEPT ![p] = "crashed"] ELSE state
    /\ mon' = after
    /\ UNCHANGED <<gen, pid, cancel, exited, children>>

-----------------------------------------------------------------------------
(* StartAll *)

Unmet(p, k) == Deps[p][k] \notin started \/ state[Deps[p][k]] # "healthy"

Ready == {p \in Procs \ started : \A k \in DOMAIN Deps[p] : ~Unmet(p, k)}

\* The first unmet dependency of some process is launched but not healthy.
WaitingForHealth ==
    \E p \in Procs \ started : \E k \in DOMAIN Deps[p] :
        /\ Unmet(p, k) /\ \A j \in 1..(k - 1) : ~Unmet(p, j)
        /\ Deps[p][k] \in started

\* One round picks what is ready; without anything to wait for, or after the
\* deadline, StartAll returns an error and main goes on.
SelectReady ==
    /\ actor[Main].pc = "select"
    /\ \/ /\ started # Procs /\ Ready # {}
          /\ actor' = [actor EXCEPT ![Main].pc = "launch", ![Main].todo = Ready]
          /\ UNCHANGED timeouts
       \/ /\ started # Procs /\ Ready = {} /\ WaitingForHealth /\ GivesUp
          /\ actor' = [actor EXCEPT ![Main].pc = "done"]
       \/ /\ started = Procs \/ (Ready = {} /\ ~WaitingForHealth)
          /\ actor' = [actor EXCEPT ![Main].pc = "done"]
          /\ UNCHANGED timeouts
    /\ UNCHANGED <<proc, children, mon, started, down, retired, faults, requests>>

MainBegins(p) ==
    /\ actor[Main].pc = "launch" /\ p \in actor[Main].todo
    /\ Begin(p)
    /\ actor' = [actor EXCEPT ![Main].pc = "launching", ![Main].p = p,
                              ![Main].g = gen[p] + 1]
    /\ UNCHANGED <<children, mon, started, down, retired, budget>>

MainLands ==
    LET a == actor[Main]
        rest == a.todo \ {a.p}
    IN  /\ a.pc = "launching"
        /\ \/ /\ Land(a.p, a.g, mon)
              /\ started' = started \cup {a.p}
              /\ actor' = [actor EXCEPT ![Main] = [IdleActor EXCEPT
                     !.pc = IF rest = {} THEN "select" ELSE "launch", !.todo = rest]]
           \/ /\ Misfire(a.p, a.g, mon)
              /\ actor' = [actor EXCEPT ![Main] = [IdleActor EXCEPT !.pc = "done"]]
              /\ UNCHANGED started
        /\ UNCHANGED <<down, retired, requests, timeouts>>

-----------------------------------------------------------------------------
(* Management requests *)

Accepts(c) ==
    /\ actor[c].pc = "idle" /\ actor[Main].pc = "done"
    /\ requests < MaxRequests /\ requests' = requests + 1

Goes(c, rec) == actor' = [actor EXCEPT ![c] = rec]

\* Stop, or the Stop of a Restart (again): the first locked section and
\* cancel().  g remembers the exited channel to wait for.
StopBegins(c, p, again) ==
    /\ Accepts(c) /\ gen[p] < MaxGen
    /\ gen' = [gen EXCEPT ![p] = @ + 1]
    /\ state' = [state EXCEPT ![p] = "stopping"]
    /\ cancel' = [cancel EXCEPT ![p] = 0]
    /\ killed' = IF cancel[p] = 0 THEN killed ELSE [killed EXCEPT ![p][cancel[p]] = TRUE]
    /\ Goes(c, [IdleActor EXCEPT !.pc = "waiting", !.p = p, !.g = exited[p], !.again = again])
    /\ UNCHANGED <<pid, exited, child, closed, mon, started, down, retired, faults,
                   timeouts>>

\* The wait for the exited channel is over: there is none, or it is closed.
ChannelDone(p, g) == g # 0 => closed[p][g]

StopEnds(c) ==
    LET a == actor[c]
    IN  /\ a.pc = "waiting" /\ ChannelDone(a.p, a.g)
        /\ pid' = [pid EXCEPT ![a.p] = 0]
        /\ state' = [state EXCEPT ![a.p] = "stopped"]
        /\ exited' = [exited EXCEPT ![a.p] = 0]
        /\ retired' = retired \cup {a.p}
        /\ Goes(c, IF a.again THEN [IdleActor EXCEPT !.pc = "check", !.p = a.p]
                   ELSE IdleActor)
        /\ UNCHANGED <<gen, cancel, children, mon, started, down, budget>>

\* The 6 second wait runs out; the process stays in "stopping".
StopTimesOut(c) ==
    /\ actor[c].pc = "waiting" /\ ~ChannelDone(actor[c].p, actor[c].g)
    /\ GivesUp
    /\ Goes(c, IdleActor)
    /\ UNCHANGED <<proc, children, mon, started, down, retired, faults, requests>>

StartRequest(c, p) ==
    /\ Accepts(c)
    /\ Goes(c, [IdleActor EXCEPT !.pc = "check", !.p = p])
    /\ UNCHANGED <<proc, children, mon, started, down, retired, faults, timeouts>>

\* Start: the state first, then each dependency, each under its own lock.
CheckState(c) ==
    LET a == actor[c]
    IN  /\ a.pc = "check"
        /\ Goes(c, IF state[a.p] # "stopped" THEN IdleActor
                   ELSE [a EXCEPT !.pc = "deps",
                            !.todo = {Deps[a.p][k] : k \in DOMAIN Deps[a.p]}])
        /\ UNCHANGED <<proc, children, mon, started, down, retired, budget>>

CheckDependency(c, d) ==
    /\ actor[c].pc = "deps" /\ d \in actor[c].todo
    /\ Goes(c, IF state[d] # "healthy" THEN IdleActor
               ELSE [actor[c] EXCEPT !.todo = @ \ {d}])
    /\ UNCHANGED <<proc, children, mon, started, down, retired, budget>>

StartBegins(c) ==
    LET a == actor[c]
    IN  /\ a.pc = "deps" /\ a.todo = {}
        /\ Begin(a.p)
        /\ retired' = retired \ {a.p}
        /\ Goes(c, [a EXCEPT !.pc = "launching", !.g = gen[a.p] + 1])
        /\ UNCHANGED <<children, mon, started, down, budget>>

StartLands(c) ==
    LET a == actor[c]
    IN  /\ c # Main /\ a.pc = "launching"
        /\ Land(a.p, a.g, mon) \/ Misfire(a.p, a.g, mon)
        /\ Goes(c, IdleActor)
        /\ UNCHANGED <<started, down, retired, requests, timeouts>>

\* StopAll visits the processes one by one and waits for nobody; the handler
\* then ends the supervisor.
StopAllBegins(c) ==
    /\ Accepts(c)
    /\ Goes(c, [IdleActor EXCEPT !.pc = "stopall", !.todo = Procs])
    /\ UNCHANGED <<proc, children, mon, started, down, retired, faults, timeouts>>

StopAllVisits(c, p) ==
    /\ actor[c].pc = "stopall" /\ p \in actor[c].todo /\ gen[p] < MaxGen
    /\ gen' = [gen EXCEPT ![p] = @ + 1]
    /\ cancel' = [cancel EXCEPT ![p] = 0]
    /\ state' = [state EXCEPT ![p] = "stopped"]
    /\ killed' = IF cancel[p] = 0 THEN killed ELSE [killed EXCEPT ![p][cancel[p]] = TRUE]
    /\ Goes(c, [actor[c] EXCEPT !.todo = @ \ {p}])
    /\ UNCHANGED <<pid, exited, child, closed, mon, started, down, retired, budget>>

Exit(c) ==
    /\ actor[c].pc = "stopall" /\ actor[c].todo = {}
    /\ down' = "exit"
    /\ Goes(c, IdleActor)
    /\ UNCHANGED <<proc, children, mon, started, retired, budget>>

-----------------------------------------------------------------------------
(* monitor *)

Moves(p, g, pc) == mon' = [mon EXCEPT ![p][g].pc = pc]

\* Mutant: markHealthy does not look at the generation.
MayMarkAny(p, g) == state[p] # "stopped"

MayMark(p, g) == gen[p] = g /\ state[p] # "stopped"

MarkHealthy(p, g) ==
    state' = IF MayMark(p, g) THEN [state EXCEPT ![p] = "healthy"] ELSE state

\* A process without a probe is healthy at once; the others get a bind window.
MonitorStarts(p, g) ==
    /\ mon[p][g].pc = "fresh"
    /\ Moves(p, g, "watch")
    /\ IF p \in Probed THEN UNCHANGED state ELSE MarkHealthy(p, g)
    /\ UNCHANGED <<gen, pid, cancel, exited, children, actor, started, down, retired,
                   budget>>

ProbeSucceeds(p, g) ==
    /\ p \in Probed /\ mon[p][g].pc = "watch" /\ child[p][g] = "alive"
    /\ MarkHealthy(p, g)
    /\ mon' = [mon EXCEPT ![p][g].fails = 0]
    /\ UNCHANGED <<gen, pid, cancel, exited, children, actor, started, down, retired,
                   budget>>

\* restartProcess up to its sleep.
MayRecord(p, g) == gen[p] = g /\ state[p] # "stopped"

RecordCrash(p, g) ==
    /\ state' = IF MayRecord(p, g) THEN [state EXCEPT ![p] = "crashed"] ELSE state
    /\ Moves(p, g, IF MayRecord(p, g) THEN "backoff" ELSE "closing")
    /\ UNCHANGED <<gen, pid, cancel, exited>>

SeesExit(p, g) ==
    /\ mon[p][g].pc \in {"watch", "killing"} /\ child[p][g] = "exited"
    /\ RecordCrash(p, g)
    /\ UNCHANGED <<children, actor, started, down, retired, budget>>

SeesCancel(p, g) ==
    /\ mon[p][g].pc = "watch" /\ killed[p][g]
    /\ Moves(p, g, "draining")
    /\ UNCHANGED <<proc, children, actor, started, down, retired, budget>>

\* Mutant: the child is left alive.
ProbeFailsKeepsChild(p, g) ==
    /\ p \in Probed /\ mon[p][g].pc = "watch" /\ Fault
    /\ RecordCrash(p, g)
    /\ UNCHANGED <<children, actor, started, down, retired, requests, timeouts>>

\* The last failed probe of a series kills the child, if it is still the
\* current one; the earlier ones only count.
ProbeFails(p, g) ==
    /\ p \in Probed /\ mon[p][g].pc = "watch"
    /\ IF mon[p][g].fails + 1 < Retries
       THEN /\ mon' = [mon EXCEPT ![p][g].fails = @ + 1]
            /\ UNCHANGED <<proc, killed, faults>>
       ELSE /\ Fault
            /\ \/ /\ gen[p] = g /\ cancel[p] # 0
                  /\ killed' = [killed EXCEPT ![p][cancel[p]] = TRUE]
                  /\ Moves(p, g, "killing")
                  /\ UNCHANGED proc
               \/ /\ ~(gen[p] = g /\ cancel[p] # 0)
                  /\ RecordCrash(p, g)
                  /\ UNCHANGED killed
    /\ UNCHANGED <<child, closed, actor, started, down, retired, requests, timeouts>>

\* Mutant: the monitor waits for a launch that somebody else should make.
StillRunning(p, g) == gen[p] = g /\ state[p] = "running"

StillCurrent(p, g) == gen[p] = g /\ state[p] = "crashed"

\* The backoff sleep is over.
WakesUp(p, g) ==
    /\ mon[p][g].pc = "backoff"
    /\ Moves(p, g, IF StillCurrent(p, g) THEN "relaunch" ELSE "closing")
    /\ UNCHANGED <<proc, children, actor, started, down, retired, budget>>

RestartBegins(p, g) ==
    /\ mon[p][g].pc = "relaunch"
    /\ Begin(p)
    /\ mon' = [mon EXCEPT ![p][g].pc = "launching", ![p][g].next = gen[p] + 1]
    /\ UNCHANGED <<children, actor, started, down, retired, budget>>

RestartLands(p, g) ==
    LET over == [mon EXCEPT ![p][g].pc = "closing"]
    IN  /\ mon[p][g].pc = "launching"
        /\ Land(p, mon[p][g].next, over) \/ Misfire(p, mon[p][g].next, over)
        /\ UNCHANGED <<actor, started, down, retired, requests, timeouts>>

\* waitForExit: the child is gone, or 5 seconds have passed.
Drained(p, g) ==
    /\ mon[p][g].pc = "draining"
    /\ \/ child[p][g] = "exited" /\ UNCHANGED timeouts
       \/ child[p][g] = "alive" /\ GivesUp
    /\ Moves(p, g, "closing")
    /\ UNCHANGED <<proc, children, actor, started, down, retired, faults, requests>>

\* Mutant: a path out of the monitor that does not close the channel.
ClosesNothing(p, g) ==
    /\ mon[p][g].pc = "closing"
    /\ Moves(p, g, "over")
    /\ UNCHANGED <<proc, children, actor, started, down, retired, budget>>

\* The deferred close(exited); closing nil or a closed channel panics and
\* takes the supervisor down.
Closes(p, g) ==
    LET ch == mon[p][g].chan
    IN  /\ mon[p][g].pc = "closing"
        /\ Moves(p, g, "over")
        /\ IF ch = 0 \/ closed[p][ch]
           THEN down' = "panic" /\ UNCHANGED closed
           ELSE closed' = [closed EXCEPT ![p][ch] = TRUE] /\ UNCHANGED down
        /\ UNCHANGED <<proc, child, killed, actor, started, retired, budget>>

-----------------------------------------------------------------------------
(* The children *)

\* A child crashes, or is killed through its context.
ChildExits(p, g) ==
    /\ child[p][g] = "alive"
    /\ IF killed[p][g] THEN UNCHANGED faults ELSE Fault
    /\ child' = [child EXCEPT ![p][g] = "exited"]
    /\ UNCHANGED <<proc, killed, closed, mon, actor, started, down, retired, requests,
                   timeouts>>

-----------------------------------------------------------------------------
\* Two operations work on p at once: a request between its first and its last
\* step, a launch of StartAll, a restart from its last check to its end.
Overlapping(p) ==
    Cardinality({c \in Clients : actor[c].p = p \/ p \in actor[c].todo})
    + Cardinality({a \in {Main} : actor[a].pc = "launching" /\ actor[a].p = p})
    + Cardinality({g \in Gens : mon[p][g].pc \in {"relaunch", "launching"}}) > 1

\* A step of the running supervisor; overlap is recorded as the steps go by.
Step(A) ==
    /\ down = "no" /\ A
    /\ overlap' = overlap \cup {p \in Procs : Overlapping(p)'}

StartAll == SelectReady \/ MainLands \/ \E p \in Procs : MainBegins(p)

Requests(c) ==
    \/ StopAllBegins(c)
    \/ \E p \in Procs : StartRequest(c, p) \/ \E again \in BOOLEAN : StopBegins(c, p, again)

Handling(c) ==
    \/ StopEnds(c) \/ CheckState(c) \/ StartBegins(c) \/ StartLands(c) \/ Exit(c)
    \/ \E p \in Procs : CheckDependency(c, p) \/ StopAllVisits(c, p)

Monitoring(p, g) ==
    \/ MonitorStarts(p, g) \/ SeesExit(p, g) \/ SeesCancel(p, g) \/ WakesUp(p, g)
    \/ RestartBegins(p, g) \/ RestartLands(p, g) \/ Drained(p, g) \/ Closes(p, g)

Next ==
    \/ Step(StartAll)
    \/ \E c \in Clients : Step(Requests(c)) \/ Step(Handling(c)) \/ Step(StopTimesOut(c))
    \/ \E p \in Procs, g \in Gens :
          \/ Step(Monitoring(p, g)) \/ Step(ChildExits(p, g))
          \/ Step(ProbeSucceeds(p, g)) \/ Step(ProbeFails(p, g))

Spec == Init /\ [][Next]_vars

\* Goroutines run, handlers run to their end, and a child whose context is
\* cancelled dies of the kill signal.  Nothing is assumed of requests, probes,
\* crashes or timeouts.
Fairness ==
    /\ WF_vars(Step(StartAll))
    /\ \A c \in Clients : WF_vars(Step(Handling(c)))
    /\ \A p \in Procs, g \in Gens :
          /\ WF_vars(Step(Monitoring(p, g)))
          /\ WF_vars(Step(killed[p][g] /\ ChildExits(p, g)))

FairSpec == Spec /\ Fairness

-----------------------------------------------------------------------------
(* Properties *)

\* A child that nobody has told to end.
Live(p, g) == child[p][g] = "alive" /\ ~killed[p][g]

\* A process shown as running or healthy is the launch its PID names, and the
\* monitor of that launch is still on duty: a retired monitor can never make a
\* process look alive (Restart's comment on Generation).
Watched ==
    \A p \in Procs : state[p] \in {"running", "healthy"} =>
        /\ gen[p] > 0 /\ pid[p] = gen[p]
        /\ mon[p][gen[p]].pc \in {"fresh", "watch", "killing"}

\* As long as no two operations on a process overlap, crash restarts, failed probes and
\* requests leave one live child of it, none once a Stop has succeeded, and no exited
\* channel is closed twice or while it is nil.  When they overlap none of this holds:
\* startOne launches without the lock.
SerialSafe ==
    /\ \A p \in Procs \ overlap :
          /\ \A g, h \in Gens : Live(p, g) /\ Live(p, h) => g = h
          /\ p \in retired \/ state[p] = "stopped" => \A g \in Gens : ~Live(p, g)
    /\ overlap = {} => down # "panic"

\* A crash that a monitor recorded is repaired by a new launch, or overtaken
\* by a request; it is never forgotten in the backoff.
CrashIsRepaired ==
    \A p \in Procs :
        (state[p] = "crashed" /\ gen[p] > 0 /\ mon[p][gen[p]].pc # "none")
            ~> (state[p] # "crashed" \/ down # "no")

\* Stop comes back also without its timeout: whatever the monitor was doing,
\* the channel Stop waits for is closed in the end.
StopReturns ==
    \A c \in Clients :
        (actor[c].pc = "waiting") ~> (actor[c].pc # "waiting" \/ down # "no")

=============================================================================
