-------------------------- MODULE Supervisor_proofs --------------------------
(***************************************************************************)
(* What the supervisor shows as running is watched, and operations that do *)
(* not overlap leave one child and no panic, for every set of processes    *)
(* and clients, every dependency graph, and every number of generations,   *)
(* faults and requests.                                                    *)
(*                                                                         *)
(* A launch is in flight between the two locked sections of startOne.  Its *)
(* generation is its own (Launches): nobody watches it yet, and no other   *)
(* launch has it.  So a monitor that finds its generation current is the   *)
(* monitor of the launch that landed last (Named).  What SerialSafe says   *)
(* of a process that never saw two operations at once rests on what the    *)
(* one operation under way has established (SerialLaunch, SerialStop).     *)
(***************************************************************************)
EXTENDS Supervisor, FiniteSetTheorems, TLAPS

States == {"stopped", "starting", "running", "healthy", "crashed", "stopping"}
Monitor == [pc : {"none", "fresh", "watch", "killing", "backoff", "relaunch", "launching",
                  "draining", "closing", "over"},
            chan : 0..MaxGen, fails : Nat, next : 0..MaxGen]
Actor == [pc : {"idle", "select", "launch", "launching", "done", "waiting", "check", "deps",
                "stopall"},
          p : Procs \cup {Nobody}, g : 0..MaxGen, todo : SUBSET Procs, again : BOOLEAN]

\* The type invariant: every field has one of its values, and whoever works on a
\* process names one.
TypeInv ==
    /\ state \in [Procs -> States]
    /\ gen \in [Procs -> 0..MaxGen] /\ pid \in [Procs -> 0..MaxGen]
    /\ cancel \in [Procs -> 0..MaxGen] /\ exited \in [Procs -> 0..MaxGen]
    /\ child \in [Procs -> [Gens -> {"none", "alive", "exited"}]]
    /\ killed \in [Procs -> [Gens -> BOOLEAN]] /\ closed \in [Procs -> [Gens -> BOOLEAN]]
    /\ mon \in [Procs -> [Gens -> Monitor]]
    /\ actor \in [Actors -> Actor]
    /\ started \subseteq Procs /\ down \in {"no", "exit", "panic"}
    /\ retired \subseteq Procs /\ overlap \subseteq Procs
    /\ \A a \in Actors :
          actor[a].pc \in {"launching", "waiting", "check", "deps"} => actor[a].p \in Procs
    /\ actor[Main].pc \in {"select", "launch", "launching", "done"}
    /\ \A c \in Clients : actor[c].pc \notin {"select", "launch", "done"}

\* The launch of generation h of p that actor a, or the monitor of generation g,
\* has in flight.
ActorLaunches(a, p, h) == actor[a].pc = "launching" /\ actor[a].p = p /\ actor[a].g = h
MonitorLaunches(p, g, h) == mon[p][g].pc = "launching" /\ mon[p][g].next = h

\* A generation in flight is no more than the current one, nobody watches it, and
\* nobody else has it in flight.
Launches(p) ==
    /\ \A a \in Actors, h \in 0..MaxGen : ActorLaunches(a, p, h) =>
          /\ h \in 1..gen[p] /\ mon[p][h].pc = "none"
          /\ \A b \in Actors : ActorLaunches(b, p, h) => a = b
          /\ \A g \in Gens : ~MonitorLaunches(p, g, h)
    /\ \A g \in Gens, h \in 0..MaxGen : MonitorLaunches(p, g, h) =>
          /\ h \in 1..gen[p] /\ g < h /\ mon[p][h].pc = "none"
          /\ \A k \in Gens : MonitorLaunches(p, k, h) => g = k

\* A generation that has a monitor has begun, one that is killed has landed, and
\* a context that can be cancelled belongs to one that has landed.
Landed(p) ==
    /\ \A g \in Gens : /\ mon[p][g].pc # "none" => g <= gen[p]
                       /\ killed[p][g] => mon[p][g].pc # "none"
                       /\ child[p][g] # "none" => mon[p][g].pc # "none"
    /\ cancel[p] # 0 => mon[p][cancel[p]].pc # "none"

\* The current generation, once it is watched, is the one the process names; it
\* is not killed as long as its monitor waits for news.  A process shown alive is
\* watched.
Named(p) ==
    /\ \A g \in Gens : gen[p] = g /\ mon[p][g].pc # "none" =>
          /\ cancel[p] = g
          /\ state[p] # "stopped" => pid[p] = g
          /\ state[p] # "stopping"
          /\ mon[p][g].pc \in {"fresh", "watch"} => ~killed[p][g]
    /\ state[p] \in {"running", "healthy"} =>
          /\ gen[p] > 0 /\ pid[p] = gen[p]
          /\ mon[p][gen[p]].pc \in {"fresh", "watch", "killing"}

\* A monitor that waits to restart its child has seen it exit.
Exited(p) ==
    \A g \in Gens :
        mon[p][g].pc \in {"backoff", "relaunch", "launching"} => child[p][g] = "exited"

General == \A p \in Procs : Launches(p) /\ Landed(p) /\ Named(p) /\ Exited(p)

NoLive(p) == \A g \in Gens : ~Live(p, g)

\* Client c, a launch of StartAll, or the restart of a monitor is at work on p.
ClientOn(c, p) == actor[c].p = p \/ p \in actor[c].todo
MainOn(p) == actor[Main].pc = "launching" /\ actor[Main].p = p
MonitorOn(p, g) == mon[p][g].pc \in {"relaunch", "launching"}

\* At most one operation is at work on p.
Alone(p) ==
    /\ \A c, d \in Clients : ClientOn(c, p) /\ ClientOn(d, p) => c = d
    /\ \A g, h \in Gens : MonitorOn(p, g) /\ MonitorOn(p, h) => g = h
    /\ \A c \in Clients : ~(ClientOn(c, p) /\ MainOn(p))
    /\ \A g \in Gens : ~(MainOn(p) /\ MonitorOn(p, g))
    /\ \A c \in Clients, g \in Gens : ~(ClientOn(c, p) /\ MonitorOn(p, g))

\* A launch that is alone is of the current generation, and finds no live child.
SerialLaunch(p) ==
    /\ \A a \in Actors : actor[a].pc = "launching" /\ actor[a].p = p =>
          actor[a].g = gen[p] /\ state[p] = "starting" /\ NoLive(p)
    /\ \A g \in Gens :
          /\ mon[p][g].pc = "relaunch" => gen[p] = g /\ state[p] = "crashed"
          /\ mon[p][g].pc = "launching" =>
                mon[p][g].next = gen[p] /\ state[p] = "starting" /\ NoLive(p)

\* A live child is the one that can be cancelled; a process that is stopped, or is
\* being stopped, has none, and the requests under way know which it is.
SerialStop(p) ==
    /\ \A g \in Gens : Live(p, g) => cancel[p] = g
    /\ state[p] \in {"stopped", "stopping"} => NoLive(p)
    /\ p \in retired => state[p] \in {"stopped", "stopping"}
    /\ \A c \in Clients : /\ actor[c].pc = "waiting" /\ actor[c].p = p => state[p] = "stopping"
                          /\ actor[c].pc = "deps" /\ actor[c].p = p => state[p] = "stopped"

\* Each monitor closes its own channel, once.
SerialClose(p) ==
    \A g \in Gens : /\ mon[p][g].pc # "none" => mon[p][g].chan = g
                    /\ closed[p][g] => mon[p][g].pc = "over"

\* What holds of a process that never saw two operations at once.
Serial ==
    /\ \A p \in Procs \ overlap :
          Alone(p) /\ SerialLaunch(p) /\ SerialStop(p) /\ SerialClose(p)
    /\ overlap = {} => down # "panic"

\* Until StartAll is done no request is accepted, and what it has not launched is
\* as it was registered.
BeforeDone ==
    actor[Main].pc # "done" =>
        /\ \A c \in Clients : actor[c].pc = "idle" /\ actor[c].p = Nobody /\ actor[c].todo = {}
        /\ retired = {}
        /\ actor[Main].todo \cap started = {}
        /\ \A p \in Procs \ started : MainOn(p) \/ (gen[p] = 0 /\ state[p] = "stopped")
        /\ actor[Main].pc = "launching" => actor[Main].p \notin started

Inv == TypeInv /\ General /\ Serial /\ BeforeDone

-----------------------------------------------------------------------------
(* Types *)

\* A step that writes one monitor writes that one only.
LEMMA MonUpdate ==
    ASSUME TypeInv
    PROVE  \A p \in Procs, g \in Gens, m \in Monitor : mon' = [mon EXCEPT ![p][g] = m] =>
               /\ mon' \in [Procs -> [Gens -> Monitor]]
               /\ mon'[p][g] = m
               /\ \A q \in Procs, h \in Gens : q # p \/ h # g => mon'[q][h] = mon[q][h]
BY DEF TypeInv

\* A step that writes one actor writes that one only.
LEMMA ActorUpdate ==
    ASSUME TypeInv
    PROVE  \A a \in Actors, r \in Actor : actor' = [actor EXCEPT ![a] = r] =>
               /\ actor' \in [Actors -> Actor]
               /\ actor'[a] = r
               /\ \A b \in Actors : b # a => actor'[b] = actor[b]
BY DEF TypeInv

\* The fields of ManagedProcess, the children and their monitors have their types.
FieldsType ==
    /\ state \in [Procs -> States]
    /\ gen \in [Procs -> 0..MaxGen] /\ pid \in [Procs -> 0..MaxGen]
    /\ cancel \in [Procs -> 0..MaxGen] /\ exited \in [Procs -> 0..MaxGen]

ChildrenType ==
    /\ child \in [Procs -> [Gens -> {"none", "alive", "exited"}]]
    /\ killed \in [Procs -> [Gens -> BOOLEAN]] /\ closed \in [Procs -> [Gens -> BOOLEAN]]

\* startOne's first section.
LEMMA BeginFacts ==
    ASSUME TypeInv, NEW p \in Procs, Begin(p)
    PROVE  /\ FieldsType' /\ gen[p] + 1 \in Gens
           /\ gen'[p] = gen[p] + 1 /\ state'[p] = "starting"
           /\ \A q \in Procs \ {p} : gen'[q] = gen[q] /\ state'[q] = state[q]
           /\ UNCHANGED <<pid, cancel, exited>>
BY BoundsAssumption DEF TypeInv, FieldsType, Begin, Gens, States

\* startOne's second section, for a launch whose generation is g.
LEMMA LandFacts ==
    ASSUME TypeInv, NEW p \in Procs, NEW g \in Gens, NEW after, Land(p, g, after)
    PROVE  /\ FieldsType' /\ ChildrenType' /\ NewMonitor(p, g) \in Monitor
           /\ mon' = [after EXCEPT ![p][g] = NewMonitor(p, g)]
           /\ child'[p][g] = "alive"
           /\ \A q \in Procs, h \in Gens : q # p \/ h # g => child'[q][h] = child[q][h]
           /\ gen[p] = g => /\ pid'[p] = g /\ state'[p] = "running"
                            /\ cancel'[p] = g /\ exited'[p] = g
           /\ gen[p] # g => UNCHANGED <<pid, state, cancel, exited>>
           /\ \A q \in Procs \ {p} : /\ pid'[q] = pid[q] /\ state'[q] = state[q]
                                     /\ cancel'[q] = cancel[q] /\ exited'[q] = exited[q]
           /\ UNCHANGED <<gen, killed, closed, faults>>
<1>0. g \in 0..MaxGen /\ exited[p] \in 0..MaxGen /\ 0 \in 0..MaxGen /\ 0 \in Nat
  BY BoundsAssumption DEF TypeInv, Gens
<1>1. NewMonitor(p, g) \in Monitor
  <2> DEFINE c == IF gen[p] = g THEN g ELSE exited[p]
  <2>1. c \in 0..MaxGen BY <1>0
  <2> HIDE DEF c
  <2>2. [pc |-> "fresh", chan |-> c, fails |-> 0, next |-> 0] \in Monitor
    BY <1>0, <2>1 DEF Monitor
  <2>5. [NoMonitor EXCEPT !.pc = "fresh"] = [pc |-> "fresh", chan |-> 0, fails |-> 0, next |-> 0]
    BY DEF NoMonitor
  <2>6. ASSUME NEW e
        PROVE  [[pc |-> "fresh", chan |-> 0, fails |-> 0, next |-> 0] EXCEPT !.chan = e]
               = [pc |-> "fresh", chan |-> e, fails |-> 0, next |-> 0]
    OBVIOUS
  <2>3. CASE gen[p] = g
    <3>1. NewMonitor(p, g) = [[NoMonitor EXCEPT !.pc = "fresh"] EXCEPT !.chan = g]
      BY <2>3 DEF NewMonitor
    <3>2. NewMonitor(p, g) = [pc |-> "fresh", chan |-> g, fails |-> 0, next |-> 0]
      BY <2>5, <2>6, <3>1
    <3> QED BY <2>2, <2>3, <3>2 DEF c
  <2>4. CASE gen[p] # g
    <3>1. NewMonitor(p, g) = [[NoMonitor EXCEPT !.pc = "fresh"] EXCEPT !.chan = exited[p]]
      BY <2>4 DEF NewMonitor
    <3>2. NewMonitor(p, g) = [pc |-> "fresh", chan |-> exited[p], fails |-> 0, next |-> 0]
      BY <2>5, <2>6, <3>1
    <3> QED BY <2>2, <2>4, <3>2 DEF c
  <2> QED BY <2>3, <2>4
<1>2. /\ mon' = [after EXCEPT ![p][g] = NewMonitor(p, g)]
      /\ UNCHANGED <<gen, killed, closed, faults>>
      /\ child' = [child EXCEPT ![p][g] = "alive"]
  BY DEF Land
<1>3. /\ ChildrenType' /\ child'[p][g] = "alive"
      /\ \A q \in Procs, h \in Gens : q # p \/ h # g => child'[q][h] = child[q][h]
  BY <1>2 DEF TypeInv, ChildrenType
<1>4. CASE gen[p] = g
  <2>1. /\ pid' = [pid EXCEPT ![p] = g] /\ state' = [state EXCEPT ![p] = "running"]
        /\ cancel' = [cancel EXCEPT ![p] = g] /\ exited' = [exited EXCEPT ![p] = g]
    BY <1>4 DEF Land
  <2>2. FieldsType' BY <1>0, <1>2, <2>1 DEF TypeInv, FieldsType, States
  <2> QED BY <1>1, <1>2, <1>3, <1>4, <2>1, <2>2 DEF TypeInv
<1>5. CASE gen[p] # g
  <2>1. UNCHANGED <<pid, state, cancel, exited>> BY <1>5 DEF Land
  <2>2. FieldsType' BY <1>2, <2>1 DEF TypeInv, FieldsType
  <2> QED BY <1>1, <1>2, <1>3, <1>5, <2>1, <2>2
<1> QED BY <1>4, <1>5

\* A launch that fails.
LEMMA MisfireFacts ==
    ASSUME TypeInv, NEW p \in Procs, NEW g \in Gens, NEW after, Misfire(p, g, after)
    PROVE  /\ FieldsType' /\ ChildrenType' /\ mon' = after
           /\ state'[p] = IF gen[p] = g THEN "crashed" ELSE state[p]
           /\ \A q \in Procs \ {p} : state'[q] = state[q]
           /\ UNCHANGED <<gen, pid, cancel, exited, children>>
BY DEF TypeInv, FieldsType, ChildrenType, Misfire, Fault, States, children

\* A step of a monitor that changes its pc and no launch.
LEMMA MovesFacts ==
    ASSUME TypeInv, NEW p \in Procs, NEW g \in Gens
    PROVE  \A pc \in {"watch", "killing", "backoff", "relaunch", "draining", "closing", "over"} :
               Moves(p, g, pc) =>
                   /\ mon' \in [Procs -> [Gens -> Monitor]]
                   /\ mon'[p][g].pc = pc /\ mon'[p][g].chan = mon[p][g].chan
                   /\ mon'[p][g].next = mon[p][g].next
                   /\ \A q \in Procs, h \in Gens : q # p \/ h # g => mon'[q][h] = mon[q][h]
<1> SUFFICES ASSUME NEW pc \in {"watch", "killing", "backoff", "relaunch", "draining",
                                "closing", "over"},
                    Moves(p, g, pc)
             PROVE  /\ mon' \in [Procs -> [Gens -> Monitor]]
                    /\ mon'[p][g].pc = pc /\ mon'[p][g].chan = mon[p][g].chan
                    /\ mon'[p][g].next = mon[p][g].next
                    /\ \A q \in Procs, h \in Gens : q # p \/ h # g => mon'[q][h] = mon[q][h]
  OBVIOUS
<1>1. mon[p][g] \in Monitor BY DEF TypeInv
<1>2. LET m == [mon[p][g] EXCEPT !.pc = pc]
      IN  /\ m \in Monitor /\ m.pc = pc
          /\ m.chan = mon[p][g].chan /\ m.next = mon[p][g].next
  BY <1>1 DEF Monitor
<1>3. PICK m \in Monitor : /\ m = [mon[p][g] EXCEPT !.pc = pc] /\ m.pc = pc
                           /\ m.chan = mon[p][g].chan /\ m.next = mon[p][g].next
  BY <1>2
<1>4. mon' = [mon EXCEPT ![p][g] = m] BY <1>3 DEF Moves
<1>5. mon' \in [Procs -> [Gens -> Monitor]] /\ mon'[p][g] = m
  BY <1>4, MonUpdate
<1>6. \A q \in Procs, h \in Gens : q # p \/ h # g => mon'[q][h] = mon[q][h]
  BY <1>4, MonUpdate
<1> QED BY <1>3, <1>5, <1>6

\* The fields and the actors after a step have their types.
RestType ==
    /\ started \subseteq Procs /\ down \in {"no", "exit", "panic"}
    /\ retired \subseteq Procs /\ overlap \subseteq Procs

ActorsType ==
    /\ actor \in [Actors -> Actor]
    /\ \A a \in Actors :
          actor[a].pc \in {"launching", "waiting", "check", "deps"} => actor[a].p \in Procs
    /\ actor[Main].pc \in {"select", "launch", "launching", "done"}
    /\ \A c \in Clients : actor[c].pc \notin {"select", "launch", "done"}

\* Whatever an actor becomes fits it.
Fits(a, r) ==
    /\ r \in Actor
    /\ r.pc \in {"launching", "waiting", "check", "deps"} => r.p \in Procs
    /\ IF a = Main THEN r.pc \in {"select", "launch", "launching", "done"}
                   ELSE r.pc \notin {"select", "launch", "done"}

\* Rewriting one goroutine with a record that fits keeps the type of all of them, and the others.
LEMMA ActorsFit ==
    ASSUME TypeInv
    PROVE  \A a \in Actors : \A r : Fits(a, r) /\ actor' = [actor EXCEPT ![a] = r] =>
               /\ ActorsType' /\ actor'[a] = r
               /\ \A b \in Actors : b # a => actor'[b] = actor[b]
<1> SUFFICES ASSUME NEW a \in Actors, NEW r, Fits(a, r), actor' = [actor EXCEPT ![a] = r]
             PROVE  /\ ActorsType' /\ actor'[a] = r
                    /\ \A b \in Actors : b # a => actor'[b] = actor[b]
  OBVIOUS
<1>1. /\ actor' \in [Actors -> Actor] /\ actor'[a] = r
      /\ \A b \in Actors : b # a => actor'[b] = actor[b]
  BY ActorUpdate DEF Fits
<1>2. Main \in Actors /\ \A c \in Clients : c \in Actors /\ c # Main
  BY DepsAssumption DEF Actors
<1>3. ActorsType' BY <1>1, <1>2 DEF Fits, TypeInv, ActorsType
<1> QED BY <1>1, <1>3

\* The record of an idle goroutine is well typed.
LEMMA IdleFacts == IdleActor \in Actor
BY BoundsAssumption DEF IdleActor, Actor

-----------------------------------------------------------------------------
(* What one step does to a process *)

SameFields(p) == /\ gen'[p] = gen[p] /\ state'[p] = state[p]
                 /\ pid'[p] = pid[p] /\ cancel'[p] = cancel[p]

SameMons(p) == \A g \in Gens : mon'[p][g] = mon[p][g]
SameKilled(p) == \A g \in Gens : killed'[p][g] = killed[p][g]
SameClosed(p) == \A g \in Gens : closed'[p][g] = closed[p][g]
SameRetired(p) == p \in retired' <=> p \in retired

\* A child may exit.
NoBirth(p) ==
    \A g \in Gens : child'[p][g] = child[p][g] \/ (child[p][g] = "alive" /\ child'[p][g] = "exited")

\* Actor a does not begin anything on p: what it launches, stops or is about to
\* start was there before, and a start that passed its first check has seen the
\* process stopped.
ActorKeeps(a, p) ==
    /\ actor'[a].pc \in {"launching", "waiting"} /\ actor'[a].p = p =>
          actor[a].pc = actor'[a].pc /\ actor[a].p = p /\ actor[a].g = actor'[a].g
    /\ actor'[a].pc = "deps" /\ actor'[a].p = p =>
          (actor[a].pc = "deps" /\ actor[a].p = p) \/ state[p] = "stopped"

ActorsKeep(p) == \A a \in Actors : ActorKeeps(a, p)

\* Nothing but what a crash or another process's step changes.
Keeps(p) ==
    /\ SameFields(p) /\ SameMons(p) /\ SameKilled(p) /\ SameClosed(p) /\ SameRetired(p)
    /\ NoBirth(p) /\ ActorsKeep(p)

\* The first section of a launch: gen moves on.
BeginsAt(p) ==
    /\ gen'[p] = gen[p] + 1 /\ gen'[p] \in Gens /\ state'[p] = "starting"
    /\ pid'[p] = pid[p] /\ cancel'[p] = cancel[p]
    /\ SameKilled(p) /\ SameClosed(p) /\ \A g \in Gens : child'[p][g] = child[p][g]

\* StartAll or Start launches p, which it knows to be stopped if it is alone.
StartsAt(p, a) ==
    /\ BeginsAt(p) /\ SameMons(p) /\ p \notin retired'
    /\ p \notin overlap => state[p] = "stopped"
    /\ actor'[a].pc = "launching" /\ actor'[a].p = p /\ actor'[a].g = gen'[p]
    /\ \A b \in Actors \ {a} : actor'[b] = actor[b]

\* The monitor of generation g launches p again.
RestartsAt(p, g) ==
    /\ BeginsAt(p) /\ SameRetired(p) /\ ActorsKeep(p)
    /\ mon[p][g].pc = "relaunch"
    /\ mon'[p][g].pc = "launching" /\ mon'[p][g].next = gen'[p]
    /\ mon'[p][g].chan = mon[p][g].chan
    /\ \A h \in Gens \ {g} : mon'[p][h] = mon[p][h]

Launched(p, h) ==
    \/ \E a \in Actors : ActorLaunches(a, p, h)
    \/ \E g \in Gens : MonitorLaunches(p, g, h)

\* The launch h of p ends; nobody has it in flight any more.
Ends(p, h) ==
    /\ h \in Gens /\ Launched(p, h)
    /\ \A a \in Actors : ~ActorLaunches(a, p, h)'
    /\ \A g \in Gens \ {h} :
          \/ mon'[p][g] = mon[p][g] /\ ~MonitorLaunches(p, g, h)
          \/ /\ MonitorLaunches(p, g, h)
             /\ mon'[p][g].pc = "closing" /\ mon'[p][g].chan = mon[p][g].chan
    /\ gen'[p] = gen[p] /\ ActorsKeep(p) /\ SameKilled(p) /\ SameClosed(p) /\ SameRetired(p)

\* The second section: the child runs and gets its monitor.
LandsAt(p, h) ==
    /\ Ends(p, h)
    /\ mon'[p][h].pc = "fresh"
    /\ gen[p] = h => mon'[p][h].chan = h
    /\ child'[p][h] = "alive" /\ \A g \in Gens \ {h} : child'[p][g] = child[p][g]
    /\ IF gen[p] = h THEN pid'[p] = h /\ state'[p] = "running" /\ cancel'[p] = h
                     ELSE SameFields(p)

\* The launch fails.
FailsAt(p, h) ==
    /\ Ends(p, h)
    /\ mon'[p][h] = mon[p][h] /\ \A g \in Gens : child'[p][g] = child[p][g]
    /\ pid'[p] = pid[p] /\ cancel'[p] = cancel[p]
    /\ state'[p] = IF gen[p] = h THEN "crashed" ELSE state[p]

\* Client c cancels the current launch of p.
HaltsAt(p, c) ==
    /\ gen'[p] = gen[p] + 1 /\ gen'[p] \in Gens
    /\ state'[p] \in {"stopping", "stopped"}
    /\ pid'[p] = pid[p] /\ cancel'[p] = 0
    /\ \A g \in Gens : /\ killed'[p][g] => killed[p][g] \/ g = cancel[p]
                       /\ killed[p][g] \/ g = cancel[p] => killed'[p][g]
                       /\ child'[p][g] = child[p][g]
    /\ SameMons(p) /\ SameClosed(p) /\ SameRetired(p)
    /\ ClientOn(c, p) \/ ClientOn(c, p)'
    /\ actor'[c].pc \in {"waiting", "stopall"}
    /\ actor'[c].pc = "waiting" => state'[p] = "stopping"
    /\ \A a \in Actors \ {c} : actor'[a] = actor[a]

\* The stop of client c succeeds.
StopsAt(p, c) ==
    /\ actor[c].pc = "waiting" /\ actor[c].p = p /\ actor'[c].pc # "waiting"
    /\ gen'[p] = gen[p] /\ cancel'[p] = cancel[p]
    /\ state'[p] = "stopped" /\ p \in retired'
    /\ SameMons(p) /\ SameKilled(p) /\ SameClosed(p) /\ NoBirth(p) /\ ActorsKeep(p)

\* The monitor of generation g moves on, and launches nothing: it may mark the
\* launch it belongs to healthy or crashed, kill it, or close its channel.
TurnsAt(p, g) ==
    /\ mon[p][g].pc \notin {"none", "launching"}
    /\ mon'[p][g].pc \notin {"none", "launching"}
    /\ mon'[p][g].chan = mon[p][g].chan
    /\ \A h \in Gens \ {g} : mon'[p][h] = mon[p][h]
    /\ gen'[p] = gen[p] /\ pid'[p] = pid[p] /\ cancel'[p] = cancel[p]
    /\ state'[p] = state[p] \/ (/\ gen[p] = g /\ state[p] # "stopped"
                                /\ mon[p][g].pc # "relaunch"
                                /\ state'[p] \in {"healthy", "crashed"})
    /\ gen[p] = g /\ state'[p] \in {"running", "healthy"} =>
          mon'[p][g].pc \in {"fresh", "watch", "killing"}
    /\ mon'[p][g].pc \in {"fresh", "watch"} => mon[p][g].pc \in {"fresh", "watch"}
    /\ mon'[p][g].pc = "relaunch" => gen[p] = g /\ state'[p] = "crashed"
    /\ mon'[p][g].pc \in {"backoff", "relaunch"} => child[p][g] = "exited"
    /\ \A h \in Gens : /\ child'[p][h] = child[p][h]
                       /\ killed[p][h] => killed'[p][h]
                       /\ killed'[p][h] => killed[p][h] \/ (h = g /\ mon'[p][g].pc = "killing")
                       /\ closed'[p][h] =>
                             closed[p][h] \/ (h = mon[p][g].chan /\ mon'[p][g].pc = "over")
    /\ mon[p][g].pc # "over" /\ SameRetired(p) /\ ActorsKeep(p)

StepAt(p) ==
    \/ Keeps(p)
    \/ \E a \in Actors : StartsAt(p, a)
    \/ \E g \in Gens : RestartsAt(p, g) \/ LandsAt(p, g) \/ FailsAt(p, g) \/ TurnsAt(p, g)
    \/ \E c \in Clients : HaltsAt(p, c) \/ StopsAt(p, c)

\* The step of an action: everything keeps its type, and every process makes one of the
\* moves above.
Moved == TypeInv' /\ \A p \in Procs : StepAt(p)

-----------------------------------------------------------------------------
(* The actions *)

\* A step that changes one actor, which begins nothing.
LEMMA ActorOnly ==
    ASSUME Inv, overlap' \subseteq Procs, down' \in {"no", "exit", "panic"},
           UNCHANGED <<proc, children, mon, started, retired>>
    PROVE  \A a \in Actors : \A r :
               /\ Fits(a, r) /\ actor' = [actor EXCEPT ![a] = r]
               /\ r.pc \notin {"launching", "waiting"}
               /\ r.pc = "deps" => (actor[a].pc = "deps" /\ actor[a].p = r.p)
                                   \/ state[r.p] = "stopped"
               => Moved
<1> SUFFICES ASSUME NEW a \in Actors, NEW r, Fits(a, r), actor' = [actor EXCEPT ![a] = r],
                    r.pc \notin {"launching", "waiting"},
                    r.pc = "deps" => (actor[a].pc = "deps" /\ actor[a].p = r.p)
                                     \/ state[r.p] = "stopped"
             PROVE  Moved
  OBVIOUS
<1>1. /\ ActorsType' /\ actor'[a] = r
      /\ \A b \in Actors : b # a => actor'[b] = actor[b]
  BY ActorsFit DEF Inv
<1>2. TypeInv' BY <1>1 DEF Inv, TypeInv, ActorsType, proc, children
<1>3. ASSUME NEW p \in Procs PROVE Keeps(p)
  <2>1. ActorsKeep(p) BY <1>1 DEF ActorsKeep, ActorKeeps
  <2> QED BY <2>1 DEF Keeps, SameFields, SameMons, SameKilled, SameClosed, SameRetired, NoBirth,
                      proc, children
<1> QED BY <1>2, <1>3 DEF Moved, StepAt

\* The goroutines are the main one and one for each request.
LEMMA ActorNames ==
    /\ Main \in Actors
    /\ \A c \in Clients : c \in Actors /\ c # Main
    /\ \A a \in Actors : a = Main \/ a \in Clients
BY DepsAssumption DEF Actors

\* StartAll choosing the next processes changes no process.
LEMMA SelectMoves == ASSUME Inv, overlap' \subseteq Procs, SelectReady PROVE Moved
<1> USE ActorNames
<1>1. actor[Main] \in Actor /\ Ready \subseteq Procs BY DEF Inv, TypeInv, Ready
<1>2. /\ UNCHANGED <<proc, children, mon, started, retired>>
      /\ down' \in {"no", "exit", "panic"}
  BY DEF SelectReady, Inv, TypeInv
<1>3. CASE actor' = [actor EXCEPT ![Main].pc = "launch", ![Main].todo = Ready]
  <2>1a. LET s == [actor[Main] EXCEPT !.pc = "launch", !.todo = Ready]
        IN  s \in Actor /\ s.pc = "launch"
    BY <1>1 DEF Actor
  <2>1. PICK r \in Actor : /\ r = [actor[Main] EXCEPT !.pc = "launch", !.todo = Ready]
                           /\ r.pc = "launch"
    BY <2>1a
  <2>2. actor' = [actor EXCEPT ![Main] = r] BY <1>3, <2>1
  <2>3. Fits(Main, r) BY <2>1 DEF Fits
  <2> QED BY <1>2, <2>1, <2>2, <2>3, ActorOnly
<1>4. CASE actor' = [actor EXCEPT ![Main].pc = "done"]
  <2>1a. LET s == [actor[Main] EXCEPT !.pc = "done"]
        IN  s \in Actor /\ s.pc = "done"
    BY <1>1 DEF Actor
  <2>1. PICK r \in Actor : /\ r = [actor[Main] EXCEPT !.pc = "done"]
                           /\ r.pc = "done"
    BY <2>1a
  <2>2. actor' = [actor EXCEPT ![Main] = r] BY <1>4, <2>1
  <2>3. Fits(Main, r) BY <2>1 DEF Fits
  <2> QED BY <1>2, <2>1, <2>2, <2>3, ActorOnly
<1> QED BY <1>3, <1>4 DEF SelectReady

\* The requests, and the steps of a request that only look.
LEMMA RequestMoves ==
    ASSUME Inv, overlap' \subseteq Procs, NEW c \in Clients,
           \/ StopTimesOut(c) \/ StopAllBegins(c) \/ Exit(c)
           \/ \E p \in Procs : StartRequest(c, p)
    PROVE  Moved
<1> USE ActorNames, IdleFacts
<1>1. CASE StopTimesOut(c)
  <2>1. Fits(c, IdleActor) /\ IdleActor.pc = "idle" BY DEF Fits, IdleActor
  <2> QED BY <1>1, <2>1, ActorOnly DEF StopTimesOut, Goes, Inv, TypeInv
<1>2. CASE StopAllBegins(c)
  <2>1a. LET s == [IdleActor EXCEPT !.pc = "stopall", !.todo = Procs]
        IN  s \in Actor /\ s.pc = "stopall"
    BY IdleFacts DEF Actor, IdleActor
  <2>1. PICK r \in Actor : /\ r = [IdleActor EXCEPT !.pc = "stopall", !.todo = Procs]
                           /\ r.pc = "stopall"
    BY <2>1a
  <2>2. Fits(c, r) /\ actor' = [actor EXCEPT ![c] = r]
    BY <1>2, <2>1 DEF Fits, StopAllBegins, Goes
  <2> QED BY <1>2, <2>1, <2>2, ActorOnly DEF StopAllBegins, Inv, TypeInv
<1>3. CASE Exit(c)
  <2>1. Fits(c, IdleActor) /\ IdleActor.pc = "idle" BY DEF Fits, IdleActor
  <2> QED BY <1>3, <2>1, ActorOnly DEF Exit, Goes
<1>4. CASE \E p \in Procs : StartRequest(c, p)
  <2>1. PICK p \in Procs : StartRequest(c, p) BY <1>4
  <2>2a. LET s == [IdleActor EXCEPT !.pc = "check", !.p = p]
        IN  s \in Actor /\ s.pc = "check" /\ s.p = p
    BY IdleFacts DEF Actor, IdleActor
  <2>2. PICK r \in Actor : /\ r = [IdleActor EXCEPT !.pc = "check", !.p = p]
                           /\ r.pc = "check" /\ r.p = p
    BY <2>2a
  <2>3. Fits(c, r) /\ actor' = [actor EXCEPT ![c] = r]
    BY <2>1, <2>2 DEF Fits, StartRequest, Goes
  <2> QED BY <2>1, <2>2, <2>3, ActorOnly DEF StartRequest, Inv, TypeInv
<1> QED BY <1>1, <1>2, <1>3, <1>4

\* A start request reading the state or a dependency changes no process.
LEMMA CheckMoves ==
    ASSUME Inv, overlap' \subseteq Procs, NEW c \in Clients,
           CheckState(c) \/ \E d \in Procs : CheckDependency(c, d)
    PROVE  Moved
<1> USE ActorNames
<1>1. c \in Actors /\ actor[c] \in Actor BY DEF Inv, TypeInv
<1>2. ASSUME CheckState(c), state[actor[c].p] # "stopped" PROVE Moved
  <2>1. Fits(c, IdleActor) /\ IdleActor.pc = "idle" BY IdleFacts DEF Fits, IdleActor
  <2>2. actor' = [actor EXCEPT ![c] = IdleActor] BY <1>2 DEF CheckState, Goes
  <2> QED BY <1>1, <1>2, <2>1, <2>2, ActorOnly DEF CheckState, Inv, TypeInv
<1>3. ASSUME CheckState(c), state[actor[c].p] = "stopped" PROVE Moved
  <2> DEFINE P == {Deps[actor[c].p][k] : k \in DOMAIN Deps[actor[c].p]}
  <2>1. actor[c].p \in Procs BY <1>1, <1>3 DEF CheckState, Inv, TypeInv
  <2>2. P \in SUBSET Procs BY <2>1, DepsAssumption
  <2>3. actor' = [actor EXCEPT ![c] = [actor[c] EXCEPT !.pc = "deps", !.todo = P]]
    BY <1>3 DEF CheckState, Goes
  <2> HIDE DEF P
  <2>4a. LET s == [actor[c] EXCEPT !.pc = "deps", !.todo = P]
        IN  s \in Actor /\ s.pc = "deps" /\ s.p = actor[c].p
    BY <1>1, <2>2 DEF Actor
  <2>4. PICK r \in Actor : /\ r = [actor[c] EXCEPT !.pc = "deps", !.todo = P]
                           /\ r.pc = "deps" /\ r.p = actor[c].p
    BY <2>4a
  <2>5. Fits(c, r) /\ actor' = [actor EXCEPT ![c] = r] BY <2>1, <2>3, <2>4 DEF Fits
  <2> QED BY <1>1, <1>3, <2>4, <2>5, ActorOnly DEF CheckState, Inv, TypeInv
<1>4. ASSUME NEW d \in Procs, CheckDependency(c, d), state[d] # "healthy" PROVE Moved
  <2>1. Fits(c, IdleActor) /\ IdleActor.pc = "idle" BY IdleFacts DEF Fits, IdleActor
  <2>2. actor' = [actor EXCEPT ![c] = IdleActor] BY <1>4 DEF CheckDependency, Goes
  <2> QED BY <1>1, <1>4, <2>1, <2>2, ActorOnly DEF CheckDependency, Inv, TypeInv
<1>5. ASSUME NEW d \in Procs, CheckDependency(c, d), state[d] = "healthy" PROVE Moved
  <2>1. actor[c].p \in Procs /\ actor[c].todo \in SUBSET Procs /\ actor[c].pc = "deps"
    BY <1>1, <1>5 DEF CheckDependency, Inv, TypeInv, Actor
  <2>2. PICK P \in SUBSET Procs : P = actor[c].todo \ {d} BY <2>1
  <2>3a. LET s == [actor[c] EXCEPT !.todo = P]
        IN  s \in Actor /\ s.pc = "deps" /\ s.p = actor[c].p
    BY <1>1, <2>1 DEF Actor
  <2>3. PICK r \in Actor : /\ r = [actor[c] EXCEPT !.todo = P]
                           /\ r.pc = "deps" /\ r.p = actor[c].p
    BY <2>3a
  <2>4. actor' = [actor EXCEPT ![c] = [actor[c] EXCEPT !.todo = actor[c].todo \ {d}]]
    BY <1>5 DEF CheckDependency, Goes
  <2>5. Fits(c, r) /\ actor' = [actor EXCEPT ![c] = r] BY <2>1, <2>2, <2>3, <2>4 DEF Fits
  <2> QED BY <1>1, <1>5, <2>1, <2>3, <2>5, ActorOnly DEF CheckDependency, Inv, TypeInv
<1> QED BY <1>2, <1>3, <1>4, <1>5

\* startOne of StartAll and of Start.
LEMMA StartsMove ==
    ASSUME Inv, overlap' \subseteq Procs, NEW a \in Actors, NEW p \in Procs, Begin(p),
           UNCHANGED <<children, mon, started, down>>,
           retired' \subseteq retired, p \notin retired', \A q \in Procs \ {p} : SameRetired(q),
           p \notin overlap => state[p] = "stopped"
    PROVE  \A r : /\ Fits(a, r) /\ actor' = [actor EXCEPT ![a] = r]
                  /\ r.pc = "launching" /\ r.p = p /\ r.g = gen[p] + 1
                  => Moved
<1> SUFFICES ASSUME NEW r, Fits(a, r), actor' = [actor EXCEPT ![a] = r],
                    r.pc = "launching", r.p = p, r.g = gen[p] + 1
             PROVE  Moved
  OBVIOUS
<1>1. /\ ActorsType' /\ actor'[a] = r
      /\ \A b \in Actors : b # a => actor'[b] = actor[b]
  BY ActorsFit DEF Inv
<1>2. /\ FieldsType' /\ gen[p] + 1 \in Gens
      /\ gen'[p] = gen[p] + 1 /\ state'[p] = "starting"
      /\ \A q \in Procs \ {p} : gen'[q] = gen[q] /\ state'[q] = state[q]
      /\ UNCHANGED <<pid, cancel, exited>>
  BY BeginFacts DEF Inv
<1>3. TypeInv' BY <1>1, <1>2 DEF Inv, TypeInv, ActorsType, FieldsType, children
<1>4. StartsAt(p, a)
  <2>1. \A b \in Actors \ {a} : actor'[b] = actor[b] BY <1>1
  <2>2. BeginsAt(p) BY <1>2 DEF BeginsAt, SameKilled, SameClosed, children
  <2> QED BY <1>1, <1>2, <2>1, <2>2 DEF StartsAt, SameMons
<1>5. ASSUME NEW q \in Procs \ {p} PROVE Keeps(q)
  <2>1. ActorsKeep(q) BY <1>1 DEF ActorsKeep, ActorKeeps
  <2> QED BY <1>2, <2>1 DEF Keeps, SameFields, SameMons, SameKilled, SameClosed, NoBirth, children
<1> QED BY <1>3, <1>4, <1>5 DEF Moved, StepAt

\* StartAll entering launch is a start of that process and keeps the others.
LEMMA MainBeginsMoves ==
    ASSUME Inv, overlap' \subseteq Procs, NEW p \in Procs, MainBegins(p)
    PROVE  Moved
<1> USE ActorNames
<1>1. Begin(p) /\ UNCHANGED <<children, mon, started, down, retired>>
  BY DEF MainBegins
<1>2. actor[Main] \in Actor /\ actor[Main].pc = "launch" /\ p \in actor[Main].todo
      /\ gen[p] + 1 \in 0..MaxGen
  BY <1>1, BoundsAssumption DEF MainBegins, Inv, TypeInv, Begin
<1>3. retired = {} /\ state[p] = "stopped"
  BY <1>2 DEF Inv, BeforeDone, MainOn, TypeInv, Actor
<1>4. LET s == [actor[Main] EXCEPT !.pc = "launching", !.p = p, !.g = gen[p] + 1]
      IN  s \in Actor /\ s.pc = "launching" /\ s.p = p /\ s.g = gen[p] + 1
  BY <1>2 DEF Actor
<1>5. PICK r \in Actor :
         /\ r = [actor[Main] EXCEPT !.pc = "launching", !.p = p, !.g = gen[p] + 1]
         /\ r.pc = "launching" /\ r.p = p /\ r.g = gen[p] + 1
  BY <1>4
<1>6. actor' = [actor EXCEPT ![Main] = r] BY <1>5 DEF MainBegins
<1>7. Fits(Main, r) BY <1>5 DEF Fits
<1> QED BY <1>1, <1>3, <1>5, <1>6, <1>7, StartsMove DEF SameRetired

\* A start request entering launch is a start of its process and keeps the others.
LEMMA StartBeginsMoves ==
    ASSUME Inv, overlap' \subseteq Procs, NEW c \in Clients, StartBegins(c)
    PROVE  Moved
<1> USE ActorNames
<1>1. c \in Actors /\ actor[c] \in Actor /\ actor[c].pc = "deps" /\ actor[c].p \in Procs
  BY DEF StartBegins, Inv, TypeInv
<1>2. PICK p \in Procs : p = actor[c].p BY <1>1
<1>3. Begin(p) /\ UNCHANGED <<children, mon, started, down>> /\ retired' = retired \ {p}
  BY <1>2 DEF StartBegins
<1>4. gen[p] + 1 \in 0..MaxGen
  BY <1>3, BoundsAssumption DEF Inv, TypeInv, Begin
<1>5. p \notin overlap => state[p] = "stopped"
  BY <1>1, <1>2 DEF Inv, Serial, SerialStop
<1>6. LET s == [actor[c] EXCEPT !.pc = "launching", !.g = gen[p] + 1]
      IN  s \in Actor /\ s.pc = "launching" /\ s.p = p /\ s.g = gen[p] + 1
  BY <1>1, <1>2, <1>4 DEF Actor
<1>7. PICK r \in Actor :
         /\ r = [actor[c] EXCEPT !.pc = "launching", !.g = gen[p] + 1]
         /\ r.pc = "launching" /\ r.p = p /\ r.g = gen[p] + 1
  BY <1>6
<1>8. actor' = [actor EXCEPT ![c] = r] BY <1>2, <1>7 DEF StartBegins, Goes
<1>9. Fits(c, r) BY <1>7 DEF Fits
<1>10. retired' \subseteq retired /\ p \notin retired' /\ \A q \in Procs \ {p} : SameRetired(q)
  BY <1>3 DEF SameRetired
<1> QED BY <1>1, <1>3, <1>5, <1>7, <1>8, <1>9, <1>10, StartsMove

\* The monitor of a crashed launch begins the next one.
LEMMA RestartBeginsMoves ==
    ASSUME Inv, overlap' \subseteq Procs, NEW p \in Procs, NEW g \in Gens, RestartBegins(p, g)
    PROVE  Moved
<1>1. /\ FieldsType' /\ gen[p] + 1 \in Gens
      /\ gen'[p] = gen[p] + 1 /\ state'[p] = "starting"
      /\ \A q \in Procs \ {p} : gen'[q] = gen[q] /\ state'[q] = state[q]
      /\ UNCHANGED <<pid, cancel, exited>>
  BY BeginFacts DEF Inv, RestartBegins
<1>2. UNCHANGED <<children, actor, started, down, retired>> BY DEF RestartBegins
<1>3. mon[p][g] \in Monitor /\ gen[p] + 1 \in 0..MaxGen
  BY <1>1, BoundsAssumption DEF Inv, TypeInv, Gens
<1>4. LET s == [mon[p][g] EXCEPT !.pc = "launching", !.next = gen[p] + 1]
      IN  /\ s \in Monitor /\ s.pc = "launching" /\ s.next = gen[p] + 1
          /\ s.chan = mon[p][g].chan
  BY <1>3 DEF Monitor
<1>5. PICK m \in Monitor :
         /\ m = [mon[p][g] EXCEPT !.pc = "launching", !.next = gen[p] + 1]
         /\ m.pc = "launching" /\ m.next = gen[p] + 1 /\ m.chan = mon[p][g].chan
  BY <1>4
<1>6. mon' = [mon EXCEPT ![p][g] = m] BY <1>5 DEF RestartBegins
<1>7. mon' \in [Procs -> [Gens -> Monitor]] /\ mon'[p][g] = m BY <1>6, MonUpdate DEF Inv
<1>8. \A q \in Procs, h \in Gens : q # p \/ h # g => mon'[q][h] = mon[q][h]
  BY <1>6, MonUpdate DEF Inv
<1>9. TypeInv' BY <1>1, <1>2, <1>7 DEF Inv, TypeInv, FieldsType, children
<1>10. \A q \in Procs : ActorsKeep(q) BY <1>2 DEF ActorsKeep, ActorKeeps
<1>11. RestartsAt(p, g)
  <2>1. BeginsAt(p) BY <1>1, <1>2 DEF BeginsAt, SameKilled, SameClosed, children
  <2> QED BY <1>1, <1>2, <1>5, <1>7, <1>8, <1>10, <2>1 DEF RestartsAt, RestartBegins, SameRetired
<1>12. ASSUME NEW q \in Procs \ {p} PROVE Keeps(q)
  BY <1>1, <1>2, <1>8, <1>10
     DEF Keeps, SameFields, SameMons, SameKilled, SameClosed, SameRetired, NoBirth, children
<1> QED BY <1>9, <1>11, <1>12 DEF Moved, StepAt

\* The launch an actor has in flight.
LEMMA InFlight ==
    ASSUME Inv, NEW a \in Actors, actor[a].pc = "launching"
    PROVE  /\ actor[a].p \in Procs /\ actor[a].g \in Gens /\ actor[a].g <= gen[actor[a].p]
           /\ ActorLaunches(a, actor[a].p, actor[a].g)
           /\ \A b \in Actors : ActorLaunches(b, actor[a].p, actor[a].g) => a = b
           /\ \A g \in Gens : ~MonitorLaunches(actor[a].p, g, actor[a].g)
<1>1. actor[a].p \in Procs /\ actor[a].g \in 0..MaxGen BY DEF Inv, TypeInv, Actor
<1>2. ActorLaunches(a, actor[a].p, actor[a].g) BY DEF ActorLaunches
<1>3. actor[a].g \in 1..gen[actor[a].p] /\ gen[actor[a].p] \in 0..MaxGen
  BY <1>1, <1>2 DEF Inv, General, Launches, TypeInv
<1>4. actor[a].g \in Gens BY <1>3, BoundsAssumption DEF Gens
<1> QED BY <1>1, <1>2, <1>3, <1>4 DEF Inv, General, Launches

\* startOne of StartAll and of Start returns.
LEMMA LandsMove ==
    ASSUME Inv, overlap' \subseteq Procs, NEW a \in Actors, actor[a].pc = "launching",
           Land(actor[a].p, actor[a].g, mon) \/ Misfire(actor[a].p, actor[a].g, mon),
           started' \subseteq Procs, UNCHANGED <<down, retired>>
    PROVE  \A r : /\ Fits(a, r) /\ actor' = [actor EXCEPT ![a] = r]
                  /\ r.pc \notin {"launching", "waiting", "deps"}
                  => Moved
<1> SUFFICES ASSUME NEW r, Fits(a, r), actor' = [actor EXCEPT ![a] = r],
                    r.pc \notin {"launching", "waiting", "deps"}
             PROVE  Moved
  OBVIOUS
<1>1. /\ ActorsType' /\ actor'[a] = r
      /\ \A b \in Actors : b # a => actor'[b] = actor[b]
  BY ActorsFit DEF Inv
<1>2. PICK p \in Procs : \E h \in Gens :
         /\ p = actor[a].p /\ h = actor[a].g /\ ActorLaunches(a, p, h)
         /\ \A b \in Actors : ActorLaunches(b, p, h) => a = b
         /\ \A g \in Gens : ~MonitorLaunches(p, g, h)
  BY InFlight
<1>3. PICK h \in Gens :
         /\ p = actor[a].p /\ h = actor[a].g /\ ActorLaunches(a, p, h)
         /\ \A b \in Actors : ActorLaunches(b, p, h) => a = b
         /\ \A g \in Gens : ~MonitorLaunches(p, g, h)
  BY <1>2
<1>4. \A q \in Procs : ActorsKeep(q) BY <1>1 DEF ActorsKeep, ActorKeeps
<1>5. \A b \in Actors : ~ActorLaunches(b, p, h)' BY <1>1, <1>3 DEF ActorLaunches
<1>6. CASE Land(p, h, mon)
  <2>1. /\ FieldsType' /\ ChildrenType' /\ NewMonitor(p, h) \in Monitor
        /\ mon' = [mon EXCEPT ![p][h] = NewMonitor(p, h)]
        /\ child'[p][h] = "alive"
        /\ \A q \in Procs, g \in Gens : q # p \/ g # h => child'[q][g] = child[q][g]
        /\ gen[p] = h => /\ pid'[p] = h /\ state'[p] = "running"
                         /\ cancel'[p] = h /\ exited'[p] = h
        /\ gen[p] # h => UNCHANGED <<pid, state, cancel, exited>>
        /\ \A q \in Procs \ {p} : /\ pid'[q] = pid[q] /\ state'[q] = state[q]
                                  /\ cancel'[q] = cancel[q] /\ exited'[q] = exited[q]
        /\ UNCHANGED <<gen, killed, closed, faults>>
    BY <1>6, LandFacts DEF Inv
  <2>2. PICK m \in Monitor : m = NewMonitor(p, h) BY <2>1
  <2>3. mon' = [mon EXCEPT ![p][h] = m] BY <2>1, <2>2
  <2>4. mon' \in [Procs -> [Gens -> Monitor]] /\ mon'[p][h] = m
    <3>1. TypeInv BY DEF Inv
    <3>2. mon' \in [Procs -> [Gens -> Monitor]] BY <2>3, <3>1, MonUpdate
    <3>3. mon'[p][h] = m
      <4>1. mon \in [Procs -> [Gens -> Monitor]] BY <3>1 DEF TypeInv
      <4> QED BY <2>3, <4>1, Zenon
    <3> QED BY <3>2, <3>3
  <2>5. \A q \in Procs, g \in Gens : q # p \/ g # h => mon'[q][g] = mon[q][g]
    BY <2>3, MonUpdate DEF Inv
  <2>6. m.pc = "fresh" /\ (gen[p] = h => m.chan = h)
    BY <2>2 DEF NewMonitor, NoMonitor
  <2>7. TypeInv' BY <1>1, <2>1, <2>4 DEF Inv, TypeInv, FieldsType, ChildrenType, ActorsType
  <2>8. LandsAt(p, h)
    <3>1. Ends(p, h)
      BY <1>3, <1>4, <1>5, <2>1, <2>5
         DEF Ends, Launched, SameKilled, SameClosed, SameRetired
    <3> QED BY <2>1, <2>4, <2>6, <3>1 DEF LandsAt, SameFields
  <2>9. ASSUME NEW q \in Procs \ {p} PROVE Keeps(q)
    BY <1>4, <2>1, <2>5
       DEF Keeps, SameFields, SameMons, SameKilled, SameClosed, SameRetired, NoBirth
  <2> QED BY <2>7, <2>8, <2>9 DEF Moved, StepAt
<1>7. CASE Misfire(p, h, mon)
  <2>1. /\ FieldsType' /\ ChildrenType' /\ mon' = mon
        /\ state'[p] = IF gen[p] = h THEN "crashed" ELSE state[p]
        /\ \A q \in Procs \ {p} : state'[q] = state[q]
        /\ UNCHANGED <<gen, pid, cancel, exited, children>>
    BY <1>7, MisfireFacts DEF Inv
  <2>2. TypeInv' BY <1>1, <2>1 DEF Inv, TypeInv, FieldsType, ChildrenType, ActorsType
  <2>3. FailsAt(p, h)
    <3>1. Ends(p, h)
      BY <1>3, <1>4, <1>5, <2>1 DEF Ends, Launched, SameKilled, SameClosed, SameRetired, children
    <3> QED BY <2>1, <3>1 DEF FailsAt, children
  <2>4. ASSUME NEW q \in Procs \ {p} PROVE Keeps(q)
    BY <1>4, <2>1
       DEF Keeps, SameFields, SameMons, SameKilled, SameClosed, SameRetired, NoBirth, children
  <2> QED BY <2>2, <2>3, <2>4 DEF Moved, StepAt
<1> QED BY <1>3, <1>6, <1>7

\* StartAll leaving launch lands or fails its process and keeps the others.
LEMMA MainLandsMoves == ASSUME Inv, overlap' \subseteq Procs, MainLands PROVE Moved
<1> USE ActorNames
<1>1. actor[Main].pc = "launching" /\ actor[Main] \in Actor /\ UNCHANGED <<down, retired>>
  BY DEF MainLands, Inv, TypeInv
<1>2. CASE /\ Land(actor[Main].p, actor[Main].g, mon)
           /\ started' = started \cup {actor[Main].p}
           /\ actor' = [actor EXCEPT ![Main] = [IdleActor EXCEPT
                  !.pc = IF actor[Main].todo \ {actor[Main].p} = {} THEN "select" ELSE "launch",
                  !.todo = actor[Main].todo \ {actor[Main].p}]]
  <2>1. PICK P \in SUBSET Procs : P = actor[Main].todo \ {actor[Main].p} BY <1>1 DEF Actor
  <2>2. PICK pc \in {"select", "launch"} : pc = IF P = {} THEN "select" ELSE "launch" OBVIOUS
  <2>3. LET s == [IdleActor EXCEPT !.pc = pc, !.todo = P] IN s \in Actor /\ s.pc = pc
    BY IdleFacts DEF Actor, IdleActor
  <2>4. PICK r \in Actor : r = [IdleActor EXCEPT !.pc = pc, !.todo = P] /\ r.pc = pc BY <2>3
  <2>5. actor' = [actor EXCEPT ![Main] = r] BY <1>2, <2>1, <2>2, <2>4
  <2>6. Fits(Main, r) BY <2>4 DEF Fits
  <2>7. started' \subseteq Procs BY <1>1, <1>2 DEF Inv, TypeInv
  <2> QED BY <1>1, <1>2, <2>4, <2>5, <2>6, <2>7, LandsMove
<1>3. CASE /\ Misfire(actor[Main].p, actor[Main].g, mon)
           /\ actor' = [actor EXCEPT ![Main] = [IdleActor EXCEPT !.pc = "done"]]
           /\ UNCHANGED started
  <2>1. LET s == [IdleActor EXCEPT !.pc = "done"] IN s \in Actor /\ s.pc = "done"
    BY IdleFacts DEF Actor, IdleActor
  <2>2. PICK r \in Actor : r = [IdleActor EXCEPT !.pc = "done"] /\ r.pc = "done" BY <2>1
  <2>3. actor' = [actor EXCEPT ![Main] = r] BY <1>3, <2>2
  <2>4. Fits(Main, r) BY <2>2 DEF Fits
  <2>5. started' \subseteq Procs BY <1>3 DEF Inv, TypeInv
  <2> QED BY <1>1, <1>3, <2>2, <2>3, <2>4, <2>5, LandsMove
<1> QED BY <1>2, <1>3 DEF MainLands

\* A start request leaving launch lands or fails its process and keeps the others.
LEMMA StartLandsMoves ==
    ASSUME Inv, overlap' \subseteq Procs, NEW c \in Clients, StartLands(c)
    PROVE  Moved
<1> USE ActorNames
<1>1. /\ actor[c].pc = "launching" /\ UNCHANGED <<started, down, retired>>
      /\ actor' = [actor EXCEPT ![c] = IdleActor]
      /\ Land(actor[c].p, actor[c].g, mon) \/ Misfire(actor[c].p, actor[c].g, mon)
  BY DEF StartLands, Goes
<1>2. Fits(c, IdleActor) /\ IdleActor.pc = "idle" BY IdleFacts DEF Fits, IdleActor
<1> QED BY <1>1, <1>2, LandsMove DEF Inv, TypeInv

\* startOne of a restart returns, and the old monitor is over.
LEMMA RestartLandsMoves ==
    ASSUME Inv, overlap' \subseteq Procs, NEW p \in Procs, NEW g \in Gens, RestartLands(p, g)
    PROVE  Moved
<1>1. mon[p][g].pc = "launching" /\ UNCHANGED <<actor, started, down, retired>>
  BY DEF RestartLands
<1>2. mon[p][g] \in Monitor /\ mon[p][g].next \in 0..MaxGen BY DEF Inv, TypeInv, Monitor
<1>3. PICK h \in 0..MaxGen : h = mon[p][g].next BY <1>2
<1>4. MonitorLaunches(p, g, h) BY <1>1, <1>3 DEF MonitorLaunches
<1>5. /\ h \in 1..gen[p] /\ g < h /\ mon[p][h].pc = "none"
      /\ \A k \in Gens : MonitorLaunches(p, k, h) => g = k
  BY <1>4 DEF Inv, General, Launches
<1>6. h \in Gens /\ h # g
  BY <1>5, BoundsAssumption DEF Inv, TypeInv, Gens
<1>7. \A a \in Actors : ~ActorLaunches(a, p, h) BY <1>3, <1>4 DEF Inv, General, Launches
<1>8. LET s == [mon[p][g] EXCEPT !.pc = "closing"]
      IN  s \in Monitor /\ s.pc = "closing" /\ s.chan = mon[p][g].chan
  BY <1>2 DEF Monitor
<1>9. PICK m \in Monitor : /\ m = [mon[p][g] EXCEPT !.pc = "closing"]
                           /\ m.pc = "closing" /\ m.chan = mon[p][g].chan
  BY <1>8
<1>10. PICK over : over = [mon EXCEPT ![p][g] = m] OBVIOUS
<1>11. Land(p, h, over) \/ Misfire(p, h, over) BY <1>3, <1>9, <1>10 DEF RestartLands
<1>12. /\ over \in [Procs -> [Gens -> Monitor]] /\ over[p][g] = m
       /\ \A q \in Procs, k \in Gens : q # p \/ k # g => over[q][k] = mon[q][k]
  <2>1. mon \in [Procs -> [Gens -> Monitor]] BY DEF Inv, TypeInv
  <2> QED BY <1>10, <2>1
<1>13. \A q \in Procs : ActorsKeep(q) BY <1>1 DEF ActorsKeep, ActorKeeps
<1>14. \A a \in Actors : ~ActorLaunches(a, p, h)' BY <1>1, <1>7 DEF ActorLaunches
<1>15. ASSUME \A k \in Gens \ {h} : mon'[p][k] = over[p][k],
              SameKilled(p), SameClosed(p), gen'[p] = gen[p]
       PROVE  Ends(p, h)
  <2>1. ASSUME NEW k \in Gens \ {h}
        PROVE  \/ mon'[p][k] = mon[p][k] /\ ~MonitorLaunches(p, k, h)
               \/ /\ MonitorLaunches(p, k, h)
                  /\ mon'[p][k].pc = "closing" /\ mon'[p][k].chan = mon[p][k].chan
    <3>1. CASE k = g BY <1>4, <1>9, <1>12, <1>15, <3>1
    <3>2. CASE k # g BY <1>5, <1>12, <1>15, <3>2
    <3> QED BY <3>1, <3>2
  <2> QED BY <1>1, <1>4, <1>6, <1>13, <1>14, <1>15, <2>1 DEF Ends, Launched, SameRetired
<1>16. CASE Land(p, h, over)
  <2>1. /\ FieldsType' /\ ChildrenType' /\ NewMonitor(p, h) \in Monitor
        /\ mon' = [over EXCEPT ![p][h] = NewMonitor(p, h)]
        /\ child'[p][h] = "alive"
        /\ \A q \in Procs, k \in Gens : q # p \/ k # h => child'[q][k] = child[q][k]
        /\ gen[p] = h => /\ pid'[p] = h /\ state'[p] = "running"
                         /\ cancel'[p] = h /\ exited'[p] = h
        /\ gen[p] # h => UNCHANGED <<pid, state, cancel, exited>>
        /\ \A q \in Procs \ {p} : /\ pid'[q] = pid[q] /\ state'[q] = state[q]
                                  /\ cancel'[q] = cancel[q] /\ exited'[q] = exited[q]
        /\ UNCHANGED <<gen, killed, closed, faults>>
    BY <1>6, <1>16, LandFacts DEF Inv
  <2>2. PICK n \in Monitor : n = NewMonitor(p, h) BY <2>1
  <2>3. mon' = [over EXCEPT ![p][h] = n] BY <2>1, <2>2
  <2>4. /\ mon' \in [Procs -> [Gens -> Monitor]] /\ mon'[p][h] = n
        /\ \A q \in Procs, k \in Gens : q # p \/ k # h => mon'[q][k] = over[q][k]
    BY <1>6, <1>12, <2>3
  <2>5. n.pc = "fresh" /\ (gen[p] = h => n.chan = h) BY <2>2 DEF NewMonitor, NoMonitor
  <2>6. TypeInv' BY <1>1, <2>1, <2>4 DEF Inv, TypeInv, FieldsType, ChildrenType
  <2>7. LandsAt(p, h)
    <3>1. Ends(p, h) BY <1>15, <2>1, <2>4 DEF SameKilled, SameClosed
    <3> QED BY <2>1, <2>4, <2>5, <3>1 DEF LandsAt, SameFields
  <2>8. ASSUME NEW q \in Procs \ {p} PROVE Keeps(q)
    BY <1>1, <1>12, <1>13, <2>1, <2>4
       DEF Keeps, SameFields, SameMons, SameKilled, SameClosed, SameRetired, NoBirth
  <2> QED BY <1>6, <2>6, <2>7, <2>8 DEF Moved, StepAt
<1>17. CASE Misfire(p, h, over)
  <2>1. /\ FieldsType' /\ ChildrenType' /\ mon' = over
        /\ state'[p] = IF gen[p] = h THEN "crashed" ELSE state[p]
        /\ \A q \in Procs \ {p} : state'[q] = state[q]
        /\ UNCHANGED <<gen, pid, cancel, exited, children>>
    BY <1>6, <1>17, MisfireFacts DEF Inv
  <2>2. TypeInv' BY <1>1, <1>12, <2>1 DEF Inv, TypeInv, FieldsType, ChildrenType
  <2>3. FailsAt(p, h)
    <3>1. Ends(p, h) BY <1>15, <2>1 DEF SameKilled, SameClosed, children
    <3> QED BY <1>6, <1>12, <2>1, <3>1 DEF FailsAt, children
  <2>4. ASSUME NEW q \in Procs \ {p} PROVE Keeps(q)
    BY <1>1, <1>12, <1>13, <2>1
       DEF Keeps, SameFields, SameMons, SameKilled, SameClosed, SameRetired, NoBirth, children
  <2> QED BY <1>6, <2>2, <2>3, <2>4 DEF Moved, StepAt
<1> QED BY <1>11, <1>16, <1>17

\* Stop and StopAll cancel the current launch.
LEMMA HaltsMove ==
    ASSUME Inv, overlap' \subseteq Procs, NEW c \in Clients, NEW p \in Procs, gen[p] < MaxGen,
           gen' = [gen EXCEPT ![p] = @ + 1], cancel' = [cancel EXCEPT ![p] = 0],
           killed' = IF cancel[p] = 0 THEN killed
                     ELSE [killed EXCEPT ![p][cancel[p]] = TRUE],
           UNCHANGED <<pid, exited, child, closed, mon, started, down, retired>>
    PROVE  \A r, s :
               /\ Fits(c, r) /\ actor' = [actor EXCEPT ![c] = r]
               /\ r.pc \in {"waiting", "stopall"} /\ s \in {"stopping", "stopped"}
               /\ r.pc = "waiting" => r.p = p /\ s = "stopping"
               /\ ClientOn(c, p) \/ r.p = p \/ p \in r.todo
               /\ state' = [state EXCEPT ![p] = s]
               => Moved
<1> SUFFICES ASSUME NEW r, NEW s,
                    Fits(c, r), actor' = [actor EXCEPT ![c] = r],
                    r.pc \in {"waiting", "stopall"}, s \in {"stopping", "stopped"},
                    r.pc = "waiting" => r.p = p /\ s = "stopping",
                    ClientOn(c, p) \/ r.p = p \/ p \in r.todo,
                    state' = [state EXCEPT ![p] = s]
             PROVE  Moved
  OBVIOUS
<1>1. /\ ActorsType' /\ actor'[c] = r
      /\ \A b \in Actors : b # c => actor'[b] = actor[b]
  BY ActorsFit, ActorNames DEF Inv
<1>2. /\ FieldsType' /\ gen'[p] = gen[p] + 1 /\ gen[p] + 1 \in Gens
      /\ state'[p] = s /\ cancel'[p] = 0
      /\ \A q \in Procs \ {p} : /\ gen'[q] = gen[q] /\ state'[q] = state[q]
                                /\ cancel'[q] = cancel[q]
  BY BoundsAssumption DEF Inv, TypeInv, FieldsType, Gens, States
<1>3. killed' \in [Procs -> [Gens -> BOOLEAN]]
  BY DEF Inv, TypeInv
<1>4. \A g \in Gens : killed'[p][g] <=> (killed[p][g] \/ g = cancel[p])
  <2>1. CASE cancel[p] = 0 BY <2>1, BoundsAssumption DEF Gens
  <2>2. CASE cancel[p] # 0
    <3>1. killed' = [killed EXCEPT ![p][cancel[p]] = TRUE] BY <2>2
    <3> QED BY <3>1 DEF Inv, TypeInv
  <2> QED BY <2>1, <2>2
<1>5. \A q \in Procs \ {p} : SameKilled(q)
  <2>1. killed \in [Procs -> [Gens -> BOOLEAN]] BY DEF Inv, TypeInv
  <2> QED BY <2>1 DEF SameKilled
<1>6. TypeInv' BY <1>1, <1>2, <1>3 DEF Inv, TypeInv, FieldsType, ActorsType
<1>7. HaltsAt(p, c)
  <2>1. \A a \in Actors \ {c} : actor'[a] = actor[a] BY <1>1
  <2>2. ClientOn(c, p) \/ ClientOn(c, p)' BY <1>1 DEF ClientOn
  <2> QED BY <1>1, <1>2, <1>4, <2>1, <2>2 DEF HaltsAt, SameMons, SameClosed, SameRetired
<1>8. ASSUME NEW q \in Procs \ {p} PROVE Keeps(q)
  <2>1. ActorsKeep(q) BY <1>1 DEF ActorsKeep, ActorKeeps
  <2> QED BY <1>2, <1>5, <2>1
          DEF Keeps, SameFields, SameMons, SameClosed, SameRetired, NoBirth
<1> QED BY <1>6, <1>7, <1>8 DEF Moved, StepAt

\* A stop or restart request cancels its process and keeps the others.
LEMMA StopBeginsMoves ==
    ASSUME Inv, overlap' \subseteq Procs, NEW c \in Clients, NEW p \in Procs,
           NEW again \in BOOLEAN, StopBegins(c, p, again)
    PROVE  Moved
<1>1. exited[p] \in 0..MaxGen BY DEF Inv, TypeInv
<1>2. LET s == [IdleActor EXCEPT !.pc = "waiting", !.p = p, !.g = exited[p], !.again = again]
      IN  s \in Actor /\ s.pc = "waiting" /\ s.p = p
  BY <1>1, IdleFacts DEF Actor
<1>3. PICK r \in Actor :
         /\ r = [IdleActor EXCEPT !.pc = "waiting", !.p = p, !.g = exited[p], !.again = again]
         /\ r.pc = "waiting" /\ r.p = p
  BY <1>2
<1>4. actor' = [actor EXCEPT ![c] = r] BY <1>3 DEF StopBegins, Goes
<1>5. Fits(c, r) BY <1>3, ActorNames DEF Fits
<1>6. /\ gen[p] < MaxGen
      /\ gen' = [gen EXCEPT ![p] = @ + 1] /\ cancel' = [cancel EXCEPT ![p] = 0]
      /\ state' = [state EXCEPT ![p] = "stopping"]
      /\ killed' = IF cancel[p] = 0 THEN killed ELSE [killed EXCEPT ![p][cancel[p]] = TRUE]
      /\ UNCHANGED <<pid, exited, child, closed, mon, started, down, retired>>
  BY DEF StopBegins
<1> QED BY <1>3, <1>4, <1>5, <1>6, HaltsMove

\* StopAll reaching one process cancels it and keeps the others.
LEMMA StopAllVisitsMoves ==
    ASSUME Inv, overlap' \subseteq Procs, NEW c \in Clients, NEW p \in Procs,
           StopAllVisits(c, p)
    PROVE  Moved
<1>1. actor[c] \in Actor /\ actor[c].pc = "stopall" /\ p \in actor[c].todo
  BY ActorNames DEF StopAllVisits, Inv, TypeInv
<1>2. PICK P \in SUBSET Procs : P = actor[c].todo \ {p} BY <1>1 DEF Actor
<1>3. LET s == [actor[c] EXCEPT !.todo = P] IN s \in Actor /\ s.pc = "stopall"
  BY <1>1 DEF Actor
<1>4. PICK r \in Actor : r = [actor[c] EXCEPT !.todo = P] /\ r.pc = "stopall" BY <1>3
<1>5. actor' = [actor EXCEPT ![c] = [actor[c] EXCEPT !.todo = actor[c].todo \ {p}]]
  BY DEF StopAllVisits, Goes
<1>6. actor' = [actor EXCEPT ![c] = r] BY <1>2, <1>4, <1>5
<1>7. Fits(c, r) BY <1>4, ActorNames DEF Fits
<1>8. /\ gen[p] < MaxGen
      /\ gen' = [gen EXCEPT ![p] = @ + 1] /\ cancel' = [cancel EXCEPT ![p] = 0]
      /\ state' = [state EXCEPT ![p] = "stopped"]
      /\ killed' = IF cancel[p] = 0 THEN killed ELSE [killed EXCEPT ![p][cancel[p]] = TRUE]
      /\ UNCHANGED <<pid, exited, child, closed, mon, started, down, retired>>
  BY DEF StopAllVisits
<1>9. ClientOn(c, p) BY <1>1 DEF ClientOn
<1> QED BY <1>4, <1>6, <1>7, <1>8, <1>9, HaltsMove

\* A stop that has waited marks its process stopped and keeps the others.
LEMMA StopEndsMoves ==
    ASSUME Inv, overlap' \subseteq Procs, NEW c \in Clients, StopEnds(c)
    PROVE  Moved
<1>1. c \in Actors /\ c # Main /\ actor[c].pc = "waiting" /\ actor[c].p \in Procs
  BY ActorNames DEF StopEnds, Inv, TypeInv
<1>2. PICK p \in Procs : p = actor[c].p BY <1>1
<1>3. /\ pid' = [pid EXCEPT ![p] = 0] /\ state' = [state EXCEPT ![p] = "stopped"]
      /\ exited' = [exited EXCEPT ![p] = 0] /\ retired' = retired \cup {p}
      /\ UNCHANGED <<gen, cancel, children, mon, started, down>>
  BY <1>2 DEF StopEnds
<1>4. \E r \in Actor : /\ actor' = [actor EXCEPT ![c] = r] /\ r.pc \in {"idle", "check"}
                       /\ r.pc = "check" => r.p = p
  <2>1. CASE actor' = [actor EXCEPT ![c] = IdleActor]
    BY <2>1, IdleFacts DEF IdleActor
  <2>2. CASE actor' = [actor EXCEPT ![c] = [IdleActor EXCEPT !.pc = "check", !.p = p]]
    <3>1. LET s == [IdleActor EXCEPT !.pc = "check", !.p = p]
          IN  s \in Actor /\ s.pc = "check" /\ s.p = p
      BY IdleFacts DEF Actor, IdleActor
    <3>2. PICK r \in Actor : /\ r = [IdleActor EXCEPT !.pc = "check", !.p = p]
                             /\ r.pc = "check" /\ r.p = p
      BY <3>1
    <3> QED BY <2>2, <3>2
  <2> QED BY <1>2, <2>1, <2>2 DEF StopEnds, Goes
<1>5. PICK r \in Actor : /\ actor' = [actor EXCEPT ![c] = r] /\ r.pc \in {"idle", "check"}
                         /\ r.pc = "check" => r.p = p
  BY <1>4
<1>6. Fits(c, r) BY <1>1, <1>5 DEF Fits
<1>7. /\ ActorsType' /\ actor'[c] = r
      /\ \A b \in Actors : b # c => actor'[b] = actor[b]
  BY <1>1, <1>5, <1>6, ActorsFit DEF Inv
<1>8. FieldsType' BY <1>3, BoundsAssumption DEF Inv, TypeInv, FieldsType, States
<1>9. TypeInv' BY <1>3, <1>7, <1>8 DEF Inv, TypeInv, FieldsType, ActorsType, children
<1>10. \A q \in Procs : ActorsKeep(q) BY <1>5, <1>7 DEF ActorsKeep, ActorKeeps
<1>11. /\ state'[p] = "stopped"
       /\ \A q \in Procs \ {p} : state'[q] = state[q] /\ pid'[q] = pid[q]
  BY <1>3 DEF Inv, TypeInv
<1>12. StopsAt(p, c)
  BY <1>1, <1>2, <1>3, <1>5, <1>7, <1>10, <1>11
     DEF StopsAt, SameMons, SameKilled, SameClosed, NoBirth, children
<1>13. ASSUME NEW q \in Procs \ {p} PROVE Keeps(q)
  BY <1>3, <1>10, <1>11
     DEF Keeps, SameFields, SameMons, SameKilled, SameClosed, SameRetired, NoBirth, children
<1> QED BY <1>9, <1>12, <1>13 DEF Moved, StepAt

\* A child exits.
LEMMA ChildExitsMoves ==
    ASSUME Inv, overlap' \subseteq Procs, NEW p \in Procs, NEW g \in Gens, ChildExits(p, g)
    PROVE  Moved
<1>1. /\ child[p][g] = "alive" /\ child' = [child EXCEPT ![p][g] = "exited"]
      /\ UNCHANGED <<proc, killed, closed, mon, actor, started, down, retired>>
  BY DEF ChildExits
<1>2. /\ child' \in [Procs -> [Gens -> {"none", "alive", "exited"}]]
      /\ \A q \in Procs : NoBirth(q)
  BY <1>1 DEF Inv, TypeInv, NoBirth
<1>3. TypeInv' BY <1>1, <1>2 DEF Inv, TypeInv, proc
<1>4. ASSUME NEW q \in Procs PROVE Keeps(q)
  <2>1. ActorsKeep(q) BY <1>1 DEF ActorsKeep, ActorKeeps
  <2> QED BY <1>1, <1>2, <2>1
          DEF Keeps, SameFields, SameMons, SameKilled, SameClosed, SameRetired, proc
<1> QED BY <1>3, <1>4 DEF Moved, StepAt

\* A monitor that changes its pc, when the rest is what TurnsAt allows.
LEMMA TurnsMove ==
    ASSUME Inv, overlap' \subseteq Procs, NEW p \in Procs, NEW g \in Gens,
           UNCHANGED <<gen, pid, cancel, exited, child, actor, started, retired>>,
           state' \in [Procs -> States], \A q \in Procs \ {p} : state'[q] = state[q],
           killed' \in [Procs -> [Gens -> BOOLEAN]], \A q \in Procs \ {p} : SameKilled(q),
           closed' \in [Procs -> [Gens -> BOOLEAN]], \A q \in Procs \ {p} : SameClosed(q),
           down' \in {"no", "exit", "panic"},
           mon' \in [Procs -> [Gens -> Monitor]], TurnsAt(p, g),
           \A q \in Procs, h \in Gens : q # p \/ h # g => mon'[q][h] = mon[q][h]
    PROVE  Moved
<1>1. TypeInv' BY DEF Inv, TypeInv
<1>2. ASSUME NEW q \in Procs \ {p} PROVE Keeps(q)
  BY DEF Keeps, SameFields, SameMons, SameRetired, NoBirth, ActorsKeep, ActorKeeps
<1> QED BY <1>1, <1>2 DEF Moved, StepAt

\* The first step of a monitor turns only its process.
LEMMA MonitorStartsMoves ==
    ASSUME Inv, overlap' \subseteq Procs, NEW p \in Procs, NEW g \in Gens, MonitorStarts(p, g)
    PROVE  Moved
<1>1. /\ mon[p][g].pc = "fresh" /\ Moves(p, g, "watch")
      /\ state' = state \/ MarkHealthy(p, g)
      /\ UNCHANGED <<gen, pid, cancel, exited, children, actor, started, down, retired>>
  BY DEF MonitorStarts
<1>2. /\ mon' \in [Procs -> [Gens -> Monitor]]
      /\ mon'[p][g].pc = "watch" /\ mon'[p][g].chan = mon[p][g].chan
      /\ \A q \in Procs, h \in Gens : q # p \/ h # g => mon'[q][h] = mon[q][h]
  BY <1>1, MovesFacts DEF Inv
<1>3. /\ state' \in [Procs -> States] /\ \A q \in Procs \ {p} : state'[q] = state[q]
      /\ state'[p] = state[p] \/ (gen[p] = g /\ state[p] # "stopped" /\ state'[p] = "healthy")
  BY <1>1 DEF MarkHealthy, MayMark, Inv, TypeInv, States
<1>4. TurnsAt(p, g)
  BY <1>1, <1>2, <1>3
     DEF TurnsAt, SameRetired, ActorsKeep, ActorKeeps, children
<1> QED BY <1>1, <1>2, <1>3, <1>4, TurnsMove
        DEF Inv, TypeInv, children, SameKilled, SameClosed

\* A successful probe turns only its process.
LEMMA ProbeSucceedsMoves ==
    ASSUME Inv, overlap' \subseteq Procs, NEW p \in Procs, NEW g \in Gens, ProbeSucceeds(p, g)
    PROVE  Moved
<1>1. /\ mon[p][g].pc = "watch" /\ mon' = [mon EXCEPT ![p][g].fails = 0]
      /\ MarkHealthy(p, g)
      /\ UNCHANGED <<gen, pid, cancel, exited, children, actor, started, down, retired>>
  BY DEF ProbeSucceeds
<1>2. /\ mon' \in [Procs -> [Gens -> Monitor]]
      /\ mon'[p][g].pc = "watch" /\ mon'[p][g].chan = mon[p][g].chan
      /\ \A q \in Procs, h \in Gens : q # p \/ h # g => mon'[q][h] = mon[q][h]
  <2>1. mon[p][g] \in Monitor BY DEF Inv, TypeInv
  <2>2. LET s == [mon[p][g] EXCEPT !.fails = 0]
        IN  s \in Monitor /\ s.pc = "watch" /\ s.chan = mon[p][g].chan
    BY <1>1, <2>1 DEF Monitor
  <2>3. PICK m \in Monitor : /\ m = [mon[p][g] EXCEPT !.fails = 0]
                             /\ m.pc = "watch" /\ m.chan = mon[p][g].chan
    BY <2>2
  <2>4. mon' = [mon EXCEPT ![p][g] = m] BY <1>1, <2>3
  <2>5. mon' \in [Procs -> [Gens -> Monitor]] /\ mon'[p][g] = m
    BY <2>4, MonUpdate DEF Inv
  <2>6. \A q \in Procs, h \in Gens : q # p \/ h # g => mon'[q][h] = mon[q][h]
    BY <2>4, MonUpdate DEF Inv
  <2> QED BY <2>3, <2>5, <2>6
<1>3. /\ state' \in [Procs -> States] /\ \A q \in Procs \ {p} : state'[q] = state[q]
      /\ state'[p] = state[p] \/ (gen[p] = g /\ state[p] # "stopped" /\ state'[p] = "healthy")
  BY <1>1 DEF MarkHealthy, MayMark, Inv, TypeInv, States
<1>4. TurnsAt(p, g)
  BY <1>1, <1>2, <1>3
     DEF TurnsAt, SameRetired, ActorsKeep, ActorKeeps, children
<1>5. /\ UNCHANGED <<gen, pid, cancel, exited, child, actor, started, retired>>
      /\ killed' \in [Procs -> [Gens -> BOOLEAN]] /\ \A q \in Procs \ {p} : SameKilled(q)
      /\ closed' \in [Procs -> [Gens -> BOOLEAN]] /\ \A q \in Procs \ {p} : SameClosed(q)
      /\ down' \in {"no", "exit", "panic"}
  BY <1>1 DEF Inv, TypeInv, children, SameKilled, SameClosed
<1> QED BY <1>2, <1>3, <1>4, <1>5, TurnsMove

\* restartProcess, for a child that is gone or was replaced.
LEMMA RecordMoves ==
    ASSUME Inv, overlap' \subseteq Procs, NEW p \in Procs, NEW g \in Gens, RecordCrash(p, g),
           mon[p][g].pc \in {"watch", "killing"}, child[p][g] = "exited" \/ gen[p] # g,
           UNCHANGED <<children, actor, started, down, retired>>
    PROVE  Moved
<1>1. PICK pc \in {"backoff", "closing"} :
         /\ Moves(p, g, pc)
         /\ IF MayRecord(p, g) THEN pc = "backoff" ELSE pc = "closing"
  BY DEF RecordCrash
<1>2. /\ mon' \in [Procs -> [Gens -> Monitor]]
      /\ mon'[p][g].pc = pc /\ mon'[p][g].chan = mon[p][g].chan
      /\ \A q \in Procs, h \in Gens : q # p \/ h # g => mon'[q][h] = mon[q][h]
  BY <1>1, MovesFacts DEF Inv
<1>3. /\ state' \in [Procs -> States] /\ \A q \in Procs \ {p} : state'[q] = state[q]
      /\ state'[p] = IF MayRecord(p, g) THEN "crashed" ELSE state[p]
      /\ UNCHANGED <<gen, pid, cancel, exited>>
  BY DEF RecordCrash, Inv, TypeInv, States
<1>4. TurnsAt(p, g)
  <2>1. CASE MayRecord(p, g)
    BY <1>1, <1>2, <1>3, <2>1
       DEF TurnsAt, MayRecord, SameRetired, ActorsKeep, ActorKeeps, children
  <2>2. CASE ~MayRecord(p, g)
    BY <1>1, <1>2, <1>3, <2>2
       DEF TurnsAt, MayRecord, SameRetired, ActorsKeep, ActorKeeps, children
  <2> QED BY <2>1, <2>2
<1> QED BY <1>2, <1>3, <1>4, TurnsMove DEF Inv, TypeInv, children, SameKilled, SameClosed

\* The steps of a monitor that only change its pc.
LEMMA WaitMoves ==
    ASSUME Inv, overlap' \subseteq Procs, NEW p \in Procs, NEW g \in Gens,
           SeesCancel(p, g) \/ WakesUp(p, g) \/ Drained(p, g)
    PROVE  Moved
<1>1. PICK pc \in {"draining", "relaunch", "closing"} :
         /\ Moves(p, g, pc)
         /\ mon[p][g].pc \in {"watch", "backoff", "draining"}
         /\ mon[p][g].pc = "watch" => killed[p][g]
         /\ pc = "relaunch" => StillCurrent(p, g) /\ mon[p][g].pc = "backoff"
  BY DEF SeesCancel, WakesUp, Drained
<1>2. /\ mon' \in [Procs -> [Gens -> Monitor]]
      /\ mon'[p][g].pc = pc /\ mon'[p][g].chan = mon[p][g].chan
      /\ \A q \in Procs, h \in Gens : q # p \/ h # g => mon'[q][h] = mon[q][h]
  BY <1>1, MovesFacts DEF Inv
<1>3. UNCHANGED <<proc, children, actor, started, down, retired>>
  BY DEF SeesCancel, WakesUp, Drained
<1>4. ~(gen[p] = g /\ state[p] \in {"running", "healthy"})
  <2>1. CASE mon[p][g].pc = "watch"
    BY <1>1, <2>1 DEF Inv, General, Named
  <2>2. CASE mon[p][g].pc # "watch" BY <1>1, <2>2 DEF Inv, General, Named
  <2> QED BY <2>1, <2>2
<1>5. pc = "relaunch" => gen[p] = g /\ state[p] = "crashed" /\ child[p][g] = "exited"
  BY <1>1 DEF StillCurrent, Inv, General, Exited
<1>6. TurnsAt(p, g)
  BY <1>1, <1>2, <1>3, <1>4, <1>5
     DEF TurnsAt, SameRetired, ActorsKeep, ActorKeeps, proc, children
<1> QED BY <1>2, <1>3, <1>6, TurnsMove
        DEF Inv, TypeInv, proc, children, SameKilled, SameClosed

\* A failed probe, the last one included, turns only its process.
LEMMA ProbeFailsMoves ==
    ASSUME Inv, overlap' \subseteq Procs, NEW p \in Procs, NEW g \in Gens, ProbeFails(p, g)
    PROVE  Moved
<1>1. /\ mon[p][g].pc = "watch" /\ mon[p][g] \in Monitor
      /\ UNCHANGED <<child, closed, actor, started, down, retired>>
  BY DEF ProbeFails, Inv, TypeInv
<1>2. CASE mon' = [mon EXCEPT ![p][g].fails = @ + 1] /\ UNCHANGED <<proc, killed>>
  <2>1. LET s == [mon[p][g] EXCEPT !.fails = mon[p][g].fails + 1]
        IN  s \in Monitor /\ s.pc = "watch" /\ s.chan = mon[p][g].chan
    BY <1>1 DEF Monitor
  <2>2. PICK m \in Monitor : /\ m = [mon[p][g] EXCEPT !.fails = mon[p][g].fails + 1]
                             /\ m.pc = "watch" /\ m.chan = mon[p][g].chan
    BY <2>1
  <2>3. mon' = [mon EXCEPT ![p][g] = m] BY <1>2, <2>2
  <2>4. mon' \in [Procs -> [Gens -> Monitor]] /\ mon'[p][g] = m
    BY <2>3, MonUpdate DEF Inv
  <2>5. \A q \in Procs, h \in Gens : q # p \/ h # g => mon'[q][h] = mon[q][h]
    BY <2>3, MonUpdate DEF Inv
  <2>6. TurnsAt(p, g)
    BY <1>1, <1>2, <2>2, <2>4, <2>5
       DEF TurnsAt, SameRetired, ActorsKeep, ActorKeeps, proc
  <2>7. /\ UNCHANGED <<gen, pid, cancel, exited, child, actor, started, retired>>
        /\ state' \in [Procs -> States] /\ \A q \in Procs \ {p} : state'[q] = state[q]
        /\ killed' \in [Procs -> [Gens -> BOOLEAN]] /\ \A q \in Procs \ {p} : SameKilled(q)
        /\ closed' \in [Procs -> [Gens -> BOOLEAN]] /\ \A q \in Procs \ {p} : SameClosed(q)
        /\ down' \in {"no", "exit", "panic"}
    BY <1>1, <1>2 DEF Inv, TypeInv, proc, SameKilled, SameClosed
  <2> QED BY <2>4, <2>5, <2>6, <2>7, TurnsMove
<1>3. CASE /\ gen[p] = g /\ killed' = [killed EXCEPT ![p][cancel[p]] = TRUE]
           /\ Moves(p, g, "killing") /\ UNCHANGED proc
  <2>1. cancel[p] = g BY <1>1, <1>3 DEF Inv, General, Named
  <2>2. /\ mon' \in [Procs -> [Gens -> Monitor]]
        /\ mon'[p][g].pc = "killing" /\ mon'[p][g].chan = mon[p][g].chan
        /\ \A q \in Procs, h \in Gens : q # p \/ h # g => mon'[q][h] = mon[q][h]
    BY <1>3, MovesFacts DEF Inv
  <2>3. /\ killed' \in [Procs -> [Gens -> BOOLEAN]]
        /\ \A q \in Procs \ {p} : SameKilled(q)
        /\ \A h \in Gens : /\ killed[p][h] => killed'[p][h]
                           /\ killed'[p][h] => killed[p][h] \/ h = g
    <3>1. killed \in [Procs -> [Gens -> BOOLEAN]] BY DEF Inv, TypeInv
    <3> QED BY <1>3, <2>1, <3>1 DEF SameKilled
  <2>4. TurnsAt(p, g)
    BY <1>1, <1>3, <2>2, <2>3
       DEF TurnsAt, SameRetired, ActorsKeep, ActorKeeps, proc
  <2>5. /\ UNCHANGED <<gen, pid, cancel, exited, child, actor, started, retired>>
        /\ state' \in [Procs -> States] /\ \A q \in Procs \ {p} : state'[q] = state[q]
        /\ closed' \in [Procs -> [Gens -> BOOLEAN]] /\ \A q \in Procs \ {p} : SameClosed(q)
        /\ down' \in {"no", "exit", "panic"}
    BY <1>1, <1>3 DEF Inv, TypeInv, proc, SameClosed
  <2> QED BY <2>2, <2>3, <2>4, <2>5, TurnsMove
<1>4. CASE ~(gen[p] = g /\ cancel[p] # 0) /\ RecordCrash(p, g) /\ UNCHANGED killed
  <2>1. gen[p] # g
    BY <1>1, <1>4, BoundsAssumption DEF Inv, General, Named, Gens
  <2> QED BY <1>1, <1>4, <2>1, RecordMoves DEF children
<1> QED BY <1>2, <1>3, <1>4 DEF ProbeFails

\* A monitor closing the exit channel turns only its process.
LEMMA ClosesMoves ==
    ASSUME Inv, overlap' \subseteq Procs, NEW p \in Procs, NEW g \in Gens, Closes(p, g)
    PROVE  Moved
<1>1. /\ mon[p][g].pc = "closing" /\ Moves(p, g, "over")
      /\ UNCHANGED <<proc, child, killed, actor, started, retired>>
      /\ \/ UNCHANGED closed
         \/ closed' = [closed EXCEPT ![p][mon[p][g].chan] = TRUE]
      /\ down' \in {"no", "exit", "panic"}
  BY DEF Closes, Inv, TypeInv
<1>2. /\ mon' \in [Procs -> [Gens -> Monitor]]
      /\ mon'[p][g].pc = "over" /\ mon'[p][g].chan = mon[p][g].chan
      /\ \A q \in Procs, h \in Gens : q # p \/ h # g => mon'[q][h] = mon[q][h]
  BY <1>1, MovesFacts DEF Inv
<1>3. /\ closed' \in [Procs -> [Gens -> BOOLEAN]]
      /\ \A q \in Procs \ {p} : SameClosed(q)
      /\ \A h \in Gens : closed'[p][h] => closed[p][h] \/ h = mon[p][g].chan
  <2>1. closed \in [Procs -> [Gens -> BOOLEAN]] BY DEF Inv, TypeInv
  <2>2. CASE UNCHANGED closed BY <2>1, <2>2 DEF SameClosed
  <2>3. CASE closed' = [closed EXCEPT ![p][mon[p][g].chan] = TRUE]
    <3>1. PICK ch : ch = mon[p][g].chan OBVIOUS
    <3>2. closed' = [closed EXCEPT ![p][ch] = TRUE] BY <2>3, <3>1
    <3>3. closed' \in [Procs -> [Gens -> BOOLEAN]] BY <2>1, <3>2
    <3>4. \A q \in Procs \ {p} : closed'[q] = closed[q] BY <2>1, <3>2
    <3>5. \A h \in Gens : closed'[p][h] => closed[p][h] \/ h = ch BY <2>1, <3>2
    <3> QED BY <3>1, <3>3, <3>4, <3>5 DEF SameClosed
  <2> QED BY <1>1, <2>2, <2>3
<1>4. ~(gen[p] = g /\ state[p] \in {"running", "healthy"})
  BY <1>1 DEF Inv, General, Named
<1>5. TurnsAt(p, g)
  BY <1>1, <1>2, <1>3, <1>4
     DEF TurnsAt, SameRetired, ActorsKeep, ActorKeeps, proc
<1> QED BY <1>1, <1>2, <1>3, <1>5, TurnsMove DEF Inv, TypeInv, proc, SameKilled

\* Every step of a monitor is one of the classified steps.
LEMMA MonitorMoves ==
    ASSUME Inv, overlap' \subseteq Procs, NEW p \in Procs, NEW g \in Gens, Monitoring(p, g)
    PROVE  Moved
<1>1. CASE SeesExit(p, g)
  <2>1. /\ RecordCrash(p, g) /\ mon[p][g].pc \in {"watch", "killing"} /\ child[p][g] = "exited"
        /\ UNCHANGED <<children, actor, started, down, retired>>
    BY <1>1 DEF SeesExit
  <2> QED BY <2>1, RecordMoves
<1> QED BY <1>1, MonitorStartsMoves, WaitMoves, RestartBeginsMoves, RestartLandsMoves, ClosesMoves
        DEF Monitoring

\* Every step of the supervisor is one of these.
LEMMA StepMoves == ASSUME Inv, Next PROVE Moved
<1>1. overlap' \subseteq Procs BY DEF Next, Step, Inv, TypeInv
<1>2. CASE Step(StartAll)
  BY <1>1, <1>2, SelectMoves, MainBeginsMoves, MainLandsMoves DEF Step, StartAll
<1>3. ASSUME NEW c \in Clients, Step(Requests(c)) \/ Step(Handling(c)) \/ Step(StopTimesOut(c))
      PROVE  Moved
  BY <1>1, <1>3, RequestMoves, CheckMoves, StopBeginsMoves, StopAllVisitsMoves,
     StopEndsMoves, StartBeginsMoves, StartLandsMoves
     DEF Step, Requests, Handling
<1>4. ASSUME NEW p \in Procs, NEW g \in Gens,
             \/ Step(Monitoring(p, g)) \/ Step(ChildExits(p, g))
             \/ Step(ProbeSucceeds(p, g)) \/ Step(ProbeFails(p, g))
      PROVE  Moved
  BY <1>1, <1>4, MonitorMoves, ChildExitsMoves, ProbeSucceedsMoves, ProbeFailsMoves DEF Step
<1> QED BY <1>2, <1>3, <1>4 DEF Next

-----------------------------------------------------------------------------
(* Launches, and what the supervisor shows *)

\* The types of one process.
LEMMA ProcTypes ==
    ASSUME TypeInv, NEW p \in Procs
    PROVE  /\ gen[p] \in 0..MaxGen /\ pid[p] \in 0..MaxGen /\ cancel[p] \in 0..MaxGen
           /\ gen[p] \in Nat /\ (gen[p] # 0 => gen[p] \in Gens)
           /\ (cancel[p] # 0 => cancel[p] \in Gens)
           /\ 0 \notin Gens /\ Gens \subseteq 0..MaxGen /\ Gens \subseteq Nat
BY BoundsAssumption DEF TypeInv, Gens

\* A launch of p that is in flight after the step was so before.
LEMMA FlightsKept ==
    ASSUME NEW p \in Procs, ActorsKeep(p), NEW a \in Actors, NEW h, ActorLaunches(a, p, h)'
    PROVE  ActorLaunches(a, p, h)
BY DEF ActorsKeep, ActorKeeps, ActorLaunches

\* A generation that has begun is older than the next one.
LEMMA Older ==
    ASSUME NEW g \in Nat, NEW n \in Nat, g <= n
    PROVE  g <= n + 1 /\ g < n + 1 /\ g # n + 1
OBVIOUS

\* What has a monitor is older than a generation that begins.
LEMMA LandedOlder ==
    ASSUME NEW p \in Procs, TypeInv, Landed(p), gen'[p] = gen[p] + 1
    PROVE  \A g \in Gens : mon[p][g].pc # "none" => g <= gen'[p] /\ g < gen'[p] /\ g # gen'[p]
<1> SUFFICES ASSUME NEW g \in Gens, mon[p][g].pc # "none"
             PROVE  g <= gen'[p] /\ g < gen'[p] /\ g # gen'[p]
  OBVIOUS
<1>1. g <= gen[p] BY DEF Landed
<1>2. g \in Nat /\ gen[p] \in Nat BY ProcTypes
<1>3. g <= gen[p] + 1 /\ g < gen[p] + 1 /\ g # gen[p] + 1 BY <1>1, <1>2, Older
<1> QED BY <1>3

\* A step of another process keeps the general invariants.
LEMMA KeepsGeneral ==
    ASSUME Inv, NEW p \in Procs, Keeps(p)
    PROVE  Launches(p)' /\ Landed(p)' /\ Named(p)'
<1>1. Launches(p) /\ Landed(p) /\ Named(p) BY DEF Inv, General
<1>2. /\ gen'[p] = gen[p] /\ state'[p] = state[p] /\ pid'[p] = pid[p] /\ cancel'[p] = cancel[p]
      /\ \A g \in Gens : /\ mon'[p][g] = mon[p][g] /\ killed'[p][g] = killed[p][g]
                         /\ child'[p][g] # "none" => child[p][g] # "none"
  BY DEF Keeps, SameFields, SameMons, SameKilled, NoBirth
<1>3. /\ gen[p] \in 0..MaxGen /\ (gen[p] # 0 => gen[p] \in Gens)
      /\ (cancel[p] # 0 => cancel[p] \in Gens)
  BY ProcTypes DEF Inv
<1>4. \A g \in Gens, h \in 0..MaxGen : MonitorLaunches(p, g, h)' <=> MonitorLaunches(p, g, h)
  BY <1>2 DEF MonitorLaunches
<1>5. \A a \in Actors, h \in 0..MaxGen : ActorLaunches(a, p, h)' => ActorLaunches(a, p, h)
  BY FlightsKept DEF Keeps
<1>6. \A h \in 0..MaxGen : h \in 1..gen[p] => h \in Gens BY <1>3, BoundsAssumption DEF Gens
<1>7. Launches(p)' BY <1>1, <1>2, <1>4, <1>5, <1>6 DEF Launches
<1>8. Landed(p)' BY <1>1, <1>2, <1>3 DEF Landed
<1>9. Named(p)'
  <2>1. gen[p] > 0 => gen[p] \in Gens BY <1>3, BoundsAssumption
  <2> QED BY <1>1, <1>2, <2>1 DEF Named
<1> QED BY <1>7, <1>8, <1>9

\* The new generation has no monitor and no launch yet.
LEMMA BeginsGeneral ==
    ASSUME Inv, NEW p \in Procs,
           \/ \E a \in Actors : StartsAt(p, a)
           \/ \E g \in Gens : RestartsAt(p, g)
    PROVE  Launches(p)' /\ Landed(p)' /\ Named(p)'
<1>1. Launches(p) /\ Landed(p) /\ Named(p) BY DEF Inv, General
<1>2. /\ gen'[p] = gen[p] + 1 /\ gen'[p] \in Gens /\ state'[p] = "starting"
      /\ cancel'[p] = cancel[p]
      /\ \A g \in Gens : killed'[p][g] = killed[p][g] /\ child'[p][g] = child[p][g]
  BY DEF StartsAt, RestartsAt, BeginsAt, SameKilled
<1>3. /\ gen[p] \in Nat /\ (cancel[p] # 0 => cancel[p] \in Gens) /\ Gens \subseteq Nat
      /\ Gens \subseteq 0..MaxGen
  BY ProcTypes DEF Inv
<1>0. \A g \in Gens : mon[p][g].pc # "none" => g <= gen'[p] /\ g < gen'[p] /\ g # gen'[p]
  BY <1>1, <1>2, LandedOlder DEF Inv
<1>4. mon[p][gen'[p]].pc = "none" BY <1>0, <1>2
<1>5. \A g \in Gens : mon'[p][g].pc = "none" <=> mon[p][g].pc = "none"
  BY DEF StartsAt, RestartsAt, SameMons
<1>6. Landed(p)'
  <2>1. \A g \in Gens : mon'[p][g].pc # "none" => g <= gen'[p] BY <1>0, <1>5
  <2> QED BY <1>1, <1>2, <1>3, <1>5, <2>1 DEF Landed
<1>7. Named(p)' BY <1>2, <1>4, <1>5 DEF Named
<1>8. \A h \in 0..MaxGen : h \in 1..gen[p] => h \in Gens /\ h \in 1..gen'[p] /\ h # gen'[p]
  BY <1>2, <1>3, BoundsAssumption DEF Gens
<1>9. gen'[p] \in 1..gen'[p] /\ \A g \in Gens : mon[p][g].pc # "none" => g < gen'[p]
  <2>1. gen[p] \in Nat /\ gen'[p] = gen[p] + 1 BY <1>2, <1>3
  <2>2. gen'[p] \in 1..gen'[p] BY <2>1
  <2>3. \A g \in Gens : mon[p][g].pc # "none" => g < gen'[p] BY <1>0
  <2> QED BY <2>2, <2>3
<1>10. /\ \A a \in Actors : ~ActorLaunches(a, p, gen'[p])
       /\ \A g \in Gens : ~MonitorLaunches(p, g, gen'[p])
  BY <1>1, <1>2, <1>3, <1>8 DEF Launches
<1>11. ASSUME NEW a \in Actors, StartsAt(p, a) PROVE Launches(p)'
  <2>1. \A g \in Gens, h \in 0..MaxGen : MonitorLaunches(p, g, h)' <=> MonitorLaunches(p, g, h)
    BY <1>11 DEF StartsAt, SameMons, MonitorLaunches
  <2>2. \A b \in Actors, h \in 0..MaxGen : ActorLaunches(b, p, h)' =>
           (ActorLaunches(b, p, h) /\ b # a) \/ (b = a /\ h = gen'[p])
    BY <1>11 DEF StartsAt, ActorLaunches
  <2>3. ASSUME NEW b \in Actors, NEW h \in 0..MaxGen, ActorLaunches(b, p, h)'
        PROVE  /\ h \in 1..gen'[p] /\ mon'[p][h].pc = "none"
               /\ \A c \in Actors : ActorLaunches(c, p, h)' => b = c
               /\ \A g \in Gens : ~MonitorLaunches(p, g, h)'
    <3>1. CASE b = a /\ h = gen'[p]
      BY <1>2, <1>4, <1>5, <1>9, <1>10, <2>1, <2>2, <3>1
    <3>2. CASE ActorLaunches(b, p, h) /\ b # a
      <4>1. h \in 1..gen[p] /\ mon[p][h].pc = "none" /\ h \in Gens /\ h # gen'[p]
        BY <1>1, <1>8, <3>2 DEF Launches
      <4> QED BY <1>1, <1>5, <1>8, <2>1, <2>2, <3>2, <4>1 DEF Launches
    <3> QED BY <2>2, <2>3, <3>1, <3>2
  <2>4. ASSUME NEW g \in Gens, NEW h \in 0..MaxGen, MonitorLaunches(p, g, h)'
        PROVE  /\ h \in 1..gen'[p] /\ g < h /\ mon'[p][h].pc = "none"
               /\ \A k \in Gens : MonitorLaunches(p, k, h)' => g = k
    BY <1>1, <1>5, <1>8, <2>1, <2>4 DEF Launches
  <2> QED BY <2>3, <2>4 DEF Launches
<1>12. ASSUME NEW m \in Gens, RestartsAt(p, m) PROVE Launches(p)'
  <2>1. \A g \in Gens, h \in 0..MaxGen : MonitorLaunches(p, g, h)' =>
           (MonitorLaunches(p, g, h) /\ g # m) \/ (g = m /\ h = gen'[p])
    BY <1>12 DEF RestartsAt, MonitorLaunches
  <2>2. \A b \in Actors, h \in 0..MaxGen : ActorLaunches(b, p, h)' => ActorLaunches(b, p, h)
    BY <1>12, FlightsKept DEF RestartsAt
  <2>3. ASSUME NEW b \in Actors, NEW h \in 0..MaxGen, ActorLaunches(b, p, h)'
        PROVE  /\ h \in 1..gen'[p] /\ mon'[p][h].pc = "none"
               /\ \A c \in Actors : ActorLaunches(c, p, h)' => b = c
               /\ \A g \in Gens : ~MonitorLaunches(p, g, h)'
    <3>1. h \in 1..gen[p] /\ mon[p][h].pc = "none" /\ h \in Gens /\ h # gen'[p]
      BY <1>1, <1>8, <2>2, <2>3 DEF Launches
    <3> QED BY <1>1, <1>5, <1>8, <2>1, <2>2, <2>3, <3>1 DEF Launches
  <2>4. ASSUME NEW g \in Gens, NEW h \in 0..MaxGen, MonitorLaunches(p, g, h)'
        PROVE  /\ h \in 1..gen'[p] /\ g < h /\ mon'[p][h].pc = "none"
               /\ \A k \in Gens : MonitorLaunches(p, k, h)' => g = k
    <3>1. CASE g = m /\ h = gen'[p]
      <4>1. mon[p][m].pc # "none" BY <1>12 DEF RestartsAt
      <4> QED BY <1>2, <1>4, <1>5, <1>9, <1>10, <2>1, <3>1, <4>1
    <3>2. CASE MonitorLaunches(p, g, h) /\ g # m
      <4>1. h \in 1..gen[p] /\ g < h /\ mon[p][h].pc = "none" /\ h \in Gens /\ h # gen'[p]
        BY <1>1, <1>8, <3>2 DEF Launches
      <4> QED BY <1>1, <1>5, <1>8, <2>1, <3>2, <4>1 DEF Launches
    <3> QED BY <2>1, <2>4, <3>1, <3>2
  <2> QED BY <2>3, <2>4 DEF Launches
<1> QED BY <1>6, <1>7, <1>11, <1>12

\* A launch that ends leaves the other launches alone.
LEMMA EndsLaunches ==
    ASSUME Inv, NEW p \in Procs, NEW h \in Gens, Ends(p, h),
           mon'[p][h].pc \in {"none", "fresh"}
    PROVE  /\ Launches(p)' /\ h <= gen[p] /\ mon[p][h].pc = "none"
           /\ \A g \in Gens \ {h} : mon'[p][g] = mon[p][g] \/ (g < h /\ mon'[p][g].pc = "closing")
           /\ \A g \in Gens \ {h} : mon'[p][g].pc = "none" <=> mon[p][g].pc = "none"
<1>1. Launches(p) BY DEF Inv, General
<1>2. gen'[p] = gen[p] /\ gen[p] \in Nat /\ Gens \subseteq 0..MaxGen /\ 0 \notin Gens
  BY ProcTypes DEF Inv, Ends
<1>3. h \in 1..gen[p] /\ mon[p][h].pc = "none"
  BY <1>1, <1>2 DEF Ends, Launched, Launches
<1>4. ASSUME NEW g \in Gens \ {h}
      PROVE  /\ mon'[p][g] = mon[p][g] \/ (g < h /\ mon'[p][g].pc = "closing")
             /\ mon'[p][g].pc = "none" <=> mon[p][g].pc = "none"
  <2>1. CASE mon'[p][g] = mon[p][g] BY <2>1
  <2>2. CASE MonitorLaunches(p, g, h) /\ mon'[p][g].pc = "closing"
    BY <1>1, <1>2, <2>2 DEF Launches, MonitorLaunches
  <2> QED BY <2>1, <2>2 DEF Ends
<1>5. \A a \in Actors, k \in 0..MaxGen : ActorLaunches(a, p, k)' => ActorLaunches(a, p, k) /\ k # h
  <2>1. \A a \in Actors, k \in 0..MaxGen : ActorLaunches(a, p, k)' => ActorLaunches(a, p, k)
    BY FlightsKept DEF Ends
  <2> QED BY <2>1 DEF Ends
<1>6. ASSUME NEW g \in Gens, NEW k \in 0..MaxGen, MonitorLaunches(p, g, k)'
      PROVE  MonitorLaunches(p, g, k) /\ k # h
  <2>1. g # h BY <1>6 DEF MonitorLaunches
  <2>2. mon'[p][g] = mon[p][g] /\ ~MonitorLaunches(p, g, h)
    BY <1>6, <2>1 DEF Ends, MonitorLaunches
  <2> QED BY <1>6, <2>2 DEF MonitorLaunches
<1>7. \A k \in 0..MaxGen : k # h /\ k \in 1..gen[p] => k \in Gens \ {h}
  <2>1. gen[p] \in 0..MaxGen BY ProcTypes DEF Inv
  <2> QED BY <2>1, BoundsAssumption DEF Gens
<1>8. Launches(p)' BY <1>1, <1>2, <1>4, <1>5, <1>6, <1>7 DEF Launches
<1> QED BY <1>2, <1>3, <1>4, <1>8

\* A launch that lands or fails keeps the general invariants.
LEMMA EndsGeneral ==
    ASSUME Inv, NEW p \in Procs, NEW h \in Gens, LandsAt(p, h) \/ FailsAt(p, h)
    PROVE  Launches(p)' /\ Landed(p)' /\ Named(p)'
<1>1. Landed(p) /\ Named(p) BY DEF Inv, General
<1>2. /\ gen[p] \in Nat /\ (cancel[p] # 0 => cancel[p] \in Gens) /\ 0 \notin Gens
      /\ Gens \subseteq Nat /\ (gen[p] > 0 => gen[p] \in Gens)
  BY ProcTypes DEF Inv
<1>3. CASE LandsAt(p, h)
  <2>1. /\ Ends(p, h) /\ mon'[p][h].pc = "fresh" /\ child'[p][h] = "alive"
        /\ \A g \in Gens \ {h} : child'[p][g] = child[p][g]
        /\ \A g \in Gens : killed'[p][g] = killed[p][g]
        /\ gen'[p] = gen[p]
    BY <1>3 DEF LandsAt, Ends, SameKilled
  <2>2. /\ Launches(p)' /\ h <= gen[p] /\ mon[p][h].pc = "none"
        /\ \A g \in Gens \ {h} : mon'[p][g] = mon[p][g] \/ (g < h /\ mon'[p][g].pc = "closing")
        /\ \A g \in Gens \ {h} : mon'[p][g].pc = "none" <=> mon[p][g].pc = "none"
    BY <2>1, EndsLaunches
  <2>3. CASE gen[p] = h
    <3>1. pid'[p] = h /\ state'[p] = "running" /\ cancel'[p] = h BY <1>3, <2>3 DEF LandsAt
    <3>2. Landed(p)' BY <1>1, <1>2, <2>1, <2>2, <3>1 DEF Landed
    <3>3. ~killed'[p][h] BY <1>1, <2>1, <2>2 DEF Landed
    <3>4. Named(p)' BY <1>2, <2>1, <2>3, <3>1, <3>3 DEF Named
    <3> QED BY <2>2, <3>2, <3>4
  <2>4. CASE gen[p] # h
    <3>1. pid'[p] = pid[p] /\ state'[p] = state[p] /\ cancel'[p] = cancel[p]
      BY <1>3, <2>4 DEF LandsAt, SameFields
    <3>2. Landed(p)' BY <1>1, <1>2, <2>1, <2>2, <3>1 DEF Landed
    <3>3. gen[p] \in Gens => gen[p] # h /\ mon'[p][gen[p]] = mon[p][gen[p]]
      BY <1>2, <2>2, <2>4
    <3>4. Named(p)' BY <1>1, <1>2, <2>1, <3>1, <3>3 DEF Named
    <3> QED BY <2>2, <3>2, <3>4
  <2> QED BY <2>3, <2>4
<1>4. CASE FailsAt(p, h)
  <2>1. /\ Ends(p, h) /\ mon'[p][h] = mon[p][h]
        /\ \A g \in Gens : child'[p][g] = child[p][g] /\ killed'[p][g] = killed[p][g]
        /\ gen'[p] = gen[p] /\ pid'[p] = pid[p] /\ cancel'[p] = cancel[p]
        /\ state'[p] = IF gen[p] = h THEN "crashed" ELSE state[p]
    BY <1>4 DEF FailsAt, Ends, SameKilled
  <2>2. mon[p][h].pc = "none"
    BY <1>2, <2>1, ProcTypes DEF Inv, General, Ends, Launched, Launches
  <2>3. /\ Launches(p)' /\ h <= gen[p] /\ mon[p][h].pc = "none"
        /\ \A g \in Gens \ {h} : mon'[p][g] = mon[p][g] \/ (g < h /\ mon'[p][g].pc = "closing")
        /\ \A g \in Gens \ {h} : mon'[p][g].pc = "none" <=> mon[p][g].pc = "none"
    BY <2>1, <2>2, EndsLaunches
  <2>4. Landed(p)' BY <1>1, <1>2, <2>1, <2>3 DEF Landed
  <2>5. gen[p] \in Gens => mon'[p][gen[p]] = mon[p][gen[p]]
    BY <1>2, <2>1, <2>3
  <2>6. Named(p)' BY <1>1, <1>2, <2>1, <2>2, <2>5 DEF Named
  <2> QED BY <2>3, <2>4, <2>6
<1> QED BY <1>3, <1>4

\* A stop that cancels keeps the general invariants.
LEMMA HaltsGeneral ==
    ASSUME Inv, NEW p \in Procs, NEW c \in Clients, HaltsAt(p, c)
    PROVE  Launches(p)' /\ Landed(p)' /\ Named(p)'
<1>1. Launches(p) /\ Landed(p) /\ Named(p) BY DEF Inv, General
<1>2. /\ gen'[p] = gen[p] + 1 /\ gen'[p] \in Gens /\ state'[p] \in {"stopping", "stopped"}
      /\ cancel'[p] = 0
      /\ \A g \in Gens : /\ killed'[p][g] => killed[p][g] \/ g = cancel[p]
                         /\ child'[p][g] = child[p][g] /\ mon'[p][g] = mon[p][g]
  BY DEF HaltsAt, SameMons
<1>3. /\ gen[p] \in Nat /\ (cancel[p] # 0 => cancel[p] \in Gens) /\ Gens \subseteq Nat
      /\ Gens \subseteq 0..MaxGen /\ gen[p] \in 0..MaxGen /\ 0 \notin Gens
  BY ProcTypes DEF Inv
<1>0. \A g \in Gens : mon[p][g].pc # "none" => g <= gen'[p] /\ g < gen'[p] /\ g # gen'[p]
  BY <1>1, <1>2, LandedOlder DEF Inv
<1>4. mon[p][gen'[p]].pc = "none" BY <1>0, <1>2
<1>5. Landed(p)'
  <2>1. \A g \in Gens : mon'[p][g].pc # "none" => g <= gen'[p] BY <1>0, <1>2
  <2> QED BY <1>1, <1>2, <1>3, <2>1 DEF Landed
<1>6. Named(p)' BY <1>2, <1>4 DEF Named
<1>7. \A g \in Gens, h \in 0..MaxGen : MonitorLaunches(p, g, h)' <=> MonitorLaunches(p, g, h)
  BY <1>2 DEF MonitorLaunches
<1>8. \A a \in Actors, h \in 0..MaxGen : ActorLaunches(a, p, h)' => ActorLaunches(a, p, h)
  <2>1. \A h : ~ActorLaunches(c, p, h)' BY DEF HaltsAt, ActorLaunches
  <2> QED BY <2>1 DEF HaltsAt, ActorLaunches
<1>9. \A h \in 0..MaxGen : h \in 1..gen[p] => h \in Gens /\ h \in 1..gen'[p]
  BY <1>2, <1>3, BoundsAssumption DEF Gens
<1>10. Launches(p)' BY <1>1, <1>2, <1>7, <1>8, <1>9 DEF Launches
<1> QED BY <1>5, <1>6, <1>10

\* A stop that ends keeps the general invariants.
LEMMA StopsGeneral ==
    ASSUME Inv, NEW p \in Procs, NEW c \in Clients, StopsAt(p, c)
    PROVE  Launches(p)' /\ Landed(p)' /\ Named(p)'
<1>1. Launches(p) /\ Landed(p) /\ Named(p) BY DEF Inv, General
<1>2. /\ gen'[p] = gen[p] /\ state'[p] = "stopped" /\ cancel'[p] = cancel[p]
      /\ \A g \in Gens : /\ mon'[p][g] = mon[p][g] /\ killed'[p][g] = killed[p][g]
                         /\ child'[p][g] # "none" => child[p][g] # "none"
  BY DEF StopsAt, SameMons, SameKilled, NoBirth
<1>3. /\ gen[p] \in 0..MaxGen /\ (gen[p] # 0 => gen[p] \in Gens)
      /\ (cancel[p] # 0 => cancel[p] \in Gens)
  BY ProcTypes DEF Inv
<1>4. \A g \in Gens, h \in 0..MaxGen : MonitorLaunches(p, g, h)' <=> MonitorLaunches(p, g, h)
  BY <1>2 DEF MonitorLaunches
<1>5. \A a \in Actors, h \in 0..MaxGen : ActorLaunches(a, p, h)' => ActorLaunches(a, p, h)
  BY FlightsKept DEF StopsAt
<1>6. \A h \in 0..MaxGen : h \in 1..gen[p] => h \in Gens BY <1>3, BoundsAssumption DEF Gens
<1>7. Launches(p)' BY <1>1, <1>2, <1>4, <1>5, <1>6 DEF Launches
<1>8. Landed(p)' BY <1>1, <1>2, <1>3 DEF Landed
<1>9. Named(p)' BY <1>1, <1>2 DEF Named
<1> QED BY <1>7, <1>8, <1>9

\* A monitor that marks its launch is the monitor of the current one.
LEMMA TurnsGeneral ==
    ASSUME Inv, NEW p \in Procs, NEW g \in Gens, TurnsAt(p, g)
    PROVE  Launches(p)' /\ Landed(p)' /\ Named(p)'
<1>1. Launches(p) /\ Landed(p) /\ Named(p) BY DEF Inv, General
<1>2. /\ gen'[p] = gen[p] /\ pid'[p] = pid[p] /\ cancel'[p] = cancel[p]
      /\ mon[p][g].pc \notin {"none", "launching"} /\ mon'[p][g].pc \notin {"none", "launching"}
      /\ \A h \in Gens \ {g} : mon'[p][h] = mon[p][h]
      /\ \A h \in Gens : /\ child'[p][h] = child[p][h]
                         /\ killed'[p][h] => killed[p][h] \/ (h = g /\ mon'[p][g].pc = "killing")
  BY DEF TurnsAt
<1>3. /\ gen[p] \in 0..MaxGen /\ (gen[p] # 0 => gen[p] \in Gens) /\ gen[p] \in Nat
      /\ (cancel[p] # 0 => cancel[p] \in Gens) /\ 0 \notin Gens
  BY ProcTypes DEF Inv
<1>4. \A h \in Gens, k \in 0..MaxGen : MonitorLaunches(p, h, k)' <=> MonitorLaunches(p, h, k)
  <2>1. \A k : ~MonitorLaunches(p, g, k)' /\ ~MonitorLaunches(p, g, k)
    BY <1>2 DEF MonitorLaunches
  <2> QED BY <1>2, <2>1 DEF MonitorLaunches
<1>5. \A a \in Actors, h \in 0..MaxGen : ActorLaunches(a, p, h)' => ActorLaunches(a, p, h)
  BY FlightsKept DEF TurnsAt
<1>6. \A h \in 0..MaxGen : h \in 1..gen[p] => h \in Gens BY <1>3, BoundsAssumption DEF Gens
<1>7. \A h \in Gens : mon'[p][h].pc = "none" <=> mon[p][h].pc = "none" BY <1>2
<1>8. Launches(p)' BY <1>1, <1>2, <1>4, <1>5, <1>6, <1>7 DEF Launches
<1>9. Landed(p)' BY <1>1, <1>2, <1>3, <1>7 DEF Landed
<1>10. CASE gen[p] = g
  <2>1. /\ cancel[p] = g /\ state[p] # "stopping" /\ (state[p] # "stopped" => pid[p] = g)
        /\ mon[p][g].pc \in {"fresh", "watch"} => ~killed[p][g]
    BY <1>1, <1>2, <1>10 DEF Named
  <2>2. /\ state'[p] = state[p] \/ (state[p] # "stopped" /\ state'[p] \in {"healthy", "crashed"})
        /\ state'[p] \in {"running", "healthy"} => mon'[p][g].pc \in {"fresh", "watch", "killing"}
        /\ mon'[p][g].pc \in {"fresh", "watch"} => mon[p][g].pc \in {"fresh", "watch"}
    BY <1>10 DEF TurnsAt
  <2>3. mon'[p][g].pc \in {"fresh", "watch"} => ~killed'[p][g] BY <1>2, <2>1, <2>2
  <2>4. Named(p)' BY <1>2, <1>3, <1>10, <2>1, <2>2, <2>3 DEF Named
  <2> QED BY <1>8, <1>9, <2>4
<1>11. CASE gen[p] # g
  <2>1. state'[p] = state[p] BY <1>11 DEF TurnsAt
  <2>2. gen[p] \in Gens => /\ mon'[p][gen[p]] = mon[p][gen[p]]
                           /\ killed'[p][gen[p]] => killed[p][gen[p]]
    BY <1>2, <1>11
  <2>3. gen[p] > 0 => gen[p] \in Gens BY <1>3
  <2>4. Named(p)' BY <1>1, <1>2, <2>1, <2>2, <2>3 DEF Named
  <2> QED BY <1>8, <1>9, <2>4
<1> QED BY <1>10, <1>11

\* Every step keeps what is known of a monitor that saw its child exit.
LEMMA ExitedStep == ASSUME Inv, NEW p \in Procs, StepAt(p) PROVE Exited(p)'
<1>1. Exited(p) BY DEF Inv, General
<1>2. CASE Keeps(p) BY <1>1, <1>2 DEF Exited, Keeps, SameMons, NoBirth
<1>3. ASSUME NEW a \in Actors, StartsAt(p, a) PROVE Exited(p)'
  BY <1>1, <1>3 DEF Exited, StartsAt, SameMons, BeginsAt
<1>4. ASSUME NEW g \in Gens, RestartsAt(p, g) PROVE Exited(p)'
  BY <1>1, <1>4 DEF Exited, RestartsAt, BeginsAt
<1>5. ASSUME NEW h \in Gens, LandsAt(p, h) PROVE Exited(p)'
  BY <1>1, <1>5 DEF Exited, LandsAt, Ends
<1>6. ASSUME NEW h \in Gens, FailsAt(p, h) PROVE Exited(p)'
  BY <1>1, <1>6 DEF Exited, FailsAt, Ends
<1>7. ASSUME NEW g \in Gens, TurnsAt(p, g) PROVE Exited(p)'
  BY <1>1, <1>7 DEF Exited, TurnsAt
<1>8. ASSUME NEW c \in Clients, HaltsAt(p, c) PROVE Exited(p)'
  BY <1>1, <1>8 DEF Exited, HaltsAt, SameMons
<1>9. ASSUME NEW c \in Clients, StopsAt(p, c) PROVE Exited(p)'
  BY <1>1, <1>9 DEF Exited, StopsAt, SameMons, NoBirth
<1> QED BY <1>2, <1>3, <1>4, <1>5, <1>6, <1>7, <1>8, <1>9 DEF StepAt

\* Every classified step keeps the general invariants of every process.
LEMMA GeneralStep == ASSUME Inv, Moved PROVE General'
<1>1. ASSUME NEW p \in Procs PROVE Launches(p)' /\ Landed(p)' /\ Named(p)'
  BY KeepsGeneral, BeginsGeneral, EndsGeneral, HaltsGeneral, StopsGeneral, TurnsGeneral
     DEF Moved, StepAt
<1>2. ASSUME NEW p \in Procs PROVE Exited(p)' BY ExitedStep DEF Moved
<1> QED BY <1>1, <1>2 DEF General

-----------------------------------------------------------------------------
(* Operations that do not overlap *)

\* At most one element in three finite sets together.
LEMMA AtMostOne ==
    ASSUME NEW A, NEW B, NEW C, IsFiniteSet(A), IsFiniteSet(B), IsFiniteSet(C),
           ~(Cardinality(A) + Cardinality(B) + Cardinality(C) > 1)
    PROVE  /\ \A x, y \in A : x = y
           /\ \A x, y \in C : x = y
           /\ ~(A # {} /\ B # {}) /\ ~(A # {} /\ C # {}) /\ ~(B # {} /\ C # {})
<1>1. Cardinality(A) \in Nat /\ Cardinality(B) \in Nat /\ Cardinality(C) \in Nat
  BY FS_CardinalityType
<1>2. /\ A # {} => Cardinality(A) >= 1
      /\ B # {} => Cardinality(B) >= 1
      /\ C # {} => Cardinality(C) >= 1
  BY <1>1, FS_EmptySet
<1>3. ASSUME NEW S, IsFiniteSet(S), Cardinality(S) <= 1, NEW x \in S, NEW y \in S PROVE x = y
  <2>1. SUFFICES ASSUME x # y PROVE FALSE OBVIOUS
  <2>2. IsFiniteSet(S \ {x}) /\ Cardinality(S \ {x}) = Cardinality(S) - 1
    BY <1>3, FS_RemoveElement
  <2>3. S \ {x} # {} BY <2>1
  <2>4. Cardinality(S \ {x}) # 0 BY <2>2, <2>3, FS_EmptySet
  <2>5. Cardinality(S \ {x}) \in Nat /\ Cardinality(S) \in Nat BY <1>3, <2>2, FS_CardinalityType
  <2> QED BY <1>3, <2>2, <2>4, <2>5
<1>4. Cardinality(A) <= 1 /\ Cardinality(C) <= 1 BY <1>1
<1> QED BY <1>1, <1>2, <1>3, <1>4

\* Without overlap an operation is alone.
LEMMA AloneStep == ASSUME Inv, Next PROVE \A p \in Procs \ overlap' : Alone(p)' /\ p \notin overlap
<1> SUFFICES ASSUME NEW p \in Procs \ overlap' PROVE Alone(p)' /\ p \notin overlap
  OBVIOUS
<1>1. overlap' = overlap \cup {q \in Procs : Overlapping(q)'} BY DEF Next, Step
<1>2. ~Overlapping(p)' /\ p \notin overlap BY <1>1
<1> DEFINE A == {c \in Clients : actor'[c].p = p \/ p \in actor'[c].todo}
           B == {a \in {Main} : actor'[a].pc = "launching" /\ actor'[a].p = p}
           C == {g \in Gens : mon'[p][g].pc \in {"relaunch", "launching"}}
<1>3. ~(Cardinality(A) + Cardinality(B) + Cardinality(C) > 1) BY <1>2 DEF Overlapping
<1>4. IsFiniteSet(A) BY DepsAssumption, FS_Subset
<1>5. IsFiniteSet(B) BY FS_Singleton, FS_Subset
<1>6. IsFiniteSet(C)
  <2>1. IsFiniteSet(Gens) BY FS_Interval, BoundsAssumption DEF Gens
  <2> QED BY <2>1, FS_Subset
<1> HIDE DEF A, B, C
<1>7. /\ \A x, y \in A : x = y
      /\ \A x, y \in C : x = y
      /\ ~(A # {} /\ B # {}) /\ ~(A # {} /\ C # {}) /\ ~(B # {} /\ C # {})
  BY <1>3, <1>4, <1>5, <1>6, AtMostOne
<1>8. /\ \A c \in Clients : ClientOn(c, p)' => c \in A
      /\ MainOn(p)' => Main \in B
      /\ \A g \in Gens : MonitorOn(p, g)' => g \in C
  BY DEF A, B, C, ClientOn, MainOn, MonitorOn
<1>9. Alone(p)' BY <1>7, <1>8 DEF Alone
<1> QED BY <1>2, <1>9

\* The serial facts about one process.
SerialAt(p) == SerialLaunch(p) /\ SerialStop(p) /\ SerialClose(p)

\* A live child was one before, or has just landed.
LEMMA LiveKept ==
    ASSUME NEW p, NEW g,
           child'[p][g] = "alive" => child[p][g] = "alive",
           killed[p][g] => killed'[p][g]
    PROVE  Live(p, g)' => Live(p, g)
BY DEF Live

\* A step of another process keeps the serial invariants.
LEMMA KeepsSerial ==
    ASSUME Inv, NEW p \in Procs \ overlap, Keeps(p)
    PROVE  SerialAt(p)'
<1>1. SerialAt(p) BY DEF Inv, Serial, SerialAt
<1>2. \A g \in Gens : Live(p, g)' => Live(p, g)
  BY LiveKept DEF Keeps, NoBirth, SameKilled
<1>3. NoLive(p) => NoLive(p)' BY <1>2 DEF NoLive
<1>4. /\ gen'[p] = gen[p] /\ state'[p] = state[p] /\ cancel'[p] = cancel[p]
      /\ \A g \in Gens : mon'[p][g] = mon[p][g] /\ closed'[p][g] = closed[p][g]
      /\ p \in retired' <=> p \in retired
      /\ \A a \in Actors : ActorKeeps(a, p)
  BY DEF Keeps, SameFields, SameMons, SameClosed, SameRetired, ActorsKeep
<1>5. SerialLaunch(p)'
  BY <1>1, <1>3, <1>4 DEF SerialAt, SerialLaunch, ActorKeeps
<1>6. SerialStop(p)'
  BY <1>1, <1>2, <1>3, <1>4, ActorNames DEF SerialAt, SerialStop, ActorKeeps
<1>7. SerialClose(p)' BY <1>1, <1>4 DEF SerialAt, SerialClose
<1> QED BY <1>5, <1>6, <1>7 DEF SerialAt

\* A start that is alone finds the process stopped.
LEMMA StartsSerial ==
    ASSUME Inv, NEW p \in Procs \ overlap, Alone(p)', NEW a \in Actors, StartsAt(p, a)
    PROVE  SerialAt(p)'
<1>1. SerialAt(p) BY DEF Inv, Serial, SerialAt
<1>2. \A g \in Gens : Live(p, g)' => Live(p, g)
  BY LiveKept DEF StartsAt, BeginsAt, SameKilled
<1>3. NoLive(p)' BY <1>1, <1>2 DEF StartsAt, SerialAt, SerialStop, NoLive
<1>4. (a = Main => MainOn(p)') /\ (a \in Clients => ClientOn(a, p)')
  BY DEF StartsAt, MainOn, ClientOn
<1>5. ASSUME NEW b \in Actors, b # a, actor'[b].p = p,
             actor'[b].pc \in {"launching", "waiting", "deps"}
      PROVE  FALSE
  <2>1. CASE b = Main BY <1>4, <1>5, <2>1, ActorNames DEF Alone, MainOn, Inv, TypeInv, StartsAt
  <2>2. CASE b \in Clients
    <3>1. ClientOn(b, p)' BY <1>5 DEF ClientOn
    <3> QED BY <1>4, <1>5, <2>2, <3>1, ActorNames DEF Alone
  <2> QED BY <2>1, <2>2, ActorNames
<1>6. ASSUME NEW g \in Gens PROVE ~MonitorOn(p, g)'
  BY <1>4, ActorNames DEF Alone
<1>7. SerialLaunch(p)'
  BY <1>3, <1>5, <1>6 DEF SerialLaunch, MonitorOn, StartsAt, BeginsAt
<1>8. SerialStop(p)'
  BY <1>3, <1>5, ActorNames DEF SerialStop, NoLive, StartsAt, BeginsAt
<1>9. SerialClose(p)'
  BY <1>1 DEF SerialAt, SerialClose, StartsAt, BeginsAt, SameMons, SameClosed
<1> QED BY <1>7, <1>8, <1>9 DEF SerialAt

\* A restart that is alone comes from the monitor of the current launch, whose child
\* is gone.
LEMMA RestartsSerial ==
    ASSUME Inv, NEW p \in Procs \ overlap, Alone(p)', NEW g \in Gens, RestartsAt(p, g)
    PROVE  SerialAt(p)'
<1>1. SerialAt(p) /\ Named(p) /\ Exited(p) BY DEF Inv, General, Serial, SerialAt
<1>2. \A h \in Gens : Live(p, h)' => Live(p, h)
  BY LiveKept DEF RestartsAt, BeginsAt, SameKilled
<1>3. /\ mon[p][g].pc = "relaunch" /\ gen[p] = g /\ state[p] = "crashed"
      /\ cancel[p] = g /\ child[p][g] = "exited"
  BY <1>1 DEF RestartsAt, SerialAt, SerialLaunch, Named, Exited
<1>4. NoLive(p)' BY <1>1, <1>2, <1>3 DEF SerialAt, SerialStop, NoLive, Live
<1>5. MonitorOn(p, g)' BY DEF RestartsAt, MonitorOn
<1>6. \A h \in Gens : MonitorOn(p, h)' => h = g BY <1>5 DEF Alone
<1>7. ASSUME NEW b \in Actors, actor'[b].p = p,
             actor'[b].pc = "launching" \/ b \in Clients
      PROVE  FALSE
  <2>1. CASE b = Main BY <1>5, <1>7, <2>1, ActorNames DEF Alone, MainOn
  <2>2. CASE b \in Clients
    <3>1. ClientOn(b, p)' BY <1>7 DEF ClientOn
    <3> QED BY <1>5, <2>2, <3>1 DEF Alone
  <2> QED BY <2>1, <2>2, ActorNames
<1>8. SerialLaunch(p)'
  BY <1>4, <1>6, <1>7 DEF SerialLaunch, MonitorOn, RestartsAt, BeginsAt
<1>9. SerialStop(p)'
  <2>1. p \notin retired' BY <1>1, <1>3 DEF SerialAt, SerialStop, RestartsAt, SameRetired
  <2> QED BY <1>4, <1>7, <2>1, ActorNames DEF SerialStop, NoLive, RestartsAt, BeginsAt
<1>10. SerialClose(p)'
  BY <1>1 DEF SerialAt, SerialClose, RestartsAt, BeginsAt, SameClosed
<1> QED BY <1>8, <1>9, <1>10 DEF SerialAt

\* An actor that is on no operation of its process any more.
NotAtWork(a) ==
    /\ actor'[a].pc # "launching"
    /\ a \in Clients => actor'[a].pc \notin {"waiting", "deps"}

\* A launch that ends alone was of the current generation.
LEMMA EndsSerial ==
    ASSUME Inv, NEW p \in Procs \ overlap, NEW h \in Gens, Ends(p, h)
    PROVE  /\ gen[p] = h /\ state[p] = "starting" /\ NoLive(p) /\ p \notin retired'
           /\ \A a \in Actors : actor'[a].p = p =>
                 NotAtWork(a)
           /\ \A g \in Gens \ {h} : mon'[p][g].pc \notin {"relaunch", "launching"}
           /\ mon[p][h].pc = "none"
<1>1. SerialAt(p) /\ Launches(p) /\ Named(p) BY DEF Inv, General, Serial, SerialAt
<1>2. gen[p] = h /\ state[p] = "starting" /\ NoLive(p)
  <2>1. ASSUME NEW a \in Actors, ActorLaunches(a, p, h)
        PROVE  gen[p] = h /\ state[p] = "starting" /\ NoLive(p)
    BY <1>1, <2>1 DEF SerialAt, SerialLaunch, ActorLaunches
  <2>2. ASSUME NEW g \in Gens, MonitorLaunches(p, g, h)
        PROVE  gen[p] = h /\ state[p] = "starting" /\ NoLive(p)
    BY <1>1, <2>2 DEF SerialAt, SerialLaunch, MonitorLaunches
  <2> QED BY <2>1, <2>2 DEF Ends, Launched
<1>3. p \notin retired' BY <1>1, <1>2 DEF Ends, SameRetired, SerialAt, SerialStop
<1>4. ASSUME NEW a \in Actors, actor'[a].p = p
      PROVE  NotAtWork(a)
  <2>1. ActorKeeps(a, p) /\ ~ActorLaunches(a, p, h)' BY DEF Ends, ActorsKeep
  <2>2. actor'[a].pc # "launching"
    BY <1>1, <1>2, <1>4, <2>1 DEF ActorKeeps, ActorLaunches, SerialAt, SerialLaunch
  <2>3. a \in Clients => actor'[a].pc \notin {"waiting", "deps"}
    BY <1>1, <1>2, <1>4, <2>1 DEF ActorKeeps, SerialAt, SerialStop
  <2> QED BY <2>2, <2>3 DEF NotAtWork
<1>5. ASSUME NEW g \in Gens \ {h} PROVE mon'[p][g].pc \notin {"relaunch", "launching"}
  BY <1>1, <1>2 DEF Ends, MonitorLaunches, SerialAt, SerialLaunch
<1>6. mon[p][h].pc = "none"
  <2>1. h \in 0..MaxGen BY ProcTypes DEF Inv
  <2> QED BY <1>1, <2>1 DEF Ends, Launched, Launches
<1> QED BY <1>2, <1>3, <1>4, <1>5, <1>6

\* A launch that lands keeps the serial invariants.
LEMMA LandsSerial ==
    ASSUME Inv, NEW p \in Procs \ overlap, NEW h \in Gens, LandsAt(p, h)
    PROVE  SerialAt(p)'
<1>1. SerialAt(p) BY DEF Inv, Serial, SerialAt
<1>2. Ends(p, h) BY DEF LandsAt
<1>3. /\ gen[p] = h /\ state[p] = "starting" /\ NoLive(p) /\ p \notin retired'
      /\ \A a \in Actors : actor'[a].p = p =>
            NotAtWork(a)
      /\ \A g \in Gens \ {h} : mon'[p][g].pc \notin {"relaunch", "launching"}
      /\ mon[p][h].pc = "none"
  BY <1>2, EndsSerial
<1>4. /\ mon'[p][h].pc = "fresh" /\ mon'[p][h].chan = h /\ state'[p] = "running"
      /\ cancel'[p] = h
  BY <1>3 DEF LandsAt
<1>5. \A g \in Gens \ {h} : ~Live(p, g)'
  BY <1>3, LiveKept DEF LandsAt, Ends, SameKilled, NoLive
<1>6. SerialLaunch(p)' BY <1>3, <1>4 DEF SerialLaunch, NotAtWork
<1>7. SerialStop(p)' BY <1>3, <1>4, <1>5, ActorNames DEF SerialStop, NotAtWork
<1>8. SerialClose(p)'
  <2>1. closed'[p][h] = closed[p][h] /\ ~closed[p][h]
    BY <1>1, <1>2, <1>3 DEF Ends, SameClosed, SerialAt, SerialClose
  <2>2. ASSUME NEW g \in Gens \ {h}
        PROVE  /\ mon'[p][g].pc # "none" => mon'[p][g].chan = g
               /\ closed'[p][g] => mon'[p][g].pc = "over"
    BY <1>1, <1>2 DEF Ends, MonitorLaunches, SameClosed, SerialAt, SerialClose
  <2>3. closed'[p][h] => mon'[p][h].pc = "over" BY <2>1
  <2> QED BY <1>4, <2>2, <2>3 DEF SerialClose
<1> QED BY <1>6, <1>7, <1>8 DEF SerialAt

\* A launch that fails keeps the serial invariants.
LEMMA FailsSerial ==
    ASSUME Inv, NEW p \in Procs \ overlap, NEW h \in Gens, FailsAt(p, h)
    PROVE  SerialAt(p)'
<1>1. SerialAt(p) BY DEF Inv, Serial, SerialAt
<1>2. Ends(p, h) BY DEF FailsAt
<1>3. /\ gen[p] = h /\ state[p] = "starting" /\ NoLive(p) /\ p \notin retired'
      /\ \A a \in Actors : actor'[a].p = p =>
            NotAtWork(a)
      /\ \A g \in Gens \ {h} : mon'[p][g].pc \notin {"relaunch", "launching"}
      /\ mon[p][h].pc = "none"
  BY <1>2, EndsSerial
<1>4. mon'[p][h] = mon[p][h] /\ state'[p] = "crashed" BY <1>3 DEF FailsAt
<1>5. \A g \in Gens : ~Live(p, g)'
  BY <1>3, LiveKept DEF FailsAt, Ends, SameKilled, NoLive
<1>6. SerialLaunch(p)' BY <1>3, <1>4 DEF SerialLaunch, NotAtWork
<1>7. SerialStop(p)' BY <1>3, <1>4, <1>5, ActorNames DEF SerialStop, NotAtWork
<1>8. SerialClose(p)'
  <2>1. ASSUME NEW g \in Gens \ {h}
        PROVE  /\ mon'[p][g].pc # "none" => mon'[p][g].chan = g
               /\ closed'[p][g] => mon'[p][g].pc = "over"
    BY <1>1, <1>2 DEF Ends, MonitorLaunches, SameClosed, SerialAt, SerialClose
  <2>2. /\ mon'[p][h].pc # "none" => mon'[p][h].chan = h
        /\ closed'[p][h] => mon'[p][h].pc = "over"
    BY <1>1, <1>2, <1>4 DEF Ends, SameClosed, SerialAt, SerialClose
  <2> QED BY <2>1, <2>2 DEF SerialClose
<1> QED BY <1>6, <1>7, <1>8 DEF SerialAt

\* A stop that is alone meets no launch, and kills the one live child.
LEMMA HaltsSerial ==
    ASSUME Inv, NEW p \in Procs \ overlap, Alone(p)', NEW c \in Clients, HaltsAt(p, c)
    PROVE  SerialAt(p)'
<1>1. SerialAt(p) /\ Alone(p) BY DEF Inv, Serial, SerialAt
<1>2. NoLive(p)'
  <2>1. ASSUME NEW g \in Gens, Live(p, g)' PROVE FALSE
    <3>1. Live(p, g) /\ g # cancel[p] BY <2>1 DEF Live, HaltsAt
    <3> QED BY <1>1, <3>1 DEF SerialAt, SerialStop
  <2> QED BY <2>1 DEF NoLive
<1>3. ASSUME NEW b \in Actors, b # c, actor'[b].p = p,
             actor'[b].pc = "launching" \/ b \in Clients
      PROVE  FALSE
  <2>1. actor[b] = actor'[b] BY <1>3 DEF HaltsAt
  <2>2. CASE b = Main
    <3>1. MainOn(p) /\ MainOn(p)' BY <1>3, <2>1, <2>2, ActorNames DEF MainOn
    <3> QED BY <1>1, <3>1 DEF Alone, HaltsAt
  <2>3. CASE b \in Clients
    <3>1. ClientOn(b, p) /\ ClientOn(b, p)' BY <1>3, <2>1 DEF ClientOn
    <3> QED BY <1>1, <1>3, <2>3, <3>1 DEF Alone, HaltsAt
  <2> QED BY <2>2, <2>3, ActorNames
<1>4. \A g \in Gens : mon'[p][g].pc \notin {"relaunch", "launching"}
  <2>1. ASSUME NEW g \in Gens, mon'[p][g].pc \in {"relaunch", "launching"} PROVE FALSE
    <3>1. MonitorOn(p, g) /\ MonitorOn(p, g)' BY <2>1 DEF MonitorOn, HaltsAt, SameMons
    <3> QED BY <1>1, <3>1 DEF Alone, HaltsAt
  <2> QED BY <2>1
<1>5. /\ state'[p] \in {"stopping", "stopped"}
      /\ actor'[c].pc \in {"waiting", "stopall"}
      /\ actor'[c].pc = "waiting" => state'[p] = "stopping"
  BY DEF HaltsAt
<1>6. SerialLaunch(p)' BY <1>3, <1>4, <1>5 DEF SerialLaunch
<1>7. SerialStop(p)' BY <1>2, <1>3, <1>5, ActorNames DEF SerialStop, NoLive
<1>8. SerialClose(p)'
  BY <1>1 DEF SerialAt, SerialClose, HaltsAt, SameMons, SameClosed
<1> QED BY <1>6, <1>7, <1>8 DEF SerialAt

\* A stop that ends keeps the serial invariants.
LEMMA StopsSerial ==
    ASSUME Inv, NEW p \in Procs \ overlap, NEW c \in Clients, StopsAt(p, c)
    PROVE  SerialAt(p)'
<1>1. SerialAt(p) /\ Alone(p) BY DEF Inv, Serial, SerialAt
<1>2. state[p] = "stopping" /\ NoLive(p) BY <1>1 DEF SerialAt, SerialStop, StopsAt
<1>3. \A g \in Gens : Live(p, g)' => Live(p, g)
  BY LiveKept DEF StopsAt, NoBirth, SameKilled
<1>4. NoLive(p)' BY <1>2, <1>3 DEF NoLive
<1>5. ASSUME NEW a \in Actors, actor'[a].p = p PROVE actor'[a].pc # "launching"
  BY <1>1, <1>2, <1>5 DEF StopsAt, ActorsKeep, ActorKeeps, SerialAt, SerialLaunch
<1>6. ASSUME NEW a \in Clients, actor'[a].p = p PROVE actor'[a].pc # "waiting"
  <2>1. SUFFICES ASSUME actor'[a].pc = "waiting" PROVE FALSE OBVIOUS
  <2>2. actor[a].pc = "waiting" /\ actor[a].p = p
    BY <1>6, <2>1, ActorNames DEF StopsAt, ActorsKeep, ActorKeeps
  <2>3. a = c BY <1>1, <2>2 DEF StopsAt, Alone, ClientOn
  <2> QED BY <2>1, <2>3 DEF StopsAt
<1>7. SerialLaunch(p)'
  BY <1>1, <1>2, <1>5 DEF SerialLaunch, SerialAt, StopsAt, SameMons
<1>8. SerialStop(p)' BY <1>4, <1>6 DEF SerialStop, NoLive, StopsAt
<1>9. SerialClose(p)'
  BY <1>1 DEF SerialAt, SerialClose, StopsAt, SameMons, SameClosed
<1> QED BY <1>7, <1>8, <1>9 DEF SerialAt

\* A step of a monitor outside a launch keeps the serial invariants.
LEMMA TurnsSerial ==
    ASSUME Inv, NEW p \in Procs \ overlap, NEW g \in Gens, TurnsAt(p, g)
    PROVE  SerialAt(p)'
<1>1. SerialAt(p) /\ Launches(p) /\ Named(p) BY DEF Inv, General, Serial, SerialAt
<1>2. \A h \in Gens : Live(p, h)' => Live(p, h) BY LiveKept DEF TurnsAt
<1>3. NoLive(p) => NoLive(p)' BY <1>2 DEF NoLive
<1>4. /\ gen'[p] = gen[p] /\ cancel'[p] = cancel[p] /\ mon[p][g].pc \notin {"none", "launching"}
      /\ mon'[p][g].pc \notin {"none", "launching"}
      /\ \A h \in Gens \ {g} : mon'[p][h] = mon[p][h]
      /\ state'[p] = state[p] \/ (gen[p] = g /\ state'[p] \in {"healthy", "crashed"})
      /\ gen[p] = g => state[p] # "stopping"
      /\ state[p] = "stopped" => state'[p] = "stopped"
      /\ p \in retired' <=> p \in retired
      /\ \A a \in Actors : ActorKeeps(a, p)
  BY <1>1 DEF TurnsAt, Named, SameRetired, ActorsKeep
<1>5. Gens \subseteq 0..MaxGen /\ gen[p] \in 0..MaxGen BY ProcTypes DEF Inv
<1>6. ASSUME NEW a \in Actors, actor'[a].pc = "launching", actor'[a].p = p
      PROVE  actor'[a].g = gen'[p] /\ state'[p] = "starting" /\ NoLive(p)'
  <2>1. actor[a].pc = "launching" /\ actor[a].p = p /\ actor[a].g = actor'[a].g
    BY <1>4, <1>6 DEF ActorKeeps
  <2>2. actor[a].g = gen[p] /\ state[p] = "starting" /\ NoLive(p)
    BY <1>1, <2>1 DEF SerialAt, SerialLaunch
  <2>3. mon[p][gen[p]].pc = "none"
    BY <1>1, <1>5, <2>1, <2>2 DEF Launches, ActorLaunches
  <2> QED BY <1>3, <1>4, <2>1, <2>2, <2>3
<1>7. ASSUME NEW h \in Gens, mon'[p][h].pc = "launching"
      PROVE  mon'[p][h].next = gen'[p] /\ state'[p] = "starting" /\ NoLive(p)'
  <2>1. h # g /\ mon'[p][h] = mon[p][h] BY <1>4, <1>7
  <2>2. mon[p][h].next = gen[p] /\ state[p] = "starting" /\ NoLive(p)
    BY <1>1, <1>7, <2>1 DEF SerialAt, SerialLaunch
  <2>3. mon[p][gen[p]].pc = "none"
    BY <1>1, <1>5, <1>7, <2>1, <2>2 DEF Launches, MonitorLaunches
  <2> QED BY <1>3, <1>4, <2>1, <2>2, <2>3
<1>8. ASSUME NEW h \in Gens, mon'[p][h].pc = "relaunch"
      PROVE  gen'[p] = h /\ state'[p] = "crashed"
  <2>1. CASE h = g BY <1>4, <1>8, <2>1 DEF TurnsAt
  <2>2. CASE h # g BY <1>1, <1>4, <1>8, <2>2 DEF SerialAt, SerialLaunch
  <2> QED BY <2>1, <2>2
<1>9. SerialLaunch(p)' BY <1>6, <1>7, <1>8 DEF SerialLaunch
<1>10. state'[p] \in {"stopped", "stopping"} => NoLive(p)'
  BY <1>1, <1>3, <1>4 DEF SerialAt, SerialStop
<1>11. p \in retired' => state'[p] \in {"stopped", "stopping"}
  BY <1>1, <1>4 DEF SerialAt, SerialStop
<1>12. ASSUME NEW c \in Clients
       PROVE  /\ actor'[c].pc = "waiting" /\ actor'[c].p = p => state'[p] = "stopping"
              /\ actor'[c].pc = "deps" /\ actor'[c].p = p => state'[p] = "stopped"
  BY <1>1, <1>4, ActorNames DEF SerialAt, SerialStop, ActorKeeps
<1>13. SerialStop(p)'
  BY <1>1, <1>2, <1>4, <1>10, <1>11, <1>12 DEF SerialAt, SerialStop
<1>14. SerialClose(p)'
  <2>1. mon[p][g].chan = g /\ mon[p][g].pc # "over" /\ ~closed[p][g]
    BY <1>1, <1>4 DEF TurnsAt, SerialAt, SerialClose
  <2> QED BY <1>1, <1>4, <2>1 DEF TurnsAt, SerialAt, SerialClose
<1> QED BY <1>9, <1>13, <1>14 DEF SerialAt

\* No exited channel is closed twice, or while it is nil, as long as no two operations
\* ever overlapped.
LEMMA NoPanic == ASSUME Inv, Next, overlap' = {} PROVE down' # "panic"
<1>1. overlap = {} /\ down = "no" BY DEF Next, Step
<1>2. ASSUME NEW p \in Procs, NEW g \in Gens, Closes(p, g) PROVE down' # "panic"
  <2>1. SerialClose(p) BY <1>1 DEF Inv, Serial
  <2>2. mon[p][g].chan = g /\ ~closed[p][g] BY <1>2, <2>1 DEF Closes, SerialClose
  <2>3. g # 0 BY BoundsAssumption DEF Gens
  <2> QED BY <1>1, <1>2, <2>2, <2>3 DEF Closes
<1>3. CASE Step(StartAll)
  BY <1>1, <1>3 DEF Step, StartAll, SelectReady, MainLands, MainBegins
<1>4. ASSUME NEW c \in Clients, Step(Requests(c)) \/ Step(StopTimesOut(c)) PROVE down' # "panic"
  BY <1>1, <1>4 DEF Step, Requests, StopAllBegins, StartRequest, StopBegins, StopTimesOut
<1>5. ASSUME NEW c \in Clients, Step(Handling(c)) PROVE down' # "panic"
  BY <1>1, <1>5 DEF Step, Handling, StopEnds, CheckState, StartBegins, StartLands, Exit,
                    CheckDependency, StopAllVisits
<1>6. ASSUME NEW p \in Procs, NEW g \in Gens, Step(Monitoring(p, g)) PROVE down' # "panic"
  BY <1>1, <1>2, <1>6 DEF Step, Monitoring, MonitorStarts, SeesExit, SeesCancel, WakesUp,
                          RestartBegins, RestartLands, Drained
<1>7. ASSUME NEW p \in Procs, NEW g \in Gens,
             \/ Step(ChildExits(p, g)) \/ Step(ProbeSucceeds(p, g)) \/ Step(ProbeFails(p, g))
      PROVE  down' # "panic"
  BY <1>1, <1>7 DEF Step, ChildExits, ProbeSucceeds, ProbeFails
<1> QED BY <1>3, <1>4, <1>5, <1>6, <1>7 DEF Next

\* Every step keeps the serial invariants of the processes with one operation at a time.
LEMMA SerialStep == ASSUME Inv, Next, Moved PROVE Serial'
<1>1. ASSUME NEW p \in Procs \ overlap' PROVE Alone(p)' /\ SerialAt(p)'
  <2>1. Alone(p)' /\ p \in Procs \ overlap BY AloneStep
  <2>2. StepAt(p) BY DEF Moved
  <2> QED BY <2>1, <2>2, KeepsSerial, StartsSerial, RestartsSerial, LandsSerial, FailsSerial,
             HaltsSerial, StopsSerial, TurnsSerial
          DEF StepAt
<1> QED BY <1>1, NoPanic DEF Serial, SerialAt

-----------------------------------------------------------------------------
(* StartAll comes first *)

\* A monitor or a child does not touch what StartAll has not launched.
LEMMA QuietBefore ==
    ASSUME Inv, Moved, UNCHANGED <<actor, started, retired>>
    PROVE  BeforeDone'
<1> SUFFICES ASSUME actor[Main].pc # "done" PROVE BeforeDone'
  BY DEF BeforeDone
<1>1. \A c \in Clients : actor[c].pc = "idle" BY DEF Inv, BeforeDone
<1>2. ASSUME NEW p \in Procs \ started, ~MainOn(p)
      PROVE  gen'[p] = 0 /\ state'[p] = "stopped"
  <2>1. gen[p] = 0 /\ state[p] = "stopped" BY <1>2 DEF Inv, BeforeDone
  <2>2. \A g \in Gens : mon[p][g].pc = "none"
    BY <2>1, BoundsAssumption DEF Inv, General, Landed, Gens
  <2>3. \A a \in Actors : ~(actor[a].pc = "launching" /\ actor[a].p = p)
    BY <1>1, <1>2, ActorNames DEF MainOn
  <2>4. ~\E a \in Actors : StartsAt(p, a) BY <2>3 DEF StartsAt
  <2>5. ~\E g \in Gens : RestartsAt(p, g) \/ TurnsAt(p, g) BY <2>2 DEF RestartsAt, TurnsAt
  <2>6. ~\E g \in Gens : Launched(p, g)
    BY <2>2, <2>3 DEF Launched, ActorLaunches, MonitorLaunches
  <2>7. ~\E g \in Gens : LandsAt(p, g) \/ FailsAt(p, g) BY <2>6 DEF LandsAt, FailsAt, Ends
  <2>8. ~\E c \in Clients : HaltsAt(p, c) \/ StopsAt(p, c) BY <1>1 DEF HaltsAt, StopsAt
  <2>9. Keeps(p) BY <2>4, <2>5, <2>7, <2>8 DEF Moved, StepAt
  <2> QED BY <2>1, <2>9 DEF Keeps, SameFields
<1> QED BY <1>2 DEF Inv, BeforeDone, MainOn

\* StartAll launches each process once.
LEMMA MainBefore == ASSUME Inv, Step(StartAll) PROVE BeforeDone'
<1> SUFFICES ASSUME actor'[Main].pc # "done" PROVE BeforeDone' BY DEF BeforeDone
<1>0. actor[Main] \in Actor /\ Main \in Actors /\ actor \in [Actors -> Actor]
  BY ActorNames DEF Inv, TypeInv
<1>1. CASE SelectReady
  <2>1. /\ actor[Main].pc = "select" /\ UNCHANGED <<proc, started, retired>>
        /\ actor' = [actor EXCEPT ![Main].pc = "launch", ![Main].todo = Ready]
    <3>1. CASE actor' = [actor EXCEPT ![Main].pc = "done"] BY <1>0, <3>1 DEF Actor
    <3> QED BY <1>1, <3>1 DEF SelectReady
  <2>2. actor'[Main].pc = "launch" /\ actor'[Main].todo = Ready BY <1>0, <2>1 DEF Actor
  <2>3. \A c \in Clients : actor'[c] = actor[c] BY <1>0, <2>1, ActorNames
  <2>4. Ready \cap started = {} BY DEF Ready
  <2> QED BY <2>1, <2>2, <2>3, <2>4 DEF Inv, BeforeDone, MainOn, proc
<1>2. ASSUME NEW p \in Procs, MainBegins(p) PROVE BeforeDone'
  <2>1. /\ actor[Main].pc = "launch" /\ p \in actor[Main].todo /\ UNCHANGED <<started, retired>>
        /\ actor' = [actor EXCEPT ![Main].pc = "launching", ![Main].p = p,
                                  ![Main].g = gen[p] + 1]
        /\ Begin(p)
    BY <1>2 DEF MainBegins
  <2>2. /\ actor'[Main].pc = "launching" /\ actor'[Main].p = p
        /\ actor'[Main].todo = actor[Main].todo
    BY <1>0, <2>1 DEF Actor
  <2>3. \A c \in Clients : actor'[c] = actor[c] BY <1>0, <2>1, ActorNames
  <2>4. \A q \in Procs \ {p} : gen'[q] = gen[q] /\ state'[q] = state[q]
    BY <2>1, BeginFacts DEF Inv
  <2> QED BY <2>1, <2>2, <2>3, <2>4 DEF Inv, BeforeDone, MainOn
<1>3. CASE MainLands
  <2>1. PICK P \in SUBSET Procs : P = actor[Main].todo \ {actor[Main].p} BY <1>0 DEF Actor
  <2>2. PICK pc \in {"select", "launch"} : pc = IF P = {} THEN "select" ELSE "launch" OBVIOUS
  <2>3. LET s == [IdleActor EXCEPT !.pc = pc, !.todo = P]
        IN  s \in Actor /\ s.pc = pc /\ s.todo = P
    BY IdleFacts DEF Actor, IdleActor
  <2>4. /\ actor[Main].pc = "launching" /\ UNCHANGED retired
        /\ Land(actor[Main].p, actor[Main].g, mon) /\ started' = started \cup {actor[Main].p}
        /\ actor' = [actor EXCEPT ![Main] = [IdleActor EXCEPT !.pc = pc, !.todo = P]]
    <3>1. CASE actor' = [actor EXCEPT ![Main] = [IdleActor EXCEPT !.pc = "done"]]
      BY <1>0, <3>1 DEF Actor, IdleActor
    <3> QED BY <1>3, <2>1, <2>2, <3>1 DEF MainLands
  <2>5. actor'[Main].pc = pc /\ actor'[Main].todo = P BY <1>0, <2>3, <2>4
  <2>6. \A c \in Clients : actor'[c] = actor[c] BY <1>0, <2>4, ActorNames
  <2>7. actor[Main].p \in Procs /\ actor[Main].g \in Gens BY <1>0, <2>4, InFlight
  <2>8. PICK p \in Procs, h \in Gens : p = actor[Main].p /\ h = actor[Main].g BY <2>7
  <2>9. \A q \in Procs \ {p} : gen'[q] = gen[q] /\ state'[q] = state[q]
    <3>1. Land(p, h, mon) BY <2>4, <2>8
    <3> QED BY <3>1, LandFacts DEF Inv
  <2> QED BY <2>1, <2>2, <2>4, <2>5, <2>6, <2>8, <2>9 DEF Inv, BeforeDone, MainOn
<1> QED BY <1>1, <1>2, <1>3 DEF Step, StartAll

\* Every step keeps the order StartAll works in.
LEMMA BeforeStep == ASSUME Inv, Next, Moved PROVE BeforeDone'
<1>1. CASE Step(StartAll) BY <1>1, MainBefore
<1>2. ASSUME NEW c \in Clients, Step(Requests(c)) \/ Step(Handling(c)) \/ Step(StopTimesOut(c))
      PROVE  BeforeDone'
  <2>1. \E r : actor' = [actor EXCEPT ![c] = r]
    BY <1>2 DEF Step, Requests, Handling, StopTimesOut, StopAllBegins, StartRequest, StopBegins,
                StopEnds, CheckState, StartBegins, StartLands, Exit, CheckDependency,
                StopAllVisits, Goes
  <2>2. actor'[Main] = actor[Main] BY <2>1, ActorNames DEF Inv, TypeInv
  <2>3. actor[Main].pc = "done" \/ actor[c].pc # "idle"
    BY <1>2 DEF Step, Requests, Handling, StopTimesOut, StopAllBegins, StartRequest, StopBegins,
                StopEnds, CheckState, StartBegins, StartLands, Exit, CheckDependency,
                StopAllVisits, Accepts
  <2>4. actor[Main].pc = "done" BY <2>3 DEF Inv, BeforeDone
  <2> QED BY <2>2, <2>4 DEF BeforeDone
<1>3. ASSUME NEW p \in Procs, NEW g \in Gens,
             \/ Step(Monitoring(p, g)) \/ Step(ChildExits(p, g))
             \/ Step(ProbeSucceeds(p, g)) \/ Step(ProbeFails(p, g))
      PROVE  BeforeDone'
  <2>1. UNCHANGED <<actor, started, retired>>
    BY <1>3 DEF Step, Monitoring, ChildExits, ProbeSucceeds, ProbeFails, MonitorStarts, SeesExit,
                SeesCancel, WakesUp, RestartBegins, RestartLands, Drained, Closes
  <2> QED BY <2>1, QuietBefore
<1> QED BY <1>1, <1>2, <1>3 DEF Next

-----------------------------------------------------------------------------
(* The theorems *)

\* The initial state satisfies the inductive invariant.
LEMMA InitInv == Init => Inv
<1> SUFFICES ASSUME Init PROVE Inv OBVIOUS
<1> USE ActorNames
<1>1. NoMonitor \in Monitor /\ NoMonitor.pc = "none"
  BY BoundsAssumption DEF NoMonitor, Monitor
<1>2. /\ actor \in [Actors -> Actor]
      /\ actor[Main].pc = "select" /\ actor[Main].todo = {} /\ actor[Main].p = Nobody
      /\ \A c \in Clients : actor[c] = IdleActor
  <2>1. LET s == [IdleActor EXCEPT !.pc = "select"]
        IN  s \in Actor /\ s.pc = "select" /\ s.todo = {} /\ s.p = Nobody
    BY IdleFacts DEF Actor, IdleActor
  <2>2. PICK r \in Actor : /\ r = [IdleActor EXCEPT !.pc = "select"]
                           /\ r.pc = "select" /\ r.todo = {} /\ r.p = Nobody
    BY <2>1
  <2>3. actor = [a \in Actors |-> IF a = Main THEN r ELSE IdleActor] BY <2>2 DEF Init
  <2> QED BY <2>2, <2>3, IdleFacts
<1>3. /\ IdleActor.pc = "idle" /\ IdleActor.p = Nobody /\ IdleActor.todo = {}
  BY DEF IdleActor
<1>4. \A p \in Procs, g \in Gens :
         /\ mon[p][g] = NoMonitor /\ ~killed[p][g] /\ ~closed[p][g] /\ child[p][g] = "none"
  BY DEF Init
<1>5. TypeInv
  <2>1. /\ state \in [Procs -> States] /\ gen \in [Procs -> 0..MaxGen]
        /\ pid \in [Procs -> 0..MaxGen] /\ cancel \in [Procs -> 0..MaxGen]
        /\ exited \in [Procs -> 0..MaxGen]
    BY BoundsAssumption DEF Init, States
  <2>2. mon \in [Procs -> [Gens -> Monitor]] BY <1>1 DEF Init
  <2> QED BY <1>2, <1>3, <2>1, <2>2 DEF Init, TypeInv
<1>6. \A a \in Actors : actor[a].pc \notin {"launching", "waiting", "deps"}
  BY <1>2, <1>3
<1>7. General
  BY <1>1, <1>4, <1>6
     DEF Init, General, Launches, Landed, Named, Exited, ActorLaunches, MonitorLaunches
<1>8. Serial
  <2>1. \A p \in Procs : NoLive(p) BY <1>4 DEF NoLive, Live
  <2>2. \A p \in Procs : Alone(p)
    <3>1. \A p \in Procs, c \in Clients : ~ClientOn(c, p)
      BY <1>2, <1>3, DepsAssumption DEF ClientOn
    <3>2. \A p \in Procs, g \in Gens : ~MonitorOn(p, g) BY <1>1, <1>4 DEF MonitorOn
    <3> QED BY <3>1, <3>2 DEF Alone
  <2>3. \A p \in Procs : SerialLaunch(p) BY <1>1, <1>4, <1>6 DEF SerialLaunch
  <2>4. \A p \in Procs : SerialStop(p)
    BY <1>6, <2>1 DEF Init, SerialStop, NoLive
  <2>5. \A p \in Procs : SerialClose(p) BY <1>1, <1>4 DEF SerialClose
  <2> QED BY <2>2, <2>3, <2>4, <2>5 DEF Init, Serial
<1>9. BeforeDone BY <1>2, <1>3 DEF Init, BeforeDone
<1> QED BY <1>5, <1>7, <1>8, <1>9 DEF Inv

\* Every step, a stuttering one included, keeps the inductive invariant.
LEMMA InvStep == Inv /\ [Next]_vars => Inv'
<1>1. ASSUME Inv, Next PROVE Inv'
  <2>1. Moved BY <1>1, StepMoves
  <2> QED BY <1>1, <2>1, GeneralStep, SerialStep, BeforeStep DEF Inv, Moved
<1>2. ASSUME Inv, UNCHANGED vars PROVE Inv'
  BY <1>2 DEF Inv, TypeInv, General, Launches, Landed, Named, Exited, ActorLaunches,
              MonitorLaunches, Serial, Alone, ClientOn, MainOn, MonitorOn, SerialLaunch,
              SerialStop, SerialClose, NoLive, Live, BeforeDone, vars
<1> QED BY <1>1, <1>2

\* Every reachable state of the supervisor satisfies the inductive invariant: the types, what
\* generations tell launches and monitors about each other (startOne, monitor), and what an
\* operation that is alone on a process can rely on.
THEOREM SupervisorInvariant == Spec => []Inv
<1>1. Init => Inv BY InitInv
<1>2. Inv /\ [Next]_vars => Inv' BY InvStep
<1> QED BY <1>1, <1>2, PTL DEF Spec

\* However requests, crashes, failed probes and restarts interleave, a process shown as
\* running or healthy is the launch its PID names, and that launch's own monitor is on duty:
\* markHealthy and restartProcess of a retired monitor change nothing.
THEOREM ShownIsWatched == Spec => []Watched
<1>1. Inv => Watched BY DEF Inv, General, Named, Watched
<1> QED BY <1>1, SupervisorInvariant, PTL

\* As long as no two operations on a process overlap, it has one live child, none once a Stop
\* has succeeded, and no exited channel is closed twice or while it is nil.
THEOREM SerialOperationsSafe == Spec => []SerialSafe
<1>1. ASSUME Inv PROVE SerialSafe
  <2>1. ASSUME NEW p \in Procs \ overlap
        PROVE  /\ \A g, h \in Gens : Live(p, g) /\ Live(p, h) => g = h
               /\ p \in retired \/ state[p] = "stopped" => \A g \in Gens : ~Live(p, g)
    BY <1>1 DEF Inv, Serial, SerialStop, NoLive
  <2>2. overlap = {} => down # "panic" BY <1>1 DEF Inv, Serial
  <2> QED BY <2>1, <2>2 DEF SerialSafe
<1>2. Inv => SerialSafe BY <1>1
<1> QED BY <1>2, SupervisorInvariant, PTL

===============================================================================
