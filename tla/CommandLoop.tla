----------------------------- MODULE CommandLoop -----------------------------
(***************************************************************************)
(* The governed command loop of the central API and one edge agent per     *)
(* node: proposals pass the Safety Governor, CommandManager moves them     *)
(* through their life cycle under the store lock, every change is saved    *)
(* to command_shadow AFTER the lock is released, the agent claims, applies *)
(* and reports over HTTP, and CommandVerifier judges the effect from       *)
(* heartbeats.                                                             *)
(*                                                                         *)
(* A request handler is a thread.  Its locked section is one step.  A      *)
(* database transaction that follows is two: the fields are read from the  *)
(* command object when the upsert is prepared, and the row is written      *)
(* once the database gets to it.  The object is shared with the in-memory  *)
(* list until the list is reloaded or evicts it, after which the thread    *)
(* holds a detached copy.                                                  *)
(***************************************************************************)
EXTENDS Naturals, FiniteSets

CONSTANTS
    Nodes,          \* production nodes, each with one agent
    Orders,         \* allocation orders that dispatch control proposes
    Rates,          \* target rates
    Threads,        \* concurrent request handlers of the central API
    Issued,         \* the kinds of command proposed in this instance
    Decisions,      \* what operators decide in this instance
    Scenes,         \* what heartbeats show in this instance
    Primary,        \* TRUE: PostgreSQL is the primary fact source
    MaxId,          \* bound: command ids 1..MaxId
    HistoryLimit,   \* commands kept in memory (100 in the code)
    MinObs, MaxObs, \* CommandVerifier's observation window (3 and 5)
    MaxPosts,       \* bound: copies of one result report in flight
    MaxRequests,    \* bound: proposals and operator decisions
    MaxFails,       \* bound: failed database transactions
    MaxRestarts     \* bound: restarts of the central API

None == "none"
Ids == 1..MaxId
Kind == {"manual", "cleanup", "dispatch", "policy", "ai_review", "isolate"}

\* What a heartbeat shows beside the target rate, in the order the verifier
\* looks: an unacceptable effect, the wanted effect, or a silent downstream.
Scene == {"harm", "effect", "missing", "plain"}

\* CommandVerifier.__init__ refuses an empty or inverted window.
ASSUME WindowAssumption ==
    /\ MinObs \in Nat \ {0} /\ MaxObs \in Nat
    /\ MinObs <= MaxObs

ASSUME ConstantsAssumption ==
    /\ MaxId \in Nat \ {0} /\ HistoryLimit \in Nat \ {0}
    /\ MaxPosts \in Nat \ {0} /\ MaxRequests \in Nat /\ MaxFails \in Nat /\ MaxRestarts \in Nat
    /\ Primary \in BOOLEAN /\ Issued \subseteq Kind /\ Scenes \subseteq Scene
    /\ Decisions \subseteq {"approve", "reject", "cancel", "retry"}
    /\ None \notin Nodes \cup Orders \cup Rates \cup Threads

VARIABLES
    mem,      \* CommandRepository._projection: the in-memory command of each id
    db,       \* the command_shadow row of each id
    op,       \* what each request thread is doing
    held,     \* a thread's detached copies of objects no longer in the list
    snap,     \* the field values a thread's upsert carries to the database
    order,    \* AllocationOrder.status
    sugg,     \* ai_suggestions.status of the review command with this id
    ledger,   \* local_commands in each agent's SQLite file
    rate,     \* COMMAND_TARGET_RATE of each agent
    inbox,    \* fetched commands the agent has yet to apply
    fetch,    \* the thread whose answer the agent is waiting for
    posts,    \* result reports in flight
    handouts, \* history: how often each id was claimed
    requests, fails, restarts

central == <<mem, db, op, held, snap, order, sugg>>
edge == <<ledger, rate, inbox, fetch, posts>>
budget == <<requests, fails, restarts>>
vars == <<mem, db, op, held, snap, order, sugg, ledger, rate, inbox, fetch, posts,
          handouts, requests, fails, restarts>>

-----------------------------------------------------------------------------
(* Data *)

Status == {"waiting_approval", "pending", "claimed", "executed", "applied",
           "failed", "verified", "rejected", "expired", "superseded",
           "cancelled"}
OpenStatus == {"waiting_approval", "pending"}      \* what a successor supersedes
RetryableStatus == {"failed", "rejected", "expired", "cancelled"}
TerminalStatus == {"failed", "verified", "rejected", "expired", "superseded",
                   "cancelled"}
Verdict == {"effective", "partial", "failed", "inconclusive"}
OrderStatus == {"received", "awaiting_approval", "dispatched", "in_progress",
                "blocked", "rejected", "cancelled"}
SuggestionStatus == {"pending_human_review", "accepted", "rejected"}

\* cleared is a history field: the governor let this high-risk command pass.
\* msg abstracts result_message to who wrote it.
Command ==
    [node: Nodes \cup {None}, kind: Kind \cup {None}, order: Orders \cup {None},
     keyed: BOOLEAN, rate: Rates \cup {None}, status: Status \cup {"absent"},
     vstat: Verdict \cup {"not_started", "observing", "verified"},
     obs: 0..MaxObs, msg: {"none", "agent", "system"}, cleared: BOOLEAN]

Absent ==
    [node |-> None, kind |-> None, order |-> None, keyed |-> FALSE,
     rate |-> None, status |-> "absent", vstat |-> "not_started", obs |-> 0,
     msg |-> "none", cleared |-> FALSE]

\* One pending transaction (or follow-up update) of a handler.
ItemRecord ==
    [ph: 1..(3 * MaxId), what: {"save", "shadow", "verdict", "order", "suggest"},
     ids: SUBSET Ids, ord: Orders \cup {None},
     as: OrderStatus \cup SuggestionStatus \cup {None}]
Item ==
    {it \in ItemRecord : /\ it.what = "order" => it.as \in OrderStatus
                         /\ it.what = "suggest" => it.as \in SuggestionStatus}

Operation ==
    [pc: {"idle", "reviewed", "saving", "writing"},
     act: {"none", "approve", "reject", "cancel", "retry", "claim", "result"},
     id: 0..MaxId, kind: Kind \cup {None}, ord: Orders \cup {None},
     code: BOOLEAN, node: Nodes \cup {None}, todo: SUBSET Item, reply: SUBSET Ids]

Idle == [pc |-> "idle", act |-> "none", id |-> 0, kind |-> None,
         ord |-> None, code |-> FALSE, node |-> None, todo |-> {}, reply |-> {}]

Message == [id: Ids, kind: Kind \cup {None}, order: Orders \cup {None},
            keyed: BOOLEAN, rate: Rates \cup {None}, cleared: BOOLEAN]

Entry == [res: {"none", "executed", "failed"}, reported: BOOLEAN,
          kind: Kind \cup {None}, key: Orders \cup {None},
          rate: Rates \cup {None}, cleared: BOOLEAN]

NoEntry == [res |-> "none", reported |-> FALSE, kind |-> None, key |-> None,
            rate |-> None, cleared |-> FALSE]

TypeOK ==
    /\ mem \in [Ids -> Command]
    /\ db \in [Ids -> Command]
    /\ op \in [Threads -> Operation]
    /\ held \in [Threads -> [Ids -> Command]]
    /\ snap \in [Threads -> [Ids -> Command]]
    /\ order \in [Orders -> OrderStatus]
    /\ sugg \in [Ids -> SuggestionStatus \cup {None}]
    /\ ledger \in [Nodes -> [Ids -> Entry]]
    /\ rate \in [Nodes -> Rates \cup {None}]
    /\ inbox \in [Nodes -> SUBSET Message]
    /\ fetch \in [Nodes -> Threads \cup {None}]
    /\ posts \in [Nodes -> [Ids -> 0..MaxPosts]]
    /\ handouts \in [Ids -> 0..2]
    /\ requests \in 0..MaxRequests
    /\ fails \in 0..MaxFails
    /\ restarts \in 0..MaxRestarts

Nothing == [i \in Ids |-> Absent]

Init ==
    /\ mem = [i \in Ids |-> Absent]
    /\ db = [i \in Ids |-> Absent]
    /\ op = [t \in Threads |-> Idle]
    /\ held = [t \in Threads |-> Nothing]
    /\ snap = [t \in Threads |-> Nothing]
    /\ order = [o \in Orders |-> "received"]
    /\ sugg = [i \in Ids |-> None]
    /\ ledger = [n \in Nodes |-> [i \in Ids |-> NoEntry]]
    /\ rate = [n \in Nodes |-> None]
    /\ inbox = [n \in Nodes |-> {}]
    /\ fetch = [n \in Nodes |-> None]
    /\ posts = [n \in Nodes |-> [i \in Ids |-> 0]]
    /\ handouts = [i \in Ids |-> 0]
    /\ requests = 0
    /\ fails = 0
    /\ restarts = 0

-----------------------------------------------------------------------------
(* Kinds of command and the Safety Governor *)

\* manual and dispatch proposals are both set_target_rate commands.
SameType(k, l) == k = l \/ {k, l} \subseteq {"manual", "dispatch"}
SetsRate(k) == k \in {"manual", "dispatch"}
HighRisk(k) == k \in {"dispatch", "ai_review", "isolate"}

\* Mutant: a status the life cycle no longer has.
FirstStatusQueued(k) == IF k = "dispatch" THEN "queued" ELSE "pending"

FirstStatus(k) ==
    CASE k \in {"manual", "cleanup"} -> "pending"
      [] k \in {"dispatch", "policy", "ai_review"} -> "waiting_approval"
      [] OTHER -> "executed"

\* Mutant: the confirmation code is not asked for.
ConfirmationGateOpen(highRisk, code) == TRUE

\* _confirmation_gate: a high-risk action needs the confirmation code and the
\* system_admin role (code stands for both); nothing else does.
ConfirmationGate(highRisk, code) == highRisk => code

-----------------------------------------------------------------------------
(* The in-memory list *)

Present(f) == {i \in Ids : f[i].status # "absent"}

\* max(ids, default=0) + 1
IsNextId(i) ==
    /\ \A j \in Present(mem) : j < i
    /\ i = 1 \/ i - 1 \in Present(mem)

\* del commands[:-100]: the newest HistoryLimit commands stay.
Trim(f) ==
    [i \in Ids |->
        IF Cardinality({j \in Present(f) : j >= i}) <= HistoryLimit
        THEN f[i] ELSE Absent]

Superseded(c) == [c EXCEPT !.status = "superseded", !.msg = "system"]

\* Mutants: released commands are not replaced; claimed ones are.
ReplacedWaiting(n, k) ==
    {j \in Ids : /\ mem[j].status = "waiting_approval"
                 /\ mem[j].node = n /\ SameType(mem[j].kind, k)}
ReplacedClaimed(n, k) ==
    {j \in Ids : /\ mem[j].status \in OpenStatus \cup {"claimed"}
                 /\ mem[j].node = n /\ SameType(mem[j].kind, k)}

\* The open commands a new command of kind k for node n replaces.
Replaced(n, k) ==
    {j \in Ids : /\ mem[j].status \in OpenStatus
                 /\ mem[j].node = n /\ SameType(mem[j].kind, k)}

\* The list create_command leaves before it trims it.
WithCreated(i, c) ==
    [j \in Ids |-> IF j = i THEN c
                   ELSE IF j \in Replaced(c.node, c.kind)
                        THEN Superseded(mem[j]) ELSE mem[j]]

NewCommand(n, k, o, keyed, r, s, cleared) ==
    [node |-> n, kind |-> k, order |-> o, keyed |-> keyed, rate |-> r, status |-> s,
     vstat |-> "not_started", obs |-> 0, msg |-> "none", cleared |-> cleared]

-----------------------------------------------------------------------------
(* Threads and saves *)

Touched(w) == w.reply \cup UNION {it.ids : it \in w.todo}

\* The object a thread writes for id i: its detached copy, or the listed one.
Object(t, i) == IF held[t][i].status # "absent" THEN held[t][i] ELSE mem[i]

\* The objects of list f with an id in gone leave the list; the threads that
\* still have to save one keep it.
Detach(f, gone, ops) ==
    [u \in Threads |-> [i \in Ids |->
        IF i \in gone \cap Touched(ops[u]) /\ held[u][i].status = "absent"
        THEN f[i] ELSE held[u][i]]]

SaveItem(p, S) == [ph |-> p, what |-> "save", ids |-> S, ord |-> None, as |-> None]

\* _apply_command_transitions: one transaction per command, in list order.
SaveEach(S) == {SaveItem(i, {i}) : i \in S}

OrderItem(p, i, o, s) ==
    [ph |-> p, what |-> "order", ids |-> {i}, ord |-> o, as |-> s]
SuggestItem(p, i, s) ==
    [ph |-> p, what |-> "suggest", ids |-> {i}, ord |-> None, as |-> s]

\* The last two phases of a handler.
SavePhase == 3 * MaxId - 1
TailPhase == 3 * MaxId

\* op after thread t goes on to save as w, or is over when nothing is left to
\* save and no agent waits for the answer.
Saving(t, w) ==
    [op EXCEPT ![t] = IF w.todo = {} /\ w.act \notin {"claim", "result"}
                      THEN Idle ELSE [w EXCEPT !.pc = "saving"]]
Ended(t) == [op EXCEPT ![t] = Idle]
Released(t) == [held EXCEPT ![t] = Nothing]

\* One more request of an operator (a bound, not code).
Request == requests < MaxRequests /\ requests' = requests + 1

\* create_command under the lock, then the saves of add_command/retry_command:
\* superseded commands first, the new one last, then the caller's extras.
Create(t, i, c, extras) ==
    LET f == WithCreated(i, c)
    IN  /\ mem' = Trim(f)
        /\ op' = Saving(t, [Idle EXCEPT !.todo =
                      SaveEach(Replaced(c.node, c.kind))
                      \cup {SaveItem(SavePhase, {i})} \cup extras])
        /\ held' = Detach(f, Present(f) \ Present(Trim(f)), op')

-----------------------------------------------------------------------------
(* Proposals: CommandControlService and the store's own policies *)

\* The command create_command finds by idempotency key, if any.
HasKey(i, n, o) ==
    /\ mem[i].status # "absent" /\ mem[i].node = n /\ SetsRate(mem[i].kind)
    /\ mem[i].keyed /\ mem[i].order = o

ProposalTail(k, i, o) ==
    CASE k = "dispatch" -> {OrderItem(TailPhase, i, o, "awaiting_approval")}
      [] k = "ai_review" -> {SuggestItem(TailPhase, i, "pending_human_review")}
      [] OTHER -> {}

Issue(t, k, n, o, r) ==
    /\ Request /\ op[t].pc = "idle" /\ k \in Issued \ {"isolate"}
    /\ (o # None) <=> (k = "dispatch")
    /\ (r # None) <=> SetsRate(k)
    /\ k = "dispatch" => \A i \in Ids : ~HasKey(i, n, o)
    /\ \E i \in Ids :
        /\ IsNextId(i)
        /\ Create(t, i,
                  NewCommand(n, k, o, k = "dispatch", r, FirstStatus(k), FALSE),
                  ProposalTail(k, i, o))
    /\ UNCHANGED <<db, snap, order, sugg, edge, handouts, fails, restarts>>

\* The key is known: the old command is returned whatever its status, and the
\* proposal still marks the order as awaiting approval.
ReissueDispatch(t, i) ==
    /\ Request /\ op[t].pc = "idle" /\ "dispatch" \in Issued
    /\ mem[i].status # "absent" /\ mem[i].keyed
    /\ op' = Saving(t, [Idle EXCEPT
                   !.todo = ProposalTail("dispatch", i, mem[i].order)])
    /\ UNCHANGED <<mem, db, held, snap, order, sugg, edge, handouts, fails, restarts>>

\* isolate_node/restore_node create an executed command and save it while they
\* hold the lock; saved is FALSE when the transaction fails.
Isolate(n, i, saved) ==
    /\ Request /\ "isolate" \in Issued /\ IsNextId(i)
    /\ LET c == NewCommand(n, "isolate", None, FALSE, None, "executed", TRUE)
           f == WithCreated(i, c)
       IN  /\ mem' = Trim(f)
           /\ held' = Detach(f, Present(f) \ Present(Trim(f)), op)
           /\ \/ /\ saved
                 /\ db' = [db EXCEPT ![i] = c]
                 /\ UNCHANGED fails
              \/ /\ ~saved /\ fails < MaxFails
                 /\ fails' = fails + 1
                 /\ UNCHANGED db
    /\ UNCHANGED <<op, snap, order, sugg, edge, handouts, restarts>>

-----------------------------------------------------------------------------
(* Operator decisions: review outside the lock, transition under it *)

Review(t, a, i, code) ==
    /\ Request /\ op[t].pc = "idle"
    /\ mem[i].status # "absent"
    /\ \/ a \in {"reject", "cancel"} /\ ~code
       \/ a = "approve" /\ ConfirmationGate(HighRisk(mem[i].kind), code)
       \/ /\ a = "retry" /\ mem[i].kind # "ai_review"
          /\ ConfirmationGate(HighRisk(mem[i].kind), code)
    /\ op' = [op EXCEPT ![t] = [Idle EXCEPT !.pc = "reviewed", !.act = a,
                  !.id = i, !.kind = mem[i].kind, !.ord = mem[i].order,
                  !.code = code]]
    /\ UNCHANGED <<mem, db, held, snap, order, sugg, edge, handouts, fails, restarts>>

\* Whether the transition's own precondition holds when the lock is taken.
Permitted(w) ==
    LET c == mem[w.id]
    IN  \/ /\ w.act = "approve" /\ c.status = "waiting_approval"
           /\ w.kind = "ai_review" => c.kind = "ai_review"
        \/ w.act = "reject" /\ c.status = "waiting_approval"
        \/ w.act = "cancel" /\ c.status \in (Status \ TerminalStatus) \ {"executed"}
        \/ w.act = "cancel" /\ c.status = "cancelled"
        \/ w.act = "retry" /\ c.status \in RetryableStatus

Refused(t) ==
    /\ op[t].pc = "reviewed" /\ ~Permitted(op[t])
    /\ op' = Ended(t)
    /\ UNCHANGED <<mem, db, held, snap, order, sugg, edge, handouts, budget>>

DecisionTail(w, orderAs, suggestAs) ==
    CASE w.kind = "dispatch" -> {OrderItem(TailPhase, w.id, w.ord, orderAs)}
      [] w.kind = "ai_review" -> {SuggestItem(TailPhase, w.id, suggestAs)}
      [] OTHER -> {}

Approved(c, w) ==
    IF w.kind = "ai_review"
    THEN [c EXCEPT !.status = "verified", !.vstat = "verified",
                   !.msg = "system", !.cleared = w.code]
    ELSE [c EXCEPT !.status = "pending", !.cleared = w.code]

\* The three decisions that change the command in place.
Decide(t, a, c, todo) ==
    /\ op[t].pc = "reviewed" /\ op[t].act = a /\ Permitted(op[t])
    /\ mem' = [mem EXCEPT ![op[t].id] = c]
    /\ op' = Saving(t, [Idle EXCEPT !.todo = todo])
    /\ UNCHANGED <<db, held, snap, order, sugg, edge, handouts, budget>>

Approve(t) ==
    Decide(t, "approve", Approved(mem[op[t].id], op[t]),
           {SaveItem(SavePhase, {op[t].id})}
           \cup DecisionTail(op[t], "dispatched", "accepted"))

Reject(t) ==
    Decide(t, "reject", [mem[op[t].id] EXCEPT !.status = "rejected"],
           {SaveItem(SavePhase, {op[t].id})}
           \cup DecisionTail(op[t], "rejected", "rejected"))

\* A repeated cancel changes and saves nothing but still updates the order.
Cancel(t) ==
    LET again == mem[op[t].id].status = "cancelled"
    IN  Decide(t, "cancel",
               IF again THEN mem[op[t].id]
               ELSE [mem[op[t].id] EXCEPT !.status = "cancelled", !.msg = "system"],
               (IF again THEN {} ELSE {SaveItem(SavePhase, {op[t].id})})
               \cup DecisionTail(op[t], "cancelled", "rejected"))

\* A retry is a new command without the old key, pending from the start.
Retry(t, i) ==
    /\ op[t].pc = "reviewed" /\ op[t].act = "retry" /\ Permitted(op[t])
    /\ IsNextId(i)
    /\ LET c == mem[op[t].id]
       IN  Create(t, i,
                  NewCommand(c.node, c.kind, c.order, FALSE, c.rate, "pending",
                             op[t].code),
                  {})
    /\ UNCHANGED <<db, snap, order, sugg, edge, handouts, budget>>

-----------------------------------------------------------------------------
(* Agent requests *)

Claimed(i) == mem[i].status = "claimed"
\* Mutant: an expired claim can be claimed again.
ClaimableAgain(i, n) == mem[i].status \in {"pending", "expired"} /\ mem[i].node = n
Claimable(i, n) == mem[i].status = "pending" /\ mem[i].node = n

\* Mutant: a poll does not expire stale claims.
AfterClaimOnly(n, S) ==
    [i \in Ids |->
        IF Claimable(i, n) THEN [mem[i] EXCEPT !.status = "claimed"] ELSE mem[i]]

\* expire_stale_claims on S (claims older than the lease), then claim_for_node.
AfterClaim(n, S) ==
    [i \in Ids |->
        IF i \in S THEN [mem[i] EXCEPT !.status = "expired", !.msg = "system"]
        ELSE IF Claimable(i, n) THEN [mem[i] EXCEPT !.status = "claimed"]
        ELSE mem[i]]

Claim(t, n, S) ==
    LET C == {i \in Ids : Claimable(i, n)}
    IN  /\ op[t].pc = "idle" /\ inbox[n] = {}
        /\ S \subseteq {i \in Ids : Claimed(i)} /\ S \cup C # {}
        /\ mem' = AfterClaim(n, S)
        /\ op' = Saving(t, [Idle EXCEPT !.act = "claim", !.node = n, !.reply = C,
                      !.todo = SaveEach(S) \cup
                          (IF C = {} THEN {} ELSE {SaveItem(SavePhase, C)})])
        /\ fetch' = [fetch EXCEPT ![n] = t]
        /\ handouts' = [i \in Ids |-> IF i \in C /\ handouts[i] < 2
                                      THEN handouts[i] + 1 ELSE handouts[i]]
        /\ UNCHANGED <<db, held, snap, order, sugg, ledger, rate, inbox, posts, budget>>

\* pending_commands_for_node only expires stale claims.
ExpireScan(t, S) ==
    /\ op[t].pc = "idle"
    /\ S # {} /\ S \subseteq {i \in Ids : Claimed(i)}
    /\ mem' = [i \in Ids |->
                  IF i \in S THEN [mem[i] EXCEPT !.status = "expired", !.msg = "system"]
                  ELSE mem[i]]
    /\ op' = Saving(t, [Idle EXCEPT !.todo = SaveEach(S)])
    /\ UNCHANGED <<db, held, snap, order, sugg, edge, handouts, budget>>

\* record_result: what the reported outcome makes of the command.
ResultStatus(n, i) ==
    IF ledger[n][i].res = "executed" THEN "applied" ELSE "failed"

KnownResult(c, s) == c.status = "verified" \/ (c.status = s /\ c.msg = "agent")

AcceptsResult(c) ==
    c.status \in {"claimed", "pending", "executed", "applied", "failed"}

WithResult(c, s) ==
    [c EXCEPT !.status = s, !.msg = "agent",
              !.vstat = IF s = "applied" THEN "observing" ELSE c.vstat]

\* One report reaches the central API.  Only an accepted one is answered with
\* a success; the others leave the agent's entry unreported.
RecordResult(t, n, i) ==
    LET c == mem[i]
        s == ResultStatus(n, i)
        w == [Idle EXCEPT !.act = "result", !.node = n, !.id = i]
    IN  /\ op[t].pc = "idle" /\ posts[n][i] > 0
        /\ posts' = [posts EXCEPT ![n][i] = @ - 1]
        /\ \/ /\ c.node = n /\ ~KnownResult(c, s) /\ AcceptsResult(c)
              /\ mem' = [mem EXCEPT ![i] = WithResult(c, s)]
              /\ op' = Saving(t, [w EXCEPT !.todo = {SaveItem(SavePhase, {i})}])
           \/ /\ c.node = n /\ KnownResult(c, s)
              /\ op' = Saving(t, w)
              /\ UNCHANGED mem
           \/ /\ c.node # n \/ (~KnownResult(c, s) /\ ~AcceptsResult(c))
              /\ UNCHANGED <<mem, op>>
        /\ UNCHANGED <<db, held, snap, order, sugg, ledger, rate, inbox, fetch,
                       handouts, budget>>

-----------------------------------------------------------------------------
(* Heartbeats and CommandVerifier *)

Observed(n) == {i \in Ids : /\ mem[i].node = n /\ SetsRate(mem[i].kind)
                            /\ mem[i].status \in {"applied", "executed"}}

\* Mutant: the window has no end.
OutcomeOpen(k, applied, scene) ==
    CASE k >= MinObs /\ applied /\ scene = "harm" -> "failed"
      [] k >= MinObs /\ applied /\ scene = "effect" -> "effective"
      [] OTHER -> "observing"

Outcome(k, applied, scene) ==
    CASE k < MinObs \/ (~applied /\ k < MaxObs) -> "observing"
      [] k >= MinObs /\ ~applied /\ k >= MaxObs -> "failed"
      [] k >= MinObs /\ applied /\ scene = "harm" -> "failed"
      [] k >= MinObs /\ applied /\ scene = "effect" -> "effective"
      [] k >= MinObs /\ applied /\ scene \in {"missing", "plain"} /\ k < MaxObs
            -> "observing"
      [] k >= MaxObs /\ applied /\ scene = "missing" -> "inconclusive"
      [] OTHER -> "partial"

\* observe: a command with a verdict is left alone.
Observe(c, n, scene) ==
    LET k == IF c.obs < MaxObs THEN c.obs + 1 ELSE MaxObs
        v == Outcome(k, rate[n] = c.rate, scene)
    IN  IF c.vstat \in Verdict THEN c
        ELSE [c EXCEPT !.obs = k, !.vstat = v,
                       !.msg = IF v \in Verdict THEN "system" ELSE c.msg,
                       !.status = CASE v \in {"effective", "partial"} -> "verified"
                                    [] v = "failed" -> "failed"
                                    [] v = "inconclusive" -> "applied"
                                    [] OTHER -> c.status]

\* record_node_heartbeat_v2 from the observation on: every observed command is
\* saved and projected to its order, new verdicts are saved with an event.
Heartbeat(t, n, scene) ==
    LET seen(i) == IF i \in Observed(n) THEN Observe(mem[i], n, scene[i])
                   ELSE mem[i]
        judged == {i \in Observed(n) :
                      seen(i).vstat \in Verdict /\ mem[i].vstat \notin Verdict}
    IN  /\ op[t].pc = "idle" /\ Observed(n) # {}
        /\ mem' = [i \in Ids |-> seen(i)]
        /\ op' = Saving(t, [Idle EXCEPT
             !.todo =
               {[SaveItem(2 * i - 1, {i}) EXCEPT !.what = "shadow"] : i \in Observed(n)}
               \cup {[OrderItem(2 * i, i, mem[i].order, None) EXCEPT !.what = "verdict"]
                        : i \in Observed(n)}
               \cup {SaveItem(2 * MaxId + i, {i}) : i \in judged}])
        /\ UNCHANGED <<db, held, snap, order, sugg, edge, handouts, budget>>

-----------------------------------------------------------------------------
(* The unlocked part of every handler *)

IsNext(t, it) ==
    /\ op[t].pc \in {"saving", "writing"} /\ it \in op[t].todo
    /\ \A other \in op[t].todo : it.ph <= other.ph

Continue(t, todo) ==
    /\ op' = Saving(t, [op[t] EXCEPT !.todo = todo])
    /\ held' = IF op'[t] = Idle THEN Released(t) ELSE held

Done(t, it) == Continue(t, op[t].todo \ {it})

\* update_dispatch_control_status.
OrderOfVerdict(v) == IF v \in {"effective", "partial"} THEN "in_progress" ELSE "blocked"

SetOrder(o, s) ==
    order' = IF o = None THEN order ELSE [order EXCEPT ![o] = s]

\* One transaction of persist_command_events (or persist_command): the fields
\* are read, without the store lock ...
Prepare(t, it) ==
    /\ IsNext(t, it) /\ it.what \in {"save", "shadow"}
    /\ op[t].pc = "saving" /\ op' = [op EXCEPT ![t].pc = "writing"]
    /\ snap' = [snap EXCEPT ![t] =
                   [i \in Ids |-> IF i \in it.ids THEN Object(t, i) ELSE Absent]]
    /\ UNCHANGED <<mem, db, held, order, sugg, edge, handouts, budget>>

\* ... and the rows are written when the database lock is granted.
Save(t, it) ==
    /\ IsNext(t, it) /\ op[t].pc = "writing"
    /\ db' = [i \in Ids |-> IF i \in it.ids THEN snap[t][i] ELSE db[i]]
    /\ Done(t, it)
    /\ snap' = [snap EXCEPT ![t] = Nothing]
    /\ UNCHANGED <<mem, order, sugg, edge, handouts, budget>>

ProjectOrder(t, it) ==
    /\ IsNext(t, it) /\ it.what = "order"
    /\ SetOrder(it.ord, it.as)
    /\ Done(t, it)
    /\ UNCHANGED <<mem, db, snap, sugg, edge, handouts, budget>>

\* The verdict is read from the object when the loop reaches it.
ProjectVerdict(t, it) ==
    /\ IsNext(t, it) /\ it.what = "verdict"
    /\ \E i \in it.ids :
         IF Object(t, i).vstat \in Verdict
         THEN SetOrder(it.ord, OrderOfVerdict(Object(t, i).vstat))
         ELSE UNCHANGED order
    /\ Done(t, it)
    /\ UNCHANGED <<mem, db, snap, sugg, edge, handouts, budget>>

\* The suggestion row is inserted after its command exists; a decision that
\* comes before the row updates nothing.
SetSuggestion(t, it) ==
    /\ IsNext(t, it) /\ it.what = "suggest"
    /\ sugg' = [i \in Ids |->
                   IF i \in it.ids /\ (it.as = "pending_human_review" \/ sugg[i] # None)
                   THEN it.as ELSE sugg[i]]
    /\ Done(t, it)
    /\ UNCHANGED <<mem, db, snap, order, edge, handouts, budget>>

\* A failed transaction.  With PostgreSQL as primary it ends the handler with
\* an error, memory keeps the change; otherwise it is only recorded.  The
\* shadow save of a heartbeat never raises.
SaveFails(t, it) ==
    /\ IsNext(t, it) /\ op[t].pc = "writing"
    /\ fails < MaxFails /\ fails' = fails + 1
    /\ IF Primary /\ it.what = "save"
       THEN op' = Ended(t) /\ held' = Released(t)
       ELSE Done(t, it)
    /\ snap' = [snap EXCEPT ![t] = Nothing]
    /\ UNCHANGED <<mem, db, order, sugg, edge, handouts, requests, restarts>>

\* The suggestion row cannot be inserted: its command is cancelled.
SuggestionFails(t, it) ==
    /\ IsNext(t, it) /\ it.what = "suggest" /\ it.as = "pending_human_review"
    /\ fails < MaxFails /\ fails' = fails + 1
    /\ \E i \in it.ids :
         LET open == mem[i].status \in (Status \ TerminalStatus) \ {"executed"}
         IN  /\ mem' = IF open
                       THEN [mem EXCEPT ![i].status = "cancelled", ![i].msg = "system"]
                       ELSE mem
             /\ Continue(t, IF open THEN {SaveItem(SavePhase, {i})} ELSE {})
    /\ UNCHANGED <<db, snap, order, sugg, edge, handouts, requests, restarts>>

Handed(t, i) ==
    LET c == Object(t, i)
    IN  [id |-> i, kind |-> c.kind, order |-> c.order, keyed |-> c.keyed,
         rate |-> c.rate, cleared |-> c.cleared]

\* The handler answers.  The answer is lost when the agent gave up waiting or
\* the connection broke.
Finish(t, delivered) ==
    LET w == op[t]
    IN  /\ w.pc = "saving" /\ w.todo = {}
        /\ op' = Ended(t) /\ held' = Released(t)
        /\ \/ /\ w.act = "claim" /\ delivered /\ fetch[w.node] = t
              /\ inbox' = [inbox EXCEPT ![w.node] = {Handed(t, i) : i \in w.reply}]
              /\ fetch' = [fetch EXCEPT ![w.node] = None]
              /\ UNCHANGED ledger
           \/ /\ w.act = "result" /\ delivered
              /\ ledger' = [ledger EXCEPT ![w.node][w.id].reported = TRUE]
              /\ UNCHANGED <<inbox, fetch>>
           \/ /\ ~delivered
              /\ fetch' = [n \in Nodes |-> IF fetch[n] = t THEN None ELSE fetch[n]]
              /\ UNCHANGED <<ledger, inbox>>
        /\ UNCHANGED <<mem, db, snap, order, sugg, rate, posts, handouts, budget>>

-----------------------------------------------------------------------------
(* Projection reload and restart *)

\* refresh_primary_projection -> load_projection: the list is rebuilt from rows.
Refresh ==
    /\ Primary
    /\ mem' = Trim(db)
    /\ held' = Detach(mem, Ids, op)
    /\ UNCHANGED <<db, op, snap, order, sugg, edge, handouts, budget>>

\* The central API dies and comes back: MemoryStore.__init__ loads the rows.
Restart ==
    /\ restarts < MaxRestarts /\ restarts' = restarts + 1
    /\ mem' = Trim(db)
    /\ op' = [t \in Threads |-> Idle]
    /\ held' = [t \in Threads |-> Nothing]
    /\ snap' = [t \in Threads |-> Nothing]
    /\ fetch' = [n \in Nodes |-> None]
    /\ UNCHANGED <<db, order, sugg, ledger, rate, inbox, posts, handouts,
                   requests, fails>>

-----------------------------------------------------------------------------
(* The agent *)

IsHead(n, m) == m \in inbox[n] /\ \A other \in inbox[n] : m.id <= other.id

\* Mutant: only unreported results are looked up.
InLedgerUnreported(n, m) ==
    ledger[n][m.id].res # "none" /\ ~ledger[n][m.id].reported

\* applied_command_record: the ledger knows the id or the idempotency key.
InLedger(n, m) ==
    \/ ledger[n][m.id].res # "none"
    \/ m.keyed /\ \E j \in Ids : ledger[n][j].res # "none" /\ ledger[n][j].key = m.order

\* apply_agent_command sets the rate and commits the ledger row; a command of
\* another type, out of range or past expires_at is a failed result.
EdgeApply(n, m, res) ==
    /\ IsHead(n, m) /\ ~InLedger(n, m)
    /\ res = "executed" => SetsRate(m.kind)
    /\ ledger' = [ledger EXCEPT ![n][m.id] =
                    [res |-> res, reported |-> FALSE, kind |-> m.kind,
                     key |-> IF m.keyed THEN m.order ELSE None,
                     rate |-> m.rate, cleared |-> m.cleared]]
    /\ rate' = IF res = "executed" THEN [rate EXCEPT ![n] = m.rate] ELSE rate
    /\ inbox' = [inbox EXCEPT ![n] = @ \ {m}]
    /\ UNCHANGED <<central, fetch, posts, handouts, budget>>

EdgeIgnore(n, m) ==
    /\ IsHead(n, m) /\ InLedger(n, m)
    /\ inbox' = [inbox EXCEPT ![n] = @ \ {m}]
    /\ UNCHANGED <<central, ledger, rate, fetch, posts, handouts, budget>>

\* flush_pending_command_results: unreported results are posted, again and
\* again; a post that timed out may still be on its way.
EdgePost(n, i) ==
    /\ ledger[n][i].res # "none" /\ ~ledger[n][i].reported
    /\ posts[n][i] < MaxPosts
    /\ posts' = [posts EXCEPT ![n][i] = @ + 1]
    /\ UNCHANGED <<central, ledger, rate, inbox, fetch, handouts, budget>>

PostLost(n, i) ==
    /\ posts[n][i] > 0
    /\ posts' = [posts EXCEPT ![n][i] = @ - 1]
    /\ UNCHANGED <<central, ledger, rate, inbox, fetch, handouts, budget>>

\* The agent's 3 second fetch timeout, or its restart, which also forgets what
\* it fetched; restore_local_command_state brings the rate back.
EdgeGivesUp(n) ==
    /\ fetch[n] # None \/ inbox[n] # {}
    /\ fetch' = [fetch EXCEPT ![n] = None]
    /\ inbox' = [inbox EXCEPT ![n] = {}]
    /\ UNCHANGED <<central, ledger, rate, posts, handouts, budget>>

-----------------------------------------------------------------------------
Proposal ==
    \/ \E t \in Threads, k \in Issued, n \in Nodes,
         o \in Orders \cup {None}, r \in Rates \cup {None} : Issue(t, k, n, o, r)
    \/ \E t \in Threads, i \in Ids : ReissueDispatch(t, i)
    \/ \E n \in Nodes, i \in Ids, saved \in BOOLEAN : Isolate(n, i, saved)

Decision ==
    \/ \E t \in Threads, a \in Decisions,
         i \in Ids, code \in BOOLEAN : Review(t, a, i, code)
    \/ \E t \in Threads : Refused(t) \/ Approve(t) \/ Reject(t) \/ Cancel(t)
    \/ \E t \in Threads, i \in Ids : Retry(t, i)

AgentRequest ==
    \/ \E t \in Threads, n \in Nodes, S \in SUBSET Ids : Claim(t, n, S)
    \/ \E t \in Threads, S \in SUBSET Ids : ExpireScan(t, S)
    \/ \E t \in Threads, n \in Nodes, i \in Ids : RecordResult(t, n, i)
    \/ \E t \in Threads, n \in Nodes, scene \in [Ids -> Scenes] : Heartbeat(t, n, scene)

Unlocked ==
    \/ \E t \in Threads : \E it \in op[t].todo :
          \/ Prepare(t, it) \/ Save(t, it) \/ ProjectOrder(t, it) \/ ProjectVerdict(t, it)
          \/ SetSuggestion(t, it) \/ SaveFails(t, it) \/ SuggestionFails(t, it)
    \/ \E t \in Threads, delivered \in BOOLEAN : Finish(t, delivered)

Edge ==
    \/ \E n \in Nodes : \E m \in inbox[n] :
          EdgeIgnore(n, m) \/ \E res \in {"executed", "failed"} : EdgeApply(n, m, res)
    \/ \E n \in Nodes, i \in Ids : EdgePost(n, i) \/ PostLost(n, i)
    \/ \E n \in Nodes : EdgeGivesUp(n)

Next == Proposal \/ Decision \/ AgentRequest \/ Unlocked \/ Refresh \/ Restart \/ Edge

Spec == Init /\ [][Next]_vars

-----------------------------------------------------------------------------
(* Fairness.  Handlers run to completion; an agent that fetched commands    *)
(* applies them, posts what it has not reported and polls on a timer (a     *)
(* poll past the lease expires every stale claim); heartbeats come on a     *)
(* timer.  A request waits in the server's queue while every worker is      *)
(* busy, hence strong fairness for those that need a free worker.           *)

Poll(n) == \E t \in Threads : Claim(t, n, {i \in Ids : Claimed(i)})
Posted(n, i) == \E t \in Threads : RecordResult(t, n, i)
Beat(n) == \E t \in Threads, scene \in [Ids -> Scenes] : Heartbeat(t, n, scene)
Step(t) ==
    \/ \E it \in op[t].todo :
          Prepare(t, it) \/ Save(t, it) \/ ProjectOrder(t, it)
          \/ ProjectVerdict(t, it) \/ SetSuggestion(t, it)
    \/ Finish(t, TRUE) \/ Finish(t, FALSE)
    \/ Refused(t) \/ Approve(t) \/ Reject(t) \/ Cancel(t)
Drain(n) == \E m \in inbox[n] :
    EdgeIgnore(n, m) \/ \E res \in {"executed", "failed"} : EdgeApply(n, m, res)

Fairness ==
    /\ \A t \in Threads : WF_vars(Step(t))
    /\ \A n \in Nodes : WF_vars(Drain(n)) /\ SF_vars(Poll(n)) /\ SF_vars(Beat(n))
    /\ \A n \in Nodes, i \in Ids : WF_vars(EdgePost(n, i)) /\ SF_vars(Posted(n, i))

FairSpec == Spec /\ Fairness

-----------------------------------------------------------------------------
(* Properties *)

\* The statuses of a command nobody has released for execution.
Withheld == {"absent", "waiting_approval", "rejected", "superseded", "cancelled"}

Governed(c) == HighRisk(c.kind) /\ c.status \notin Withheld => c.cleared

\* No high-risk command is ever released, saved as released, handed to an
\* agent or executed unless an administrator gave the confirmation code for
\* it: the review of CommandControlService happens before the lock is taken,
\* and crashes, failed saves, lost answers and retries come in between.
HighRiskGoverned ==
    /\ \A i \in Ids : Governed(mem[i]) /\ Governed(db[i])
    /\ \A t \in Threads, i \in Ids : Governed(held[t][i]) /\ Governed(snap[t][i])
    /\ \A n \in Nodes : \A m \in inbox[n] : HighRisk(m.kind) => m.cleared
    /\ \A n \in Nodes, i \in Ids : HighRisk(ledger[n][i].kind) => ledger[n][i].cleared

\* create_command supersedes what it replaces: a node never has two commands
\* of one type that could still be handed out.
OneOpenPerSlot ==
    \A i, j \in Ids :
        /\ mem[i].status \in OpenStatus /\ mem[j].status \in OpenStatus
        /\ mem[i].node = mem[j].node /\ SameType(mem[i].kind, mem[j].kind)
        => i = j

\* claim_pending_commands_for_node hands a command to one poll only, however
\* many polls run at once.
ClaimedOnce == \A i \in Ids : handouts[i] <= 1

\* A command that was superseded or rejected is never at an agent.  One that expired may
\* be: the lease runs out at the central API, and the agent does not know of it.
WithdrawnNeverRuns ==
    \A i \in Ids : mem[i].status \in {"superseded", "rejected"} =>
        \A n \in Nodes : /\ ledger[n][i].res = "none"
                         /\ \A m \in inbox[n] : m.id # i

\* Agents apply set_target_rate in the order of their ids: whatever was lost,
\* repeated or expired, the newest executed command decides the rate.
LatestWins ==
    \A n \in Nodes, i \in Ids :
        /\ ledger[n][i].res = "executed"
        /\ \A j \in Ids : ledger[n][j].res = "executed" => j <= i
        => rate[n] = ledger[n][i].rate

\* The agent executes an id once: a result in its ledger is never replaced,
\* also when the id is handed out twice.
ExecutedOnce ==
    [][\A n \in Nodes, i \in Ids :
          ledger[n][i].res # "none" => ledger'[n][i].res = ledger[n][i].res]_vars

\* A claim does not last: the agent reports, or a later poll expires it.
ClaimsResolve ==
    \A i \in Ids : mem[i].status = "claimed" ~> mem[i].status # "claimed"

\* CommandVerifier reaches a verdict on every applied command it may observe.
AppliedIsJudged ==
    \A i \in Ids :
        (mem[i].status = "applied" /\ SetsRate(mem[i].kind))
            ~> (mem[i].vstat \in Verdict \/ mem[i].status # "applied")

=============================================================================
