-------------------------------- MODULE PartFlow --------------------------------
(***************************************************************************)
(* Parts between the workshops: the part queue of store.py, the claims of  *)
(* the node agent (simulator.py: claim_next_part, complete_active_part,    *)
(* poll_part_queue) and the flow that the finished quantity of a heartbeat *)
(* drives.  Turning makes parts for milling, milling for grinding.  A      *)
(* change is made under the store's lock and written to part_queue_shadow  *)
(* after it; a reload replaces the queue by the rows.                      *)
(***************************************************************************)
EXTENDS Integers, FiniteSets, FiniteSetsExt

CONSTANTS
    Threads,     \* threads of the API
    QueueLimit,  \* parts the queue keeps (500 in the code)
    MaxParts,    \* bound: part ids
    MaxTokens,   \* bound: claims
    MaxDelta,    \* most parts one heartbeat accounts for (20 in the code)
    MaxBeats     \* bound: heartbeats of the turning workshop

ASSUME PartFlowAssumption ==
    /\ QueueLimit \in Nat \ {0} /\ MaxParts \in Nat \ {0} /\ MaxTokens \in Nat
    /\ MaxDelta \in Nat \ {0} /\ MaxBeats \in Nat

VARIABLES
    part,       \* part_queue by id
    row,        \* part_queue_shadow by id
    seq,        \* part_seq
    token,      \* claim tokens given so far
    expired,    \* tokens whose claim_expires_at has passed
    thread,     \* open requests
    holds,      \* ACTIVE_PART of the agent of a workshop
    mark,       \* part_completion_watermark of turning, -1 when absent
    count,      \* finished_quantity of turning
    beats,      \* heartbeats of turning under way: [no, count]
    sent,       \* heartbeats sent
    born,       \* history: parts created from a part
    made,       \* history: pieces turned
    created,    \* history: parts created for milling
    torn,       \* history: parts a reload or restart set back, or whose number is given again
    cut,        \* history: parts taken from a full queue, or with a retired workshop
    unanswered, \* history: parts whose completion the agent was not told of
    last,       \* history: newest heartbeat handled
    reordered   \* history: a heartbeat was handled after a newer one

queueVars == <<part, row, seq, token, expired>>
flowVars == <<mark, count, beats, sent, made, created, last, reordered>>
partVars == <<queueVars, thread, holds, flowVars, born, torn, cut, unanswered>>

Parts == 1..MaxParts
Workshops == {"milling", "grinding"}
NoPart == [status |-> "none", at |-> "none", token |-> 0]
Nothing == [id |-> 0, token |-> 0]
Free == [op |-> "none", at |-> "none", left |-> 0, done |-> Nothing, unsaved |-> {}]

\* A part object of a request: in the queue, or out of it since a reload or a cut
Own(i) == [id |-> i, copy |-> NoPart]
Object(h) == IF h.copy = NoPart THEN part[h.id] ELSE h.copy
Detached(th, q, out) ==
    [r \in Threads |-> [th[r] EXCEPT !.unsaved =
        {IF h.copy = NoPart /\ h.id \in out THEN [h EXCEPT !.copy = q[h.id]] ELSE h : h \in @}]]

-----------------------------------------------------------------------------
(* Operations of the queue *)

\* _release_expired_part_claims_locked
Lapsed == {i \in Parts : part[i].status = "claimed" /\ part[i].token \in expired}
Released == [i \in Parts |-> IF i \in Lapsed THEN [part[i] EXCEPT !.status = "ready", !.token = 0]
                             ELSE part[i]]

Claimable(q, w) == {i \in Parts : q[i].at = w /\ q[i].status = "ready"}

\* complete_claimed_part.  Mutant: the status is not looked at, the token is.
TokenFits(i, w, k) == part[i].at = w /\ part[i].token = k
Completable(i, w, k) == part[i].at = w /\ part[i].status = "claimed" /\ part[i].token = k

\* part_queue[-500:]: the newest parts of q stay, whatever their status
Retained(q) == {i \in Parts : Cardinality({j \in Parts : j >= i /\ q[j] # NoPart}) <= QueueLimit}
Cut(q) == [i \in Parts |-> IF i \in Retained(q) THEN q[i] ELSE NoPart]

\* The queue becomes q without the parts of out, which th may still have to save
Leave(q, th, out) ==
    /\ part' = [i \in Parts |-> IF i \in out THEN NoPart ELSE q[i]]
    /\ thread' = Detached(th, q, out)
    /\ cut' = cut \cup {i \in out : q[i] # NoPart}

\* _next_part_queue_step
NextWorkshop(w) == IF w = "milling" THEN "grinding" ELSE "none"

\* claim_next_part_for_node: expired claims are released, the oldest ready part is taken
Claim(r, w) ==
    LET ready == Claimable(Released, w)
        i == Min(ready) IN
    IF ready = {}
    THEN /\ part' = Released /\ UNCHANGED token
         /\ thread' = [thread EXCEPT ![r].unsaved = {Own(j) : j \in Lapsed}, ![r].left = 0]
    ELSE /\ token < MaxTokens /\ token' = token + 1
         /\ part' = [Released EXCEPT ![i].status = "claimed", ![i].token = token + 1]
         /\ thread' = [thread EXCEPT ![r].unsaved = {Own(j) : j \in Lapsed \cup {i}},
                                     ![r].done = [id |-> i, token |-> token + 1]]

\* The part is completed and the part for the next workshop appended; t is what the request
\* goes on with
Complete(r, i, w, t) ==
    LET q == [part EXCEPT ![i].status = "completed"]
        longer == [q EXCEPT ![seq + 1] =
                      [status |-> "ready", at |-> NextWorkshop(w), token |-> 0]] IN
    IF NextWorkshop(w) = "none"
    THEN /\ part' = q /\ thread' = [thread EXCEPT ![r] = [t EXCEPT !.unsaved = {Own(i)}]]
         /\ UNCHANGED <<seq, born, cut>>
    ELSE /\ seq < MaxParts /\ seq' = seq + 1
         /\ born' = [born EXCEPT ![i] = @ + 1]
         /\ Leave(longer, [thread EXCEPT ![r] = [t EXCEPT !.unsaved = {Own(i), Own(seq + 1)}]],
                  Parts \ Retained(longer))

\* persist_part_queue_item for each object; a write that fails is logged and forgotten
Save(r, written) ==
    /\ thread[r].unsaved # {} /\ written \subseteq thread[r].unsaved
    /\ row' = [i \in Parts |-> IF \E h \in written : h.id = i
                               THEN Object(CHOOSE h \in written : h.id = i) ELSE row[i]]
    /\ thread' = [thread EXCEPT ![r].unsaved = {}]
    /\ UNCHANGED <<part, seq, token, expired, holds, flowVars, born, torn, cut, unanswered>>

-----------------------------------------------------------------------------
(* Flow from heartbeats: _advance_part_flow_from_heartbeat *)

MakePiece ==
    /\ sent < MaxBeats /\ made < MaxParts
    /\ count' = count + 1 /\ made' = made + 1
    /\ UNCHANGED <<queueVars, thread, holds, mark, beats, sent, created, last, reordered,
                   born, torn, cut, unanswered>>

SendBeat ==
    /\ sent < MaxBeats /\ sent' = sent + 1
    /\ beats' = beats \cup {[no |-> sent + 1, count |-> count]}
    /\ UNCHANGED <<queueVars, thread, holds, mark, count, made, created, last, reordered,
                   born, torn, cut, unanswered>>

RestartTurning ==
    /\ count > 0 /\ count' = 0
    /\ UNCHANGED <<queueVars, thread, holds, mark, beats, sent, made, created, last, reordered,
                   born, torn, cut, unanswered>>

\* Parts a heartbeat accounts for.  Mutant: without a watermark everything is new.
FromZero(f) == IF f <= mark THEN 0 ELSE Min({f - Max({mark, 0}), MaxDelta})
Delta(f) == IF mark = -1 \/ f <= mark THEN 0 ELSE Min({f - mark, MaxDelta})

TurningBeat(r, b) ==
    /\ thread[r] = Free /\ b \in beats
    /\ beats' = beats \ {b}
    /\ mark' = b.count
    /\ reordered' = (reordered \/ b.no < last) /\ last' = Max({last, b.no})
    /\ thread' = [thread EXCEPT ![r] =
          IF Delta(b.count) = 0 THEN Free ELSE [Free EXCEPT !.op = "create", !.left = Delta(b.count)]]
    /\ UNCHANGED <<queueVars, holds, count, sent, made, created, born, torn, cut, unanswered>>

\* create_ready_part
CreatePart(r) ==
    /\ thread[r].op = "create" /\ thread[r].left > 0 /\ thread[r].unsaved = {}
    /\ seq < MaxParts /\ seq' = seq + 1
    /\ created' = created + 1
    /\ LET longer == [part EXCEPT ![seq + 1] = [status |-> "ready", at |-> "milling", token |-> 0]]
       IN  Leave(longer, [thread EXCEPT ![r].left = @ - 1, ![r].unsaved = {Own(seq + 1)}],
                 Parts \ Retained(longer))
    /\ UNCHANGED <<row, token, expired, holds, mark, count, beats, sent, made, last, reordered,
                   born, torn, unanswered>>

\* A heartbeat of milling or grinding with so many more pieces: parts are claimed and
\* completed one by one until none is ready
WorkshopBeat(r, w, delta) ==
    /\ thread[r] = Free
    /\ thread' = [thread EXCEPT ![r] = [Free EXCEPT !.op = "consume", !.at = w, !.left = delta]]
    /\ UNCHANGED <<queueVars, holds, flowVars, born, torn, cut, unanswered>>

ConsumeClaim(r) ==
    /\ thread[r].op = "consume" /\ thread[r].left > 0 /\ thread[r].unsaved = {}
    /\ thread[r].done = Nothing
    /\ Claim(r, thread[r].at)
    /\ UNCHANGED <<row, seq, expired, holds, flowVars, born, torn, cut, unanswered>>

\* The claim may be gone: then complete_claimed_part raises and ends the request
ConsumeComplete(r) ==
    LET d == thread[r].done IN
    /\ thread[r].op = "consume" /\ thread[r].unsaved = {} /\ d # Nothing
    /\ IF Completable(d.id, thread[r].at, d.token)
       THEN Complete(r, d.id, thread[r].at,
                     [thread[r] EXCEPT !.done = Nothing, !.left = IF @ > 0 THEN @ - 1 ELSE 0])
       ELSE thread' = [thread EXCEPT ![r] = Free] /\ UNCHANGED <<part, seq, born, cut>>
    /\ UNCHANGED <<row, token, expired, holds, flowVars, torn, unanswered>>

EndBeat(r) ==
    /\ thread[r].op \in {"create", "consume"} /\ thread[r].left = 0 /\ thread[r].unsaved = {}
    /\ thread' = [thread EXCEPT ![r] = Free]
    /\ UNCHANGED <<queueVars, holds, flowVars, born, torn, cut, unanswered>>

-----------------------------------------------------------------------------
(* Claims of the agent: poll_part_queue *)

AgentClaim(r, w) ==
    /\ thread[r] = Free /\ holds[w] = Nothing
    /\ \A q \in Threads : thread[q].op \in {"claim", "complete"} => thread[q].at # w
    /\ LET t == [thread EXCEPT ![r] = [Free EXCEPT !.op = "claim", !.at = w]]
           ready == Claimable(Released, w) IN
       /\ ready # {} /\ token < MaxTokens /\ token' = token + 1
       /\ part' = [Released EXCEPT ![Min(ready)].status = "claimed",
                                   ![Min(ready)].token = token + 1]
       /\ thread' = [t EXCEPT ![r].unsaved = {Own(j) : j \in Lapsed \cup {Min(ready)}},
                              ![r].done = [id |-> Min(ready), token |-> token + 1]]
    /\ UNCHANGED <<row, seq, expired, holds, flowVars, born, torn, cut, unanswered>>

\* The answer arrives, or is lost and the claim runs out
AgentClaimed(r, answered) ==
    /\ thread[r].op = "claim" /\ thread[r].unsaved = {}
    /\ holds' = IF answered THEN [holds EXCEPT ![thread[r].at] = thread[r].done] ELSE holds
    /\ thread' = [thread EXCEPT ![r] = Free]
    /\ UNCHANGED <<queueVars, flowVars, born, torn, cut, unanswered>>

\* A refused completion changes nothing: the agent keeps the part and asks again
AgentComplete(r, w) ==
    /\ thread[r] = Free /\ holds[w] # Nothing
    /\ \A q \in Threads : thread[q].op = "complete" => thread[q].at # w
    /\ Completable(holds[w].id, w, holds[w].token)
    /\ Complete(r, holds[w].id, w, [Free EXCEPT !.op = "complete", !.at = w, !.done = holds[w]])
    /\ UNCHANGED <<row, token, expired, holds, flowVars, torn, unanswered>>

AgentCompleted(r, answered) ==
    LET w == thread[r].at IN
    /\ thread[r].op = "complete" /\ thread[r].unsaved = {}
    /\ holds' = IF answered THEN [holds EXCEPT ![w] = Nothing] ELSE holds
    /\ unanswered' = IF answered THEN unanswered ELSE unanswered \cup {thread[r].done.id}
    /\ thread' = [thread EXCEPT ![r] = Free]
    /\ UNCHANGED <<queueVars, flowVars, born, torn, cut>>

\* The agent restarts and forgets its part
AgentRestarts(w) ==
    /\ holds[w] # Nothing /\ holds' = [holds EXCEPT ![w] = Nothing]
    /\ UNCHANGED <<queueVars, thread, flowVars, born, torn, cut, unanswered>>

\* claim_expires_at passes; part_queue_snapshot releases on its own
ExpireClaim(k) ==
    /\ k \in 1..token /\ k \notin expired /\ expired' = expired \cup {k}
    /\ UNCHANGED <<part, row, seq, token, thread, holds, flowVars, born, torn, cut, unanswered>>

ReleaseExpired(r) ==
    /\ thread[r] = Free /\ Lapsed # {}
    /\ part' = Released
    /\ thread' = [thread EXCEPT ![r] = [Free EXCEPT !.op = "consume",
                                                    !.unsaved = {Own(j) : j \in Lapsed}]]
    /\ UNCHANGED <<row, seq, token, expired, holds, flowVars, born, torn, cut, unanswered>>

\* source_node of a part
Source(at) == IF at = "milling" THEN "turning" ELSE "milling"

\* retire_node takes the parts it made, was to work on or has claimed, whatever their
\* status.  Their rows stay, so a reload brings them back; a retired workshop that
\* registers again goes on as before.
RetireWorkshop(w) ==
    LET gone == {i \in Parts : part[i] # NoPart /\ w \in {part[i].at, Source(part[i].at)}} IN
    /\ gone # {} /\ Leave(part, thread, gone)
    /\ UNCHANGED <<row, seq, token, expired, holds, flowVars, born, torn, unanswered>>

-----------------------------------------------------------------------------
(* Reload and restart of the API *)

\* load_part_queue_shadow
Behind == {i \in Parts : part[i] # Cut(row)[i]}
Newest == Max({i \in Parts : row[i] # NoPart} \cup {0})

Reload ==
    /\ Behind # {}
    /\ part' = Cut(row) /\ seq' = Max({seq, Newest})
    /\ torn' = torn \cup Behind
    /\ thread' = Detached(thread, part, Parts)
    /\ UNCHANGED <<row, token, expired, holds, flowVars, born, cut, unanswered>>

RestartApi ==
    /\ part' = Cut(row) /\ seq' = Newest /\ mark' = -1
    /\ torn' = torn \cup Behind \cup (Newest + 1)..seq
    /\ unanswered' = unanswered \cup {thread[r].done.id : r \in {q \in Threads : thread[q].op = "complete"}}
    /\ thread' = [r \in Threads |-> Free]
    /\ UNCHANGED <<row, token, expired, holds, count, beats, sent, made, created, last,
                   reordered, born, cut>>

-----------------------------------------------------------------------------

PartInit ==
    /\ part = Cut(row) /\ seq = Newest
    /\ token = 0 /\ expired = {} /\ thread = [r \in Threads |-> Free]
    /\ holds = [w \in Workshops |-> Nothing]
    /\ mark = -1 /\ count = 0 /\ beats = {} /\ sent = 0
    /\ born = [i \in Parts |-> 0] /\ made = 0 /\ created = 0
    /\ torn = {} /\ cut = {} /\ unanswered = {} /\ last = 0 /\ reordered = FALSE

TurningStep ==
    \/ MakePiece \/ SendBeat \/ RestartTurning
    \/ \E r \in Threads : \/ \E b \in beats : TurningBeat(r, b)
                          \/ CreatePart(r)

QueueStep ==
    \/ Reload \/ RestartApi
    \/ \E r \in Threads : \/ EndBeat(r)
                          \/ \E written \in SUBSET thread[r].unsaved : Save(r, written)

ClaimStep ==
    \/ \E k \in 1..MaxTokens : ExpireClaim(k)
    \/ \E w \in Workshops : AgentRestarts(w)
    \/ \E w \in Workshops \cup {"turning"} : RetireWorkshop(w)
    \/ \E r \in Threads :
          \/ ConsumeClaim(r) \/ ConsumeComplete(r) \/ ReleaseExpired(r)
          \/ \E w \in Workshops : \/ \E delta \in 1..MaxDelta : WorkshopBeat(r, w, delta)
                                  \/ AgentClaim(r, w) \/ AgentComplete(r, w)
          \/ \E x \in BOOLEAN : AgentClaimed(r, x) \/ AgentCompleted(r, x)

\* The queue is loaded from the rows of an earlier life of the API
PartBegin ==
    /\ row \in [Parts -> {NoPart} \cup [status : {"ready", "completed"}, at : Workshops,
                                       token : {0}]]
    /\ PartInit

PartSpec == PartBegin /\ [][TurningStep \/ QueueStep \/ ClaimStep]_partVars

-----------------------------------------------------------------------------
(* Properties *)

\* A part is completed once: it begets one part for the next workshop, however often its
\* completion is asked for and whoever else claims it after its claim ran out, unless a
\* reload or a restart took it back to an older row.  What an agent works on is claimed for
\* it, until the claim runs out, the queue is set back, the part is cut from a full queue or
\* goes with a retired workshop, or it was completed and the agent was not told: then every
\* further completion is refused and the agent never gets rid of the part.
ClaimKept ==
    /\ \A i \in Parts : born[i] <= 1 \/ i \in torn
    /\ \A w \in Workshops : holds[w] # Nothing =>
          \/ part[holds[w].id].status = "claimed" /\ part[holds[w].id].token = holds[w].token
          \/ holds[w].token \in expired \/ holds[w].id \in torn \cup cut \cup unanswered
          \/ \E r \in Threads : thread[r].op = "complete" /\ thread[r].done = holds[w]

\* No more parts enter milling than turning has made, over restarts of either side, unless
\* heartbeats were handled out of order: an older one lowers the watermark.
PartsWithinOutput == created <= made \/ reordered
=============================================================================
