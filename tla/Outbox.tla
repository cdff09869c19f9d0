------------------------------- MODULE Outbox -------------------------------
(***************************************************************************)
(* The transactional outbox and its receipt consumer: a business           *)
(* transaction leaves a row in outbox_messages, the background worker      *)
(* claims rows, publishes them to a JetStream stream and marks them, and   *)
(* the consumer of the same process turns what the stream delivers into    *)
(* nats_shadow_receipts.                                                   *)
(*                                                                         *)
(* A database transaction, and each stretch of the worker between two      *)
(* awaits, is one step.  claim_token is written and never read, so it is   *)
(* left out.  A created_at is a distinct tick; which retries have become   *)
(* due and which claims outlived their lease is chosen when claim_pending  *)
(* looks.  The broker is external: it drops what it has stored under the   *)
(* same Nats-Msg-Id within the duplicate window, and delivers again, up to *)
(* MaxDeliver times, what was not acknowledged.                            *)
(***************************************************************************)
EXTENDS Naturals, Sequences, FiniteSets

CONSTANTS
    Msgs,        \* message ids
    Agg,         \* the aggregate (type and node code) of each message
    Legible,     \* the messages whose stored envelope still validates
    Workers,     \* background worker processes; the contract is one
    Limit,       \* LIMIT of claim_pending (50)
    MaxAttempts, \* attempts after which a row is given up (10)
    MaxDeliver,  \* max_deliver of the durable consumer (5)
    MaxFaults    \* bound: rollbacks, crashes, outages, losses and slow replies

ASSUME OutboxAssumption ==
    /\ DOMAIN Agg = Msgs /\ Legible \subseteq Msgs
    /\ IsFiniteSet(Workers)
    /\ Limit \in Nat \ {0} /\ MaxAttempts \in Nat \ {0}
    /\ MaxDeliver \in Nat \ {0} /\ MaxFaults \in Nat

VARIABLES
    status,    \* outbox_messages.status; "open" is an uncommitted insert
    created,   \* created_at
    committed, \* history: when the row's transaction committed, 0 if it has not
    attempts,
    waiting,   \* rows whose available_at mark_failed has put off
    clock,
    work,      \* publish_outbox_batch of each worker
    link,      \* publisher.connected
    wire,      \* publishes sent and not yet at the broker, in order
    log, entry, \* the stream, and the consumer's state of each of its messages
    inbox, saved, \* the fetched entries, and whether the first one is persisted
    receipts,  \* delivery_count of nats_shadow_receipts, 0 for no row
    faults

rows == <<status, created, committed, attempts, waiting, clock>>
broker == <<log, entry>>
consumer == <<inbox, saved, receipts>>
vars == <<status, created, committed, attempts, waiting, clock, work, link, wire,
          log, entry, inbox, saved, receipts, faults>>

Idle == [pc |-> "idle", batch |-> {}, got |-> FALSE, result |-> "none"]

Init ==
    /\ status = [m \in Msgs |-> "none"]
    /\ created = [m \in Msgs |-> 0] /\ committed = [m \in Msgs |-> 0]
    /\ attempts = [m \in Msgs |-> 0]
    /\ waiting = {}
    /\ clock = 1
    /\ work = [w \in Workers |-> Idle]
    /\ link = [w \in Workers |-> FALSE]
    /\ wire = [w \in Workers |-> <<>>]
    /\ log = <<>> /\ entry = <<>>
    /\ inbox = [w \in Workers |-> {}] /\ saved = [w \in Workers |-> FALSE]
    /\ receipts = [m \in Msgs |-> 0]
    /\ faults = 0

Fault == faults < MaxFaults /\ faults' = faults + 1

-----------------------------------------------------------------------------
(* The business transactions that enqueue *)

elsewhere == <<work, link, wire, log, entry, inbox, saved, receipts>>

\* enqueue_in_transaction: created_at is read when the row is inserted.  A
\* second insert of the same message id changes nothing.
Enqueue(m) ==
    /\ status[m] = "none"
    /\ status' = [status EXCEPT ![m] = "open"]
    /\ created' = [created EXCEPT ![m] = clock]
    /\ clock' = clock + 1
    /\ UNCHANGED <<committed, attempts, waiting, elsewhere, faults>>

\* get_db commits the business write and the message together ...
Commit(m) ==
    /\ status[m] = "open"
    /\ status' = [status EXCEPT ![m] = "pending"]
    /\ committed' = [committed EXCEPT ![m] = clock]
    /\ clock' = clock + 1
    /\ UNCHANGED <<created, attempts, waiting, elsewhere, faults>>

\* ... or rolls both back; the producer may try again.
Rollback(m) ==
    /\ status[m] = "open" /\ Fault
    /\ status' = [status EXCEPT ![m] = "none"]
    /\ UNCHANGED <<created, committed, attempts, waiting, clock, elsewhere>>

-----------------------------------------------------------------------------
(* claim_pending *)

Unfinished == {"pending", "publishing"}

\* Mutant: no lease; a claimed row is never taken back.
LapsedNever == {{}}

\* The claimed rows, of which any may be older than the lease.
Lapsed == SUBSET {m \in Msgs : status[m] = "publishing"}

\* status once the rows F are pending again.
Released(F) == [m \in Msgs |-> IF m \in F THEN "pending" ELSE status[m]]

\* Mutant: a predecessor that waits for its retry does not count.
BlocksDue(k, m, st, later) ==
    /\ Agg[k] = Agg[m] /\ created[k] < created[m]
    /\ st[k] \in Unfinished /\ k \notin later

\* k is an unfinished predecessor of m; later are the rows not due yet.
Blocks(k, m, st, later) ==
    /\ Agg[k] = Agg[m] /\ created[k] < created[m]
    /\ st[k] \in Unfinished

Eligible == {"pending"}

Candidates(st, later) ==
    {m \in Msgs : /\ st[m] \in Eligible /\ m \notin later
                  /\ \A k \in Msgs : ~Blocks(k, m, st, later)}

\* The first Limit candidates in created_at order.
Selected(C) == {m \in C : Cardinality({k \in C : created[k] < created[m]}) < Limit}

\* The rows F are freed, the rows D have become due, the selected are taken.
\* One transaction, which leaves alone a row it cannot take in the end.
Claim(w) ==
    /\ work[w].pc = "idle"
    /\ \E F \in Lapsed, D \in SUBSET waiting :
          LET S == Selected(Candidates(Released(F), waiting \ D))
          IN  /\ S \cup F # {}
              /\ status' = [m \in Msgs |->
                               IF m \in S THEN "publishing" ELSE Released(F)[m]]
              /\ attempts' = [m \in Msgs |-> attempts[m] + IF m \in S THEN 1 ELSE 0]
              /\ waiting' = waiting \ D
              /\ work' = [work EXCEPT ![w] =
                             IF S = {} THEN Idle
                             ELSE [Idle EXCEPT !.pc = "batch",
                                      !.batch = {<<m, attempts[m] + 1>> : m \in S}]]
    /\ UNCHANGED <<created, committed, clock, link, wire, broker, consumer, faults>>

-----------------------------------------------------------------------------
(* publish_outbox_batch and NATSPublisher._publish *)

\* The claimed message in hand: the oldest of the batch that is left.
Current(w) == CHOOSE j \in work[w].batch :
                  \A i \in work[w].batch : created[j[1]] <= created[i[1]]

\* The loop goes on with the rest of the batch.
Rest(w) == LET left == work[w].batch \ {Current(w)}
           IN  IF left = {} THEN Idle
               ELSE [Idle EXCEPT !.pc = "batch", !.batch = left]

Send(w) ==
    /\ work[w].pc = "batch" /\ Current(w)[1] \in Legible /\ link[w]
    /\ wire' = [wire EXCEPT ![w] = Append(@, Current(w))]
    /\ work' = [work EXCEPT ![w].pc = "sent"]
    /\ UNCHANGED <<rows, link, broker, consumer, faults>>

NotConnected(w) ==
    /\ work[w].pc = "batch" /\ Current(w)[1] \in Legible /\ ~link[w]
    /\ work' = [work EXCEPT ![w].pc = "mark", ![w].result = "degraded"]
    /\ UNCHANGED <<rows, link, wire, broker, consumer, faults>>

Acked(w) ==
    /\ work[w].pc = "sent" /\ work[w].got
    /\ work' = [work EXCEPT ![w].pc = "mark", ![w].result = "published"]
    /\ UNCHANGED <<rows, link, wire, broker, consumer, faults>>

\* Mutant: a timeout counts as delivered.
TimeoutResultPublished == "published"

TimeoutResult == "degraded"

\* The publish or its acknowledgement is lost, or slower than the timeout.
TimedOut(w) ==
    /\ work[w].pc = "sent"
    /\ IF ~work[w].got /\ \A i \in DOMAIN wire[w] : wire[w][i] # Current(w)
         THEN UNCHANGED faults
         ELSE Fault
    /\ work' = [work EXCEPT ![w].pc = "mark", ![w].result = TimeoutResult]
    /\ UNCHANGED <<rows, link, wire, broker, consumer>>

\* WHERE status!='published' of the three mark_* statements; they do not ask
\* whether the row is still claimed by this worker.
Markable(m) == status[m] # "published"

Exhausted(n) == n >= MaxAttempts

\* One mark_* statement on the message in hand, then the next one.
Mark(w, st) ==
    LET m == Current(w)[1]
    IN  /\ status' = IF Markable(m) THEN [status EXCEPT ![m] = st] ELSE status
        /\ waiting' = IF Markable(m) /\ st = "pending" THEN waiting \cup {m} ELSE waiting
        /\ work' = [work EXCEPT ![w] = Rest(w)]
        /\ UNCHANGED <<created, committed, attempts, clock, link, wire, broker, consumer,
                       faults>>

MarkPublished(w) ==
    /\ work[w].pc = "mark" /\ work[w].result = "published"
    /\ Mark(w, "published")

MarkFailed(w) ==
    /\ work[w].pc = "mark" /\ work[w].result = "degraded"
    /\ ~Exhausted(Current(w)[2])
    /\ Mark(w, "pending")

MarkDeadLetter(w) ==
    /\ \/ work[w].pc = "batch" /\ Current(w)[1] \notin Legible
       \/ /\ work[w].pc = "mark" /\ work[w].result = "degraded"
          /\ Exhausted(Current(w)[2])
    /\ Mark(w, "dead_letter")

\* outbox_publish_loop: an exception ends the cycle, the rest stays claimed.
CycleFails(w) ==
    /\ work[w].pc # "idle" /\ Fault
    /\ work' = [work EXCEPT ![w] = Idle]
    /\ UNCHANGED <<rows, link, wire, broker, consumer>>

-----------------------------------------------------------------------------
(* The connection, the broker and time *)

\* The connection breaks; the last messages of the wire may survive in the
\* client's buffer.
Disconnect(w) ==
    /\ link[w] /\ Fault
    /\ link' = [link EXCEPT ![w] = FALSE]
    /\ \E k \in 0..Len(wire[w]) : wire' = [wire EXCEPT ![w] = SubSeq(@, k + 1, Len(@))]
    /\ work' = [work EXCEPT ![w].got = FALSE]
    /\ UNCHANGED <<rows, broker, consumer>>

\* _manager_loop: a new connection, and a new consumer task in place of the
\* old one, which forgets what it had fetched.
Connect(w) ==
    /\ ~link[w]
    /\ link' = [link EXCEPT ![w] = TRUE]
    /\ inbox' = [inbox EXCEPT ![w] = {}] /\ saved' = [saved EXCEPT ![w] = FALSE]
    /\ UNCHANGED <<rows, work, wire, broker, receipts, faults>>

\* The worker process dies and is started again.
Crash(w) ==
    /\ Fault
    /\ work' = [work EXCEPT ![w] = Idle]
    /\ link' = [link EXCEPT ![w] = FALSE]
    /\ inbox' = [inbox EXCEPT ![w] = {}] /\ saved' = [saved EXCEPT ![w] = FALSE]
    /\ UNCHANGED <<rows, wire, broker, receipts>>

Stored == {log[i] : i \in DOMAIN log}

\* The broker takes the next publish of a connection and answers it.  What it
\* holds already is dropped, unless the duplicate window has passed.
Store(w) ==
    /\ wire[w] # <<>>
    /\ wire' = [wire EXCEPT ![w] = Tail(@)]
    /\ LET m == Head(wire[w])[1]
       IN  \/ m \in Stored /\ UNCHANGED <<log, entry, faults>>
           \/ /\ IF m \in Stored THEN Fault ELSE UNCHANGED faults
              /\ log' = Append(log, m)
              /\ entry' = Append(entry, [st |-> "ready", n |-> 0])
    /\ work' = [work EXCEPT ![w].got =
                   @ \/ /\ link[w] /\ work[w].pc = "sent"
                        /\ Head(wire[w]) = Current(w)]
    /\ UNCHANGED <<rows, link, consumer>>

-----------------------------------------------------------------------------
(* NATSEventWorker *)

Held(i) == \E w \in Workers : i \in inbox[w]
First(w) == CHOOSE i \in inbox[w] : \A j \in inbox[w] : i <= j

\* The deliveries of an entry are used up and nobody holds it any more.
Undeliverable(i) == entry[i].st # "acked" /\ entry[i].n = MaxDeliver /\ ~Held(i)

\* A new entry, one handed back, or one of R, whose ack_wait has passed.
Deliverable(i, R) == entry[i].n < MaxDeliver /\ (entry[i].st = "ready" \/ i \in R)

Fetch(w) ==
    /\ link[w] /\ inbox[w] = {}
    /\ \E R \in SUBSET {i \in DOMAIN log : entry[i].st = "out"} :
          LET S == {i \in DOMAIN log : Deliverable(i, R)}
          IN  /\ S # {}
              /\ inbox' = [inbox EXCEPT ![w] = S]
              /\ entry' = [i \in DOMAIN entry |->
                              IF i \in S THEN [st |-> "out", n |-> entry[i].n + 1]
                              ELSE entry[i]]
    /\ UNCHANGED <<rows, work, link, wire, log, saved, receipts, faults>>

\* persist_nats_receipt: insert, or count the duplicate.
Persist(w) ==
    /\ inbox[w] # {} /\ ~saved[w]
    /\ receipts' = [receipts EXCEPT ![log[First(w)]] = @ + 1]
    /\ saved' = [saved EXCEPT ![w] = TRUE]
    /\ UNCHANGED <<rows, work, link, wire, broker, inbox, faults>>

Handled(w) ==
    /\ inbox' = [inbox EXCEPT ![w] = @ \ {First(w)}]
    /\ saved' = [saved EXCEPT ![w] = FALSE]
    /\ UNCHANGED <<rows, work, link, wire, log, receipts>>

\* The database refuses the receipt: the entry is handed back with a delay.
Nak(w) ==
    /\ inbox[w] # {} /\ ~saved[w] /\ link[w] /\ Fault
    /\ entry' = [entry EXCEPT ![First(w)].st = "ready"]
    /\ Handled(w)

\* Mutant: acknowledged before the receipt is written.
MayAckEarly(w) == inbox[w] # {}

MayAck(w) == inbox[w] # {} /\ saved[w]

Ack(w) ==
    /\ MayAck(w) /\ link[w]
    /\ entry' = [entry EXCEPT ![First(w)].st = "acked"]
    /\ Handled(w) /\ UNCHANGED faults

AckLost(w) ==
    /\ MayAck(w) /\ link[w] /\ Fault
    /\ Handled(w) /\ UNCHANGED entry

\* Without a connection ack raises and the consumer task ends.
ConsumerEnds(w) ==
    /\ inbox[w] # {} /\ saved[w] /\ ~link[w]
    /\ inbox' = [inbox EXCEPT ![w] = {}] /\ saved' = [saved EXCEPT ![w] = FALSE]
    /\ UNCHANGED <<rows, work, link, wire, broker, receipts, faults>>

-----------------------------------------------------------------------------
Next ==
    \/ \E m \in Msgs : Enqueue(m) \/ Commit(m) \/ Rollback(m)
    \/ \E w \in Workers :
          \/ Claim(w) \/ Send(w) \/ NotConnected(w) \/ Acked(w) \/ TimedOut(w)
          \/ MarkPublished(w) \/ MarkFailed(w) \/ MarkDeadLetter(w) \/ CycleFails(w)
          \/ Disconnect(w) \/ Connect(w) \/ Crash(w) \/ Store(w)
          \/ Fetch(w) \/ Persist(w) \/ Nak(w) \/ Ack(w) \/ AckLost(w) \/ ConsumerEnds(w)

Spec == Init /\ [][Next]_vars

\* The loops of the worker process keep running (the supervisor restarts it),
\* the connection is retried for ever and the broker works.  Producers owe
\* nothing, and no fault has to happen.
FairSpec ==
    /\ Spec
    /\ \A w \in Workers :
          /\ WF_vars(Claim(w)) /\ WF_vars(Send(w) \/ NotConnected(w))
          /\ WF_vars(Acked(w) \/ TimedOut(w))
          /\ WF_vars(MarkPublished(w) \/ MarkFailed(w) \/ MarkDeadLetter(w))
          /\ WF_vars(Connect(w)) /\ WF_vars(Store(w))
          /\ WF_vars(Fetch(w)) /\ WF_vars(Persist(w))
          /\ WF_vars(Ack(w)) /\ WF_vars(ConsumerEnds(w))

-----------------------------------------------------------------------------
(* Properties *)

\* The predecessor fence of claim_pending, seen at the stream: when the
\* transaction of k had committed before m of the same aggregate was created,
\* m is in the stream only after k, or after k was given up for good.  Retries,
\* backoff, lost acknowledgements and crashes do not reorder the two.
StreamOrder ==
    \A i \in DOMAIN log, k \in Msgs :
        (Agg[k] = Agg[log[i]] /\ committed[k] # 0 /\ committed[k] < created[log[i]])
            => \/ \E j \in 1..(i - 1) : log[j] = k
               \/ status[k] = "dead_letter" /\ k \notin Stored

\* A row and the stream, seen from outside.  One worker gives a row up for good; the late
\* mark_failed of a second one may take it up again.
D == INSTANCE Delivery WITH
        Messages <- Msgs, PerCopy <- MaxDeliver, Reopens <- Cardinality(Workers) > 1,
        state <- [m \in Msgs |-> CASE status[m] \in {"none", "open"} -> "none"
                                   [] status[m] \in Unfinished -> "owed"
                                   [] status[m] = "published" -> "published"
                                   [] OTHER -> "given_up"],
        copies <- [m \in Msgs |-> Cardinality({i \in DOMAIN log : log[i] = m})],
        received <- receipts

\* The worker keeps the promise of Delivery whatever timeouts, crashes, lost leases and late
\* marks of another worker come between: only committed rows reach the stream, a row says
\* published only when the broker has stored it and says so for ever, and no receipt comes
\* without a delivery.
KeepsPromise == D!DeliverySpec

\* One worker also settles every committed row, when it dies or its cycle fails while rows
\* are claimed too, and a row it has given up stays given up.
ImplementsDelivery == D!FairDelivery

\* What is published gets its receipt, unless the broker has used up the
\* deliveries of the entry.
Receipted ==
    \A m \in Msgs : status[m] = "published" ~>
        \/ receipts[m] > 0
        \/ \E i \in DOMAIN log : log[i] = m /\ Undeliverable(i)

=============================================================================
