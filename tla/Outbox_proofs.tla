------------------------------ MODULE Outbox_proofs ------------------------------
(***************************************************************************)
(* The outbox keeps the promise of Delivery, for every number of messages, *)
(* workers, attempts, deliveries and faults.                               *)
(*                                                                         *)
(* Three facts are behind it.  A message on the wire, in the stream or in  *)
(* a worker's hands was committed.  A worker that is about to write         *)
(* "published" holds a message the broker has stored, whatever became of   *)
(* its connection since.  And a delivery is persisted at most once: the    *)
(* receipts of a message can be numbered by distinct pairs of a copy and a *)
(* delivery of that copy (Tokens), which the deliveries still in a         *)
(* consumer's hands have not used.                                         *)
(*                                                                         *)
(* With one worker the stream also keeps the order of an aggregate: what   *)
(* was claimed waits for nothing unfinished, and the wire is a queue.      *)
(***************************************************************************)
EXTENDS Outbox, FiniteSetTheorems, WellFoundedInduction, TLAPS

Statuses == {"none", "open", "pending", "publishing", "published", "dead_letter"}
Jobs == Msgs \X Nat
Work == [pc : {"idle", "batch", "sent", "mark"}, batch : SUBSET Jobs, got : BOOLEAN,
         result : {"none", "published", "degraded"}]
Entry == [st : {"ready", "out", "acked"}, n : 0..MaxDeliver]

Types ==
    /\ status \in [Msgs -> Statuses] /\ created \in [Msgs -> Nat] /\ attempts \in [Msgs -> Nat]
    /\ work \in [Workers -> Work] /\ wire \in [Workers -> Seq(Jobs)]
    /\ log \in Seq(Msgs) /\ entry \in Seq(Entry) /\ Len(entry) = Len(log)
    /\ inbox \in [Workers -> SUBSET (1..Len(log))] /\ saved \in [Workers -> BOOLEAN]
    /\ clock \in Nat /\ receipts \in [Msgs -> Nat]

\* The transaction of the message has committed
Live(m) == status[m] \in {"pending", "publishing", "published", "dead_letter"}

\* What is sent or stored was committed
Sent == /\ \A w \in Workers : \A i \in DOMAIN wire[w] : Live(wire[w][i][1])
        /\ \A i \in DOMAIN log : Live(log[i])

\* What is marked published is in the stream
Backed == \A m \in Msgs : status[m] = "published" => m \in Stored

\* The oldest of a batch, as Current takes it
Oldest(B) == CHOOSE j \in B : \A i \in B : created[j[1]] <= created[i[1]]

\* A batch holds one job of a committed message, which only another worker can have settled;
\* an acknowledgement, or a result "published", is about the message in hand.
Fits(w, r) ==
    /\ \A j \in r.batch : Live(j[1]) /\ (status[j[1]] = "publishing" \/ \E v \in Workers : v # w)
    /\ \A j, k \in r.batch : j[1] = k[1] => j = k
    /\ r.pc = "idle" <=> r.batch = {}
    /\ r.got => r.pc \in {"sent", "mark"} /\ Oldest(r.batch)[1] \in Stored
    /\ r.result = "published" => r.pc = "mark" /\ Oldest(r.batch)[1] \in Stored
    /\ r.pc # "mark" => r.result = "none"

\* A fetched entry the consumer has not persisted yet
Unsaved(w, i) == i \in inbox[w] /\ ~(saved[w] /\ i = First(w))

\* T numbers what was persisted by copies and their deliveries; h[<<w, i>>] is the delivery
\* of entry i that worker w holds.
Counted(T, h) ==
    /\ T \subseteq (1..Len(log)) \X (1..MaxDeliver) /\ IsFiniteSet(T)
    /\ \A t \in T : t[2] <= entry[t[1]].n
    /\ \A m \in Msgs : receipts[m] = Cardinality({t \in T : log[t[1]] = m})
    /\ h \in [Workers \X Nat -> Nat]
    /\ \A w \in Workers, i \in 1..Len(log) : Unsaved(w, i) =>
          /\ h[<<w, i>>] \in 1..entry[i].n /\ <<i, h[<<w, i>>]>> \notin T
          /\ \A v \in Workers : v # w /\ Unsaved(v, i) => h[<<v, i>>] # h[<<w, i>>]

Tokens == \E T, h : Counted(T, h)

OutboxInv == Types /\ Sent /\ Backed /\ (\A w \in Workers : Fits(w, work[w])) /\ Tokens

-----------------------------------------------------------------------------
(* The minimum of a set of numbers *)

Minimum == \A S \in SUBSET Nat : S # {} => \E x \in S : \A y \in S : x <= y

\* Every nonempty set of naturals has a least element.
LEMMA LeastNumber == Minimum
<1> SUFFICES ASSUME NEW S \in SUBSET Nat, S # {} PROVE \E x \in S : \A y \in S : x <= y
  BY DEF Minimum
<1>1. PICK x \in S : \A y \in S : <<y, x>> \notin OpToRel(<, Nat)
  BY WFMin, NatLessThanWellFounded, Zenon
<1>2. \A y \in S : ~(y < x) BY <1>1, Zenon DEF OpToRel
<1> QED BY <1>2

\* The message in hand is one of the batch.
LEMMA OldestInBatch ==
    ASSUME created \in [Msgs -> Nat]
    PROVE  \A B \in SUBSET Jobs : B # {} => Oldest(B) \in B
<1> SUFFICES ASSUME NEW B \in SUBSET Jobs, B # {} PROVE Oldest(B) \in B OBVIOUS
<1> DEFINE S == {created[j[1]] : j \in B}
<1>0. \A j \in B : j[1] \in Msgs BY DEF Jobs
<1>1. S \in SUBSET Nat /\ S # {} BY <1>0
<1>2. PICK x \in S : \A y \in S : x <= y BY <1>1, LeastNumber DEF Minimum
<1>3. PICK j \in B : x = created[j[1]] BY <1>2
<1>4. \A i \in B : created[j[1]] <= created[i[1]] BY <1>2, <1>3
<1> QED BY <1>3, <1>4 DEF Oldest

\* The entry in hand is one of the inbox.
LEMMA FirstInInbox ==
    ASSUME Types
    PROVE  \A w \in Workers : inbox[w] # {} => First(w) \in inbox[w]
<1> SUFFICES ASSUME NEW w \in Workers, inbox[w] # {} PROVE First(w) \in inbox[w] OBVIOUS
<1>1. inbox[w] \in SUBSET Nat BY DEF Types
<1>2. PICK i \in inbox[w] : \A j \in inbox[w] : i <= j BY <1>1, LeastNumber DEF Minimum
<1> QED BY <1>2 DEF First

-----------------------------------------------------------------------------
(* What a step leaves true *)

\* Committed rows stay committed and keep their created_at; the stream only grows.
Grows == /\ \A m \in Msgs : Live(m) => Live(m)' /\ created'[m] = created[m]
         /\ Stored \subseteq Stored'

\* Current is the oldest of the batch in hand.
LEMMA CurrentOldest == \A w \in Workers : Current(w) = Oldest(work[w].batch)
BY DEF Current, Oldest

\* A worker's record goes on fitting while its rows stay claimed, or others may settle them.
LEMMA FitsKept ==
    ASSUME Grows
    PROVE  \A w \in Workers, r \in Work :
              /\ Fits(w, r)
              /\ \A j \in r.batch : status[j[1]] = "publishing"
                    => status'[j[1]] = "publishing" \/ \E v \in Workers : v # w
              => Fits(w, r)'
<1> SUFFICES ASSUME NEW w \in Workers, NEW r \in Work, Fits(w, r),
                    \A j \in r.batch : status[j[1]] = "publishing"
                       => status'[j[1]] = "publishing" \/ \E v \in Workers : v # w
             PROVE  Fits(w, r)'
  OBVIOUS
<1>1. \A j \in r.batch : j[1] \in Msgs BY DEF Work, Jobs
<1>2. \A j \in r.batch : Live(j[1])' /\ created'[j[1]] = created[j[1]]
  BY <1>1 DEF Fits, Grows
<1>3. Oldest(r.batch)' = Oldest(r.batch) BY <1>2 DEF Oldest
<1>4. Stored \subseteq Stored' BY DEF Grows
<1>5. \A j \in r.batch : status'[j[1]] = "publishing" \/ \E v \in Workers : v # w BY DEF Fits
<1> QED BY <1>2, <1>3, <1>4, <1>5 DEF Fits

\* The rows change and no worker moves.
LEMMA RowsMove ==
    ASSUME OutboxInv, Grows, UNCHANGED work,
           \A m \in Msgs : status[m] = "publishing" => status'[m] = "publishing"
    PROVE  \A w \in Workers : Fits(w, work[w])'
<1> SUFFICES ASSUME NEW w \in Workers PROVE Fits(w, work[w])' OBVIOUS
<1>1. work[w] \in Work /\ Fits(w, work[w]) BY DEF OutboxInv, Types
<1>2. PICK r \in Work : r = work[w] BY <1>1
<1>3. \A j \in r.batch : j[1] \in Msgs BY DEF Work, Jobs
<1>4. Fits(w, r)' BY <1>1, <1>2, <1>3, FitsKept
<1> QED BY <1>2, <1>4 DEF Fits

\* One worker moves; the rows of the others can only be settled by it.
LEMMA WorkMoves ==
    ASSUME OutboxInv, Grows
    PROVE  \A w \in Workers : \A r \in Work :
              work' = [work EXCEPT ![w] = r] /\ Fits(w, r)'
              => /\ work' \in [Workers -> Work] /\ \A v \in Workers : Fits(v, work[v])'
<1> SUFFICES ASSUME NEW w \in Workers, NEW r \in Work, work' = [work EXCEPT ![w] = r],
                    Fits(w, r)'
             PROVE  work' \in [Workers -> Work] /\ \A v \in Workers : Fits(v, work[v])'
  OBVIOUS
<1>1. work \in [Workers -> Work] BY DEF OutboxInv, Types
<1>2. ASSUME NEW v \in Workers PROVE Fits(v, work[v])'
  <2>1. CASE v = w
    <3>1. work'[v] = r BY <1>1, <2>1
    <3> QED BY <2>1, <3>1 DEF Fits
  <2>2. CASE v # w
    <3>1. work'[v] = work[v] BY <1>1, <2>2
    <3>2. work[v] \in Work /\ Fits(v, work[v]) BY <1>1 DEF OutboxInv
    <3>3. PICK q \in Work : q = work[v] BY <3>2
    <3>4. Fits(v, q)' BY <2>2, <3>2, <3>3, FitsKept
    <3> QED BY <3>1, <3>3, <3>4 DEF Fits
  <2> QED BY <2>1, <2>2
<1> QED BY <1>1, <1>2

\* A record that keeps its batch, of a step that touches no row.
LEMMA SameBatch ==
    ASSUME OutboxInv, NEW w \in Workers
    PROVE  /\ work[w] \in Work /\ Fits(w, work[w]) /\ Current(w) = Oldest(work[w].batch)
           /\ work[w].batch # {} => /\ Current(w) \in work[w].batch /\ Current(w) \in Jobs
                                    /\ Current(w)[1] \in Msgs /\ Live(Current(w)[1])
<1>1. work[w] \in Work /\ Fits(w, work[w]) BY DEF OutboxInv, Types
<1>2. work[w].batch \in SUBSET Jobs BY <1>1 DEF Work
<1>3. Current(w) = Oldest(work[w].batch) BY CurrentOldest
<1>4. work[w].batch # {} => Current(w) \in work[w].batch
  BY <1>2, <1>3, OldestInBatch DEF OutboxInv, Types
<1>5. work[w].batch # {} => Current(w) \in Jobs /\ Current(w)[1] \in Msgs /\ Live(Current(w)[1])
  BY <1>1, <1>2, <1>4 DEF Jobs, Fits
<1> QED BY <1>1, <1>3, <1>4, <1>5

\* What is persisted stays counted while entries are only handed out, back or away.
LEMMA TokensDrop ==
    ASSUME Types, Tokens, UNCHANGED <<log, receipts>>, Len(entry') = Len(entry),
           \A i \in 1..Len(log) : entry'[i].n = entry[i].n,
           \A w \in Workers, i \in 1..Len(log) : Unsaved(w, i)' => Unsaved(w, i)
    PROVE  Tokens'
<1>1. PICK T, h : Counted(T, h) BY DEF Tokens
<1>2. Counted(T, h)'
  <2>1. /\ T \subseteq (1..Len(log')) \X (1..MaxDeliver) /\ IsFiniteSet(T)
        /\ \A t \in T : t[1] \in 1..Len(log)
        /\ \A t \in T : t[2] <= entry[t[1]].n
        /\ \A m \in Msgs : receipts'[m] = Cardinality({t \in T : log'[t[1]] = m})
        /\ h \in [Workers \X Nat -> Nat]
    BY <1>1 DEF Counted
  <2>2. \A t \in T : t[2] <= entry'[t[1]].n BY <2>1
  <2>3. \A w \in Workers, i \in 1..Len(log) : Unsaved(w, i)' =>
          /\ h[<<w, i>>] \in 1..entry'[i].n /\ <<i, h[<<w, i>>]>> \notin T
          /\ \A v \in Workers : v # w /\ Unsaved(v, i)' => h[<<v, i>>] # h[<<w, i>>]
    BY <1>1 DEF Counted
  <2> QED BY <2>1, <2>2, <2>3 DEF Counted
<1> QED BY <1>2 DEF Tokens

\* A step that leaves the consumer alone.
LEMMA TokensSame ==
    ASSUME Tokens, UNCHANGED <<log, entry, inbox, saved, receipts>>
    PROVE  Tokens'
<1>1. PICK T, h : Counted(T, h) BY DEF Tokens
<1>2. Counted(T, h)' BY <1>1 DEF Counted, Unsaved, First
<1> QED BY <1>2 DEF Tokens

\* What was sent or stored stays committed.
LEMMA SentKept ==
    ASSUME OutboxInv, Grows, UNCHANGED <<wire, log>>
    PROVE  Sent'
<1>1. /\ \A w \in Workers : \A i \in DOMAIN wire[w] : Live(wire[w][i][1]) /\ wire[w][i] \in Jobs
      /\ \A i \in DOMAIN log : Live(log[i]) /\ log[i] \in Msgs
  BY DEF OutboxInv, Types, Sent
<1>2. \A w \in Workers : \A i \in DOMAIN wire[w] : wire[w][i][1] \in Msgs BY <1>1 DEF Jobs
<1> QED BY <1>1, <1>2 DEF Sent, Grows

-----------------------------------------------------------------------------
(* Every step keeps the invariant *)

\* The transactions that enqueue.
LEMMA ProducersKeep ==
    ASSUME OutboxInv, NEW m \in Msgs, Enqueue(m) \/ Commit(m) \/ Rollback(m)
    PROVE  OutboxInv'
<1>1. /\ status[m] \in {"none", "open"}
      /\ status' \in [Msgs -> Statuses] /\ status'[m] \in {"none", "open", "pending"}
      /\ \A k \in Msgs : k # m => status'[k] = status[k] /\ created'[k] = created[k]
      /\ created' \in [Msgs -> Nat] /\ clock' \in Nat
      /\ UNCHANGED <<attempts, work, wire, log, entry, inbox, saved, receipts>>
  <2>1. status \in [Msgs -> Statuses] /\ created \in [Msgs -> Nat] /\ clock \in Nat
    BY DEF OutboxInv, Types
  <2>2. CASE Enqueue(m) BY <2>1, <2>2 DEF Enqueue, elsewhere, Statuses
  <2>3. CASE Commit(m) BY <2>1, <2>3 DEF Commit, elsewhere, Statuses
  <2>4. CASE Rollback(m) BY <2>1, <2>4 DEF Rollback, elsewhere, Statuses
  <2> QED BY <2>2, <2>3, <2>4
<1>2. Types' BY <1>1 DEF OutboxInv, Types
<1>3. Grows BY <1>1 DEF Grows, Live, Stored
<1>4. Sent' BY <1>1, <1>3, SentKept
<1>5. Backed' BY <1>1 DEF OutboxInv, Backed, Stored
<1>6. \A w \in Workers : Fits(w, work[w])' BY <1>1, <1>3, RowsMove
<1>7. Tokens' BY <1>1, TokensSame DEF OutboxInv
<1> QED BY <1>2, <1>4, <1>5, <1>6, <1>7 DEF OutboxInv

\* Idle fits anything.
LEMMA IdleFits == Idle \in Work /\ \A w : Fits(w, Idle)'
<1>1. /\ Idle \in Work /\ Idle.pc = "idle" /\ Idle.batch = {} /\ Idle.got = FALSE
      /\ Idle.result = "none"
  BY DEF Idle, Work
<1> QED BY <1>1 DEF Fits

\* A worker moves on without touching a row, the wire, the stream or the consumer.
LEMMA WorkStep ==
    ASSUME OutboxInv, UNCHANGED <<rows, log, entry, inbox, saved, receipts>>,
           wire' \in [Workers -> Seq(Jobs)],
           \A v \in Workers : \A i \in DOMAIN wire'[v] : Live(wire'[v][i][1])
    PROVE  \A w \in Workers : \A r \in Work :
              work' = [work EXCEPT ![w] = r] /\ Fits(w, r)' => OutboxInv'
<1> SUFFICES ASSUME NEW w \in Workers, NEW r \in Work, work' = [work EXCEPT ![w] = r],
                    Fits(w, r)'
             PROVE  OutboxInv'
  OBVIOUS
<1>1. Grows BY DEF Grows, Live, Stored, rows
<1>2. work' \in [Workers -> Work] /\ \A v \in Workers : Fits(v, work[v])' BY <1>1, WorkMoves
<1>3. Types' BY <1>2 DEF OutboxInv, Types, rows
<1>4. Sent' BY DEF OutboxInv, Sent, Live, rows
<1>5. Backed' BY DEF OutboxInv, Backed, Stored, rows
<1>6. Tokens' BY TokensSame DEF OutboxInv
<1> QED BY <1>2, <1>3, <1>4, <1>5, <1>6 DEF OutboxInv

\* A worker that notes or forgets an acknowledgement.
LEMMA Rewritten ==
    ASSUME OutboxInv, NEW w \in Workers
    PROVE  \A x \in BOOLEAN :
              LET r == [work[w] EXCEPT !.got = x]
              IN  /\ r \in Work /\ r.pc = work[w].pc /\ r.result = work[w].result
                  /\ r.batch = work[w].batch /\ r.got = x
BY DEF OutboxInv, Types, Work

\* Sending the message in hand.
LEMMA SendKeeps == ASSUME OutboxInv, NEW w \in Workers, Send(w) PROVE OutboxInv'
<1>1. /\ work[w].pc = "batch" /\ wire' = [wire EXCEPT ![w] = Append(@, Current(w))]
      /\ work' = [work EXCEPT ![w].pc = "sent"]
      /\ UNCHANGED <<rows, log, entry, inbox, saved, receipts>>
  BY DEF Send, broker, consumer
<1>2. /\ work[w] \in Work /\ Fits(w, work[w]) /\ work[w].batch # {}
      /\ Current(w) \in Jobs /\ Live(Current(w)[1])
  BY <1>1, SameBatch DEF Fits
<1>3. PICK j \in Jobs : j = Current(w) /\ Live(j[1]) BY <1>2
<1>4. wire' \in [Workers -> Seq(Jobs)] BY <1>1, <1>3 DEF OutboxInv, Types
<1>5. ASSUME NEW v \in Workers, NEW i \in DOMAIN wire'[v] PROVE Live(wire'[v][i][1])
  <2>1. CASE v = w
    <3>1. wire[w] \in Seq(Jobs) /\ wire'[v] = Append(wire[w], j)
      BY <1>1, <1>3, <2>1 DEF OutboxInv, Types
    <3>2. i \in 1..(Len(wire[w]) + 1) BY <3>1
    <3>3. CASE i = Len(wire[w]) + 1
      <4>1. wire'[v][i] = j BY <3>1, <3>3
      <4> QED BY <1>3, <4>1
    <3>4. CASE i # Len(wire[w]) + 1
      <4>1. i \in DOMAIN wire[w] /\ wire'[v][i] = wire[w][i] BY <3>1, <3>2, <3>4
      <4> QED BY <4>1 DEF OutboxInv, Sent
    <3> QED BY <3>3, <3>4
  <2>2. CASE v # w BY <1>1, <2>2 DEF OutboxInv, Types, Sent
  <2> QED BY <2>1, <2>2
<1>6. LET r == [work[w] EXCEPT !.pc = "sent"]
      IN  /\ r \in Work /\ r.pc = "sent" /\ r.result = work[w].result
          /\ r.batch = work[w].batch /\ r.got = work[w].got
  BY <1>2 DEF Work
<1>7. PICK r \in Work : /\ r = [work[w] EXCEPT !.pc = "sent"] /\ r.pc = "sent"
                        /\ r.result = work[w].result /\ r.batch = work[w].batch
                        /\ r.got = work[w].got
  BY <1>6
<1>8. work' = [work EXCEPT ![w] = r] BY <1>1, <1>7 DEF OutboxInv, Types
<1>9. Fits(w, r) /\ Grows /\ \A m \in Msgs : status'[m] = status[m]
  BY <1>1, <1>2, <1>7 DEF Fits, Grows, Live, Stored, rows
<1>10. \A q \in r.batch : q[1] \in Msgs BY DEF Work, Jobs
<1>11. Fits(w, r)' BY <1>9, <1>10, FitsKept
<1> QED BY <1>1, <1>4, <1>5, <1>8, <1>11, WorkStep

\* The steps of a worker that send nothing and mark nothing.
LEMMA WorkerKeeps ==
    ASSUME OutboxInv, NEW w \in Workers,
           NotConnected(w) \/ Acked(w) \/ TimedOut(w) \/ CycleFails(w)
    PROVE  OutboxInv'
<1>0. /\ wire \in [Workers -> Seq(Jobs)]
      /\ \A v \in Workers : \A i \in DOMAIN wire[v] : Live(wire[v][i][1])
  BY DEF OutboxInv, Types, Sent
<1>1. CASE CycleFails(w)
  BY <1>0, <1>1, IdleFits, WorkStep DEF CycleFails, broker, consumer
<1>2. ASSUME NEW x \in {"published", "degraded"}, work[w].pc \in {"batch", "sent"},
             x = "published" => work[w].got,
             work' = [work EXCEPT ![w].pc = "mark", ![w].result = x],
             UNCHANGED <<rows, wire, log, entry, inbox, saved, receipts>>
      PROVE  OutboxInv'
  <2>1. PICK r \in Work : /\ r = [work[w] EXCEPT !.pc = "mark", !.result = x]
                          /\ r.pc = "mark" /\ r.result = x /\ r.batch = work[w].batch
                          /\ r.got = work[w].got
    <3>1. LET r == [work[w] EXCEPT !.pc = "mark", !.result = x]
          IN  /\ r \in Work /\ r.pc = "mark" /\ r.result = x /\ r.batch = work[w].batch
              /\ r.got = work[w].got
      <4>1. work[w] \in Work BY DEF OutboxInv, Types
      <4> QED BY <4>1 DEF Work
    <3> QED BY <3>1
  <2>2. work' = [work EXCEPT ![w] = r] BY <1>2, <2>1 DEF OutboxInv, Types
  <2>3. Fits(w, work[w]) BY DEF OutboxInv
  <2>4. Fits(w, r) /\ Grows /\ \A m \in Msgs : status'[m] = status[m]
    BY <1>2, <2>1, <2>3 DEF Fits, Grows, Live, Stored, rows
  <2>5. \A q \in r.batch : q[1] \in Msgs BY DEF Work, Jobs
  <2>6. Fits(w, r)' BY <2>4, <2>5, FitsKept
  <2> QED BY <1>0, <1>2, <2>2, <2>6, WorkStep
<1>3. CASE NotConnected(w) BY <1>2, <1>3 DEF NotConnected, broker, consumer
<1>4. CASE Acked(w) BY <1>2, <1>4 DEF Acked, broker, consumer
<1>5. CASE TimedOut(w) BY <1>2, <1>5 DEF TimedOut, TimeoutResult, broker, consumer
<1> QED BY <1>1, <1>3, <1>4, <1>5

\* claim_pending: the rows taken were pending, and each is taken once.
LEMMA ClaimKeeps == ASSUME OutboxInv, NEW w \in Workers, Claim(w) PROVE OutboxInv'
<1>1. PICK F \in Lapsed, S \in SUBSET Msgs :
         /\ \A m \in S : Released(F)[m] = "pending"
         /\ status' = [m \in Msgs |-> IF m \in S THEN "publishing" ELSE Released(F)[m]]
         /\ attempts' = [m \in Msgs |-> attempts[m] + IF m \in S THEN 1 ELSE 0]
         /\ work' = [work EXCEPT ![w] =
                        IF S = {} THEN Idle
                        ELSE [Idle EXCEPT !.pc = "batch",
                                          !.batch = {<<m, attempts[m] + 1>> : m \in S}]]
  <2>1. PICK F \in Lapsed, U \in SUBSET waiting :
           LET S == Selected(Candidates(Released(F), waiting \ U))
           IN  /\ status' = [m \in Msgs |->
                                IF m \in S THEN "publishing" ELSE Released(F)[m]]
               /\ attempts' = [m \in Msgs |-> attempts[m] + IF m \in S THEN 1 ELSE 0]
               /\ work' = [work EXCEPT ![w] =
                              IF S = {} THEN Idle
                              ELSE [Idle EXCEPT !.pc = "batch",
                                                !.batch = {<<m, attempts[m] + 1>> : m \in S}]]
    BY DEF Claim
  <2>2. LET S == Selected(Candidates(Released(F), waiting \ U))
        IN  S \in SUBSET Msgs /\ \A m \in S : Released(F)[m] = "pending"
    BY DEF Selected, Candidates, Eligible
  <2> QED BY <2>1, <2>2
<1>2. /\ work[w].pc = "idle"
      /\ UNCHANGED <<created, clock, wire, log, entry, inbox, saved, receipts>>
  BY DEF Claim, broker, consumer
<1>3. \A m \in Msgs : /\ Released(F)[m] = status[m] \/ (status[m] = "publishing" /\ Released(F)[m] = "pending")
                      /\ m \in S => status[m] \in {"pending", "publishing"}
  BY <1>1 DEF Lapsed, Released
<1>4. /\ status' \in [Msgs -> Statuses] /\ attempts' \in [Msgs -> Nat]
      /\ \A m \in Msgs : /\ m \in S => status'[m] = "publishing"
                         /\ Live(m) <=> Live(m)'
                         /\ status'[m] = "published" <=> status[m] = "published"
                         /\ m \in S => Live(m)
  BY <1>1, <1>3 DEF OutboxInv, Types, Statuses, Live
<1>5. Grows BY <1>2, <1>4 DEF Grows, Stored
<1>6. PICK r \in Work : work' = [work EXCEPT ![w] = r] /\ Fits(w, r)'
  <2>1. CASE S = {} BY <1>1, <2>1, IdleFits
  <2>2. CASE S # {}
    <3> DEFINE B == {<<m, attempts[m] + 1>> : m \in S}
    <3>1. B \in SUBSET Jobs /\ B # {}
      <4>1. attempts \in [Msgs -> Nat] BY DEF OutboxInv, Types
      <4>2. \A m \in S : <<m, attempts[m] + 1>> \in Jobs BY <4>1 DEF Jobs
      <4> QED BY <2>2, <4>2
    <3>2. \A j \in B : j[1] \in S BY <1>1
    <3>3. \A j, k \in B : j[1] = k[1] => j = k OBVIOUS
    <3> HIDE DEF B
    <3>4. LET q == [Idle EXCEPT !.pc = "batch", !.batch = B]
          IN  q \in Work /\ q.pc = "batch" /\ q.batch = B /\ q.got = FALSE /\ q.result = "none"
      BY <3>1 DEF Idle, Work
    <3>5. PICK q \in Work : /\ q = [Idle EXCEPT !.pc = "batch", !.batch = B] /\ q.pc = "batch"
                            /\ q.batch = B /\ q.got = FALSE /\ q.result = "none"
      BY <3>4
    <3>6. work' = [work EXCEPT ![w] = q] BY <1>1, <2>2, <3>5 DEF B
    <3>7. \A j \in B : Live(j[1])' /\ status'[j[1]] = "publishing" BY <1>4, <3>2
    <3>8. Fits(w, q)' BY <3>1, <3>3, <3>5, <3>7 DEF Fits
    <3> QED BY <3>6, <3>8
  <2> QED BY <2>1, <2>2
<1>7. work' \in [Workers -> Work] /\ \A v \in Workers : Fits(v, work[v])'
  BY <1>5, <1>6, WorkMoves
<1>8. Types' BY <1>2, <1>4, <1>7 DEF OutboxInv, Types
<1>9. Sent' BY <1>2, <1>5, SentKept
<1>10. Backed' BY <1>2, <1>4 DEF OutboxInv, Backed, Stored
<1>11. Tokens' BY <1>2, TokensSame DEF OutboxInv
<1> QED BY <1>7, <1>8, <1>9, <1>10, <1>11 DEF OutboxInv

\* mark_*: the row in hand, then the rest of the batch.  "published" is written only of what
\* the broker has stored.
LEMMA MarkKeeps ==
    ASSUME OutboxInv, NEW w \in Workers,
           MarkPublished(w) \/ MarkFailed(w) \/ MarkDeadLetter(w)
    PROVE  OutboxInv'
<1>1. PICK st \in {"published", "pending", "dead_letter"} :
         /\ Mark(w, st) /\ work[w].pc # "idle"
         /\ st = "published" => work[w].pc = "mark" /\ work[w].result = "published"
  BY DEF MarkPublished, MarkFailed, MarkDeadLetter
<1>2. /\ work[w] \in Work /\ Fits(w, work[w]) /\ work[w].batch # {}
      /\ Current(w) = Oldest(work[w].batch)
      /\ Current(w) \in work[w].batch /\ Current(w)[1] \in Msgs /\ Live(Current(w)[1])
  BY <1>1, SameBatch DEF Fits
<1>3. PICK m \in Msgs : m = Current(w)[1] /\ Live(m) BY <1>2
<1>4. /\ status' = IF Markable(m) THEN [status EXCEPT ![m] = st] ELSE status
      /\ work' = [work EXCEPT ![w] = Rest(w)]
      /\ UNCHANGED <<created, attempts, clock, wire, log, entry, inbox, saved, receipts>>
  BY <1>1, <1>3 DEF Mark, broker, consumer
<1>5. /\ status' \in [Msgs -> Statuses]
      /\ \A k \in Msgs : k # m => status'[k] = status[k]
      /\ status'[m] \in {st, "published"}
      /\ status'[m] = "published" => st = "published" \/ status[m] = "published"
  BY <1>3, <1>4 DEF OutboxInv, Types, Statuses, Markable
<1>6. Grows BY <1>4, <1>5 DEF Grows, Stored, Live
<1>7. PICK r \in Work : work' = [work EXCEPT ![w] = r] /\ Fits(w, r)'
  <2> DEFINE B == work[w].batch \ {Current(w)}
  <2>1. CASE B = {}
    <3>1. Rest(w) = Idle BY <2>1 DEF Rest
    <3> QED BY <1>4, <3>1, IdleFits
  <2>2. CASE B # {}
    <3>1. B \in SUBSET Jobs BY <1>2 DEF Work
    <3>2. Rest(w) = [Idle EXCEPT !.pc = "batch", !.batch = B] BY <2>2 DEF Rest
    <3>3. /\ \A j \in B : Live(j[1]) /\ (status[j[1]] = "publishing" \/ \E v \in Workers : v # w)
          /\ \A j, k \in B : j[1] = k[1] => j = k
          /\ \A j \in B : j[1] # m
      BY <1>2, <1>3 DEF Fits
    <3> HIDE DEF B
    <3>4. LET q == [Idle EXCEPT !.pc = "batch", !.batch = B]
          IN  q \in Work /\ q.pc = "batch" /\ q.batch = B /\ q.got = FALSE /\ q.result = "none"
      BY <3>1 DEF Idle, Work
    <3>5. PICK q \in Work : /\ q = [Idle EXCEPT !.pc = "batch", !.batch = B] /\ q.pc = "batch"
                            /\ q.batch = B /\ q.got = FALSE /\ q.result = "none"
      BY <3>4
    <3>6. work' = [work EXCEPT ![w] = q] BY <1>4, <3>2, <3>5
    <3>7. Fits(w, q) BY <2>2, <3>3, <3>5 DEF Fits
    <3>8. \A j \in q.batch : status'[j[1]] = status[j[1]]
      BY <1>5, <3>1, <3>3, <3>5 DEF Jobs
    <3>9. Fits(w, q)' BY <1>6, <3>7, <3>8, FitsKept
    <3> QED BY <3>6, <3>9
  <2> QED BY <2>1, <2>2
<1>8. work' \in [Workers -> Work] /\ \A v \in Workers : Fits(v, work[v])'
  BY <1>6, <1>7, WorkMoves
<1>9. Types' BY <1>4, <1>5, <1>8 DEF OutboxInv, Types
<1>10. Sent' BY <1>4, <1>6, SentKept
<1>11. Backed'
  <2>1. st = "published" => m \in Stored BY <1>1, <1>2, <1>3 DEF Fits
  <2>2. Stored' = Stored BY <1>4 DEF Stored
  <2> QED BY <1>5, <2>1, <2>2 DEF OutboxInv, Backed
<1>12. Tokens' BY <1>4, TokensSame DEF OutboxInv
<1> QED BY <1>8, <1>9, <1>10, <1>11, <1>12 DEF OutboxInv

\* The connection breaks, and the worker forgets an acknowledgement it had.
LEMMA DisconnectKeeps == ASSUME OutboxInv, NEW w \in Workers, Disconnect(w) PROVE OutboxInv'
<1>1. PICK k \in 0..Len(wire[w]) : wire' = [wire EXCEPT ![w] = SubSeq(@, k + 1, Len(@))]
  BY DEF Disconnect
<1>2. work' = [work EXCEPT ![w].got = FALSE]
      /\ UNCHANGED <<rows, log, entry, inbox, saved, receipts>>
  BY DEF Disconnect, broker, consumer
<1>3. PICK s \in Seq(Jobs) : s = wire[w] BY DEF OutboxInv, Types
<1>4. PICK t : t = SubSeq(s, k + 1, Len(s)) OBVIOUS
<1>5. t \in Seq(Jobs) /\ \A i \in DOMAIN t : \E n \in DOMAIN s : t[i] = s[n]
  <2>1. k \in Nat /\ k <= Len(s) /\ Len(s) \in Nat BY <1>1, <1>3
  <2>2. t \in Seq(Jobs) /\ Len(t) = Len(s) - k BY <1>4, <2>1
  <2>3. ASSUME NEW i \in DOMAIN t PROVE t[i] = s[k + i] /\ k + i \in DOMAIN s
    BY <1>4, <2>1, <2>2
  <2> QED BY <2>2, <2>3
<1>6. wire' \in [Workers -> Seq(Jobs)] /\ wire'[w] = t /\ \A v \in Workers : v # w => wire'[v] = wire[v]
  BY <1>1, <1>3, <1>4, <1>5 DEF OutboxInv, Types
<1>7. ASSUME NEW v \in Workers, NEW i \in DOMAIN wire'[v] PROVE Live(wire'[v][i][1])
  BY <1>3, <1>5, <1>6 DEF OutboxInv, Sent
<1>8. PICK r \in Work : /\ r = [work[w] EXCEPT !.got = FALSE] /\ r.pc = work[w].pc
                        /\ r.result = work[w].result /\ r.batch = work[w].batch /\ r.got = FALSE
  <2>1. LET r == [work[w] EXCEPT !.got = FALSE]
        IN  /\ r \in Work /\ r.pc = work[w].pc /\ r.result = work[w].result
            /\ r.batch = work[w].batch /\ r.got = FALSE
    BY Rewritten
  <2> QED BY <2>1
<1>9. work' = [work EXCEPT ![w] = r] BY <1>2, <1>8 DEF OutboxInv, Types
<1>10. Fits(w, work[w]) BY DEF OutboxInv
<1>11. Fits(w, r) /\ Grows /\ \A m \in Msgs : status'[m] = status[m]
  BY <1>2, <1>8, <1>10 DEF Fits, Grows, Live, Stored, rows
<1>12. \A q \in r.batch : q[1] \in Msgs BY DEF Work, Jobs
<1>13. Fits(w, r)' BY <1>11, <1>12, FitsKept
<1> QED BY <1>2, <1>6, <1>7, <1>9, <1>13, WorkStep

\* The broker stores a publish, or drops one it has, and answers it.
LEMMA StoreKeeps == ASSUME OutboxInv, NEW w \in Workers, Store(w) PROVE OutboxInv'
<1>1. PICK s \in Seq(Jobs) : s = wire[w] /\ s # <<>> BY DEF OutboxInv, Types, Store
<1>2. PICK m \in Msgs, t \in Seq(Jobs) :
         /\ m = Head(s)[1] /\ t = Tail(s) /\ Live(m)
         /\ \A i \in DOMAIN t : \E n \in DOMAIN s : t[i] = s[n]
  <2>1. Len(s) \in Nat \ {0} /\ Head(s) = s[1] /\ 1 \in DOMAIN s BY <1>1
  <2>2. Head(s) \in Jobs /\ Live(Head(s)[1]) BY <1>1, <2>1 DEF OutboxInv, Sent
  <2>3. Tail(s) \in Seq(Jobs) /\ Len(Tail(s)) = Len(s) - 1 BY <1>1, <2>1
  <2>4. \A i \in DOMAIN Tail(s) : Tail(s)[i] = s[i + 1] /\ i + 1 \in DOMAIN s BY <2>1, <2>3
  <2>5. Head(s)[1] \in Msgs BY <2>2 DEF Jobs
  <2> QED BY <2>2, <2>3, <2>4, <2>5
<1>3. /\ wire' = [wire EXCEPT ![w] = t]
      /\ \/ m \in Stored /\ UNCHANGED <<log, entry>>
         \/ log' = Append(log, m) /\ entry' = Append(entry, [st |-> "ready", n |-> 0])
      /\ UNCHANGED <<rows, inbox, saved, receipts>>
  BY <1>1, <1>2 DEF Store, consumer
<1>4. /\ log \in Seq(Msgs) /\ entry \in Seq(Entry) /\ Len(entry) = Len(log)
      /\ [st |-> "ready", n |-> 0] \in Entry
  BY OutboxAssumption DEF OutboxInv, Types, Entry
<1>5. /\ log' \in Seq(Msgs) /\ entry' \in Seq(Entry) /\ Len(entry') = Len(log')
      /\ Len(log) <= Len(log') /\ Len(log) \in Nat /\ Len(log') \in Nat
      /\ \A i \in 1..Len(log) : /\ i \in 1..Len(log') /\ log'[i] = log[i]
                                /\ entry'[i] = entry[i]
      /\ m \in {log'[i] : i \in 1..Len(log')}
      /\ \A i \in 1..Len(log') : i \in 1..Len(log) \/ log'[i] = m
  <2>1. CASE m \in Stored /\ UNCHANGED <<log, entry>> BY <1>4, <2>1 DEF Stored
  <2>2. CASE log' = Append(log, m) /\ entry' = Append(entry, [st |-> "ready", n |-> 0])
    <3>1. log' \in Seq(Msgs) /\ Len(log') = Len(log) + 1 /\ Len(log) \in Nat BY <1>4, <2>2
    <3>2. entry' \in Seq(Entry) /\ Len(entry') = Len(entry) + 1 BY <1>4, <2>2
    <3>3. \A i \in 1..Len(log) : i \in 1..Len(log') /\ log'[i] = log[i] /\ entry'[i] = entry[i]
      BY <1>4, <2>2, <3>1
    <3>4. Len(log') \in 1..Len(log') /\ log'[Len(log')] = m BY <1>4, <2>2, <3>1
    <3>5. \A i \in 1..Len(log') : i \in 1..Len(log) \/ i = Len(log') BY <3>1
    <3>6. m \in {log'[i] : i \in 1..Len(log')} BY <3>4
    <3>7. \A i \in 1..Len(log') : i \in 1..Len(log) \/ log'[i] = m BY <3>4, <3>5
    <3>8. Len(entry') = Len(log') /\ Len(log) <= Len(log') /\ Len(log') \in Nat
      BY <1>4, <3>1, <3>2
    <3> QED BY <3>1, <3>2, <3>3, <3>6, <3>7, <3>8
  <2> QED BY <1>3, <2>1, <2>2
<1>6. DOMAIN log = 1..Len(log) /\ DOMAIN log' = 1..Len(log') BY <1>4, <1>5
<1>7. m \in Stored' /\ Stored \subseteq Stored' BY <1>5, <1>6 DEF Stored
<1>8. Grows BY <1>3, <1>7 DEF Grows, Live, rows
<1>9. wire' \in [Workers -> Seq(Jobs)] /\ wire'[w] = t /\ \A v \in Workers : v # w => wire'[v] = wire[v]
  BY <1>2, <1>3 DEF OutboxInv, Types
<1>10. Sent'
  <2>1. ASSUME NEW v \in Workers, NEW i \in DOMAIN wire'[v] PROVE Live(wire'[v][i][1])
    <3>1. CASE v = w
      <4>1. PICK n \in DOMAIN s : t[i] = s[n] BY <1>2, <1>9, <3>1
      <4>2. Live(s[n][1]) BY <1>1 DEF OutboxInv, Sent
      <4> QED BY <1>9, <3>1, <4>1, <4>2
    <3>2. CASE v # w
      <4>1. wire'[v] = wire[v] BY <1>9, <3>2
      <4> QED BY <4>1 DEF OutboxInv, Sent
    <3> QED BY <3>1, <3>2
  <2>2. \A i \in DOMAIN log' : Live(log'[i]) BY <1>2, <1>5, <1>6 DEF OutboxInv, Sent
  <2> QED BY <1>3, <2>1, <2>2 DEF Sent, Live, rows
<1>11. Backed' BY <1>3, <1>7 DEF OutboxInv, Backed, rows
<1>12. PICK r \in Work : work' = [work EXCEPT ![w] = r] /\ Fits(w, r)'
  <2>1. PICK x \in BOOLEAN : x <=> (work[w].got \/ /\ link[w] /\ work[w].pc = "sent"
                                                   /\ Head(wire[w]) = Current(w))
    OBVIOUS
  <2>2. work[w] \in Work BY DEF OutboxInv, Types
  <2>3. work' = [work EXCEPT ![w].got = x]
    <3>1. work[w].got \in BOOLEAN BY <2>2 DEF Work
    <3>2. (work[w].got \/ /\ link[w] /\ work[w].pc = "sent" /\ Head(wire[w]) = Current(w)) = x
      BY <2>1
    <3> QED BY <3>2 DEF Store
  <2>4. PICK r \in Work : /\ r = [work[w] EXCEPT !.got = x] /\ r.pc = work[w].pc
                          /\ r.result = work[w].result /\ r.batch = work[w].batch /\ r.got = x
    <3>1. LET r == [work[w] EXCEPT !.got = x]
          IN  /\ r \in Work /\ r.pc = work[w].pc /\ r.result = work[w].result
              /\ r.batch = work[w].batch /\ r.got = x
      BY Rewritten
    <3> QED BY <3>1
  <2>5. work' = [work EXCEPT ![w] = r] BY <2>3, <2>4 DEF OutboxInv, Types
  <2>6. Fits(w, work[w]) /\ Current(w) = Oldest(work[w].batch) BY CurrentOldest DEF OutboxInv
  <2>7. PICK q \in Work : /\ q = [work[w] EXCEPT !.got = FALSE] /\ q.pc = work[w].pc
                          /\ q.result = work[w].result /\ q.batch = work[w].batch /\ q.got = FALSE
    <3>1. LET q == [work[w] EXCEPT !.got = FALSE]
          IN  /\ q \in Work /\ q.pc = work[w].pc /\ q.result = work[w].result
              /\ q.batch = work[w].batch /\ q.got = FALSE
      BY Rewritten
    <3> QED BY <3>1
  <2>8. Fits(w, q) BY <2>6, <2>7 DEF Fits
  <2>9. \A j \in q.batch : j[1] \in Msgs BY DEF Work, Jobs
  <2>10. Fits(w, q)' BY <1>3, <1>8, <2>8, <2>9, FitsKept DEF rows
  <2>11. Oldest(q.batch)' = Oldest(q.batch) BY <1>3 DEF Oldest, rows
  <2>12. x => r.pc \in {"sent", "mark"} /\ Oldest(q.batch)[1] \in Stored'
    <3>1. CASE work[w].got BY <1>7, <2>4, <2>6, <2>7, <3>1 DEF Fits
    <3>2. CASE work[w].pc = "sent" /\ Head(wire[w]) = Current(w)
      <4>1. Oldest(q.batch)[1] = m BY <1>1, <1>2, <2>6, <2>7, <3>2
      <4> QED BY <1>7, <2>4, <3>2, <4>1
    <3> QED BY <2>1, <3>1, <3>2
  <2>13. Fits(w, r)' BY <2>4, <2>7, <2>10, <2>11, <2>12 DEF Fits
  <2> QED BY <2>5, <2>13
<1>13. work' \in [Workers -> Work] /\ \A v \in Workers : Fits(v, work[v])'
  BY <1>8, <1>12, WorkMoves
<1>14. Types'
  <2>1. inbox' \in [Workers -> SUBSET (1..Len(log'))] BY <1>3, <1>5 DEF OutboxInv, Types
  <2> QED BY <1>3, <1>5, <1>9, <1>13, <2>1 DEF OutboxInv, Types, rows
<1>15. Tokens'
  <2>1. PICK T, h : Counted(T, h) BY DEF OutboxInv, Tokens
  <2>2. /\ T \subseteq (1..Len(log)) \X (1..MaxDeliver) /\ IsFiniteSet(T)
        /\ \A u \in T : u[1] \in 1..Len(log) /\ u[2] <= entry[u[1]].n
        /\ \A k \in Msgs : receipts[k] = Cardinality({u \in T : log[u[1]] = k})
        /\ h \in [Workers \X Nat -> Nat]
    BY <2>1 DEF Counted
  <2>3. T \subseteq (1..Len(log')) \X (1..MaxDeliver) BY <1>5, <2>2
  <2>4. \A u \in T : u[2] <= entry'[u[1]].n BY <1>5, <2>2
  <2>5. ASSUME NEW k \in Msgs PROVE receipts'[k] = Cardinality({u \in T : log'[u[1]] = k})
    <3>1. {u \in T : log'[u[1]] = k} = {u \in T : log[u[1]] = k} BY <1>5, <2>2
    <3> QED BY <1>3, <2>2, <3>1
  <2>6. \A v \in Workers, i \in 1..Len(log') :
           /\ Unsaved(v, i)' <=> Unsaved(v, i)
           /\ Unsaved(v, i) => i \in 1..Len(log)
    BY <1>3 DEF Unsaved, First, OutboxInv, Types
  <2>7. \A v \in Workers, i \in 1..Len(log') : Unsaved(v, i)' =>
          /\ h[<<v, i>>] \in 1..entry'[i].n /\ <<i, h[<<v, i>>]>> \notin T
          /\ \A u \in Workers : u # v /\ Unsaved(u, i)' => h[<<u, i>>] # h[<<v, i>>]
    BY <1>5, <2>1, <2>6 DEF Counted
  <2>8. Counted(T, h)' BY <2>2, <2>3, <2>4, <2>5, <2>7 DEF Counted
  <2> QED BY <2>8 DEF Tokens
<1> QED BY <1>10, <1>11, <1>13, <1>14, <1>15 DEF OutboxInv

\* Entries are forgotten, handed back or acknowledged; a worker may die meanwhile.
LEMMA ConsumerMoves ==
    ASSUME OutboxInv, UNCHANGED <<rows, wire, log, receipts>>,
           work' = work \/ \E w \in Workers : work' = [work EXCEPT ![w] = Idle],
           inbox' \in [Workers -> SUBSET (1..Len(log))], saved' \in [Workers -> BOOLEAN],
           entry' \in Seq(Entry), Len(entry') = Len(entry),
           \A i \in 1..Len(log) : entry'[i].n = entry[i].n,
           \A w \in Workers, i \in 1..Len(log) : Unsaved(w, i)' => Unsaved(w, i)
    PROVE  OutboxInv'
<1>1. Grows BY DEF Grows, Live, Stored, rows
<1>2. work' \in [Workers -> Work] /\ \A w \in Workers : Fits(w, work[w])'
  <2>1. CASE work' = work
    <3>1. \A w \in Workers : Fits(w, work[w])' BY <1>1, <2>1, RowsMove DEF rows
    <3> QED BY <2>1, <3>1 DEF OutboxInv, Types
  <2>2. CASE \E w \in Workers : work' = [work EXCEPT ![w] = Idle]
    BY <1>1, <2>2, IdleFits, WorkMoves
  <2> QED BY <2>1, <2>2
<1>3. Types' BY <1>2 DEF OutboxInv, Types, rows
<1>4. Sent' BY <1>1, SentKept
<1>5. Backed' BY DEF OutboxInv, Backed, Stored, rows
<1>6. Tokens' BY TokensDrop DEF OutboxInv
<1> QED BY <1>2, <1>3, <1>4, <1>5, <1>6 DEF OutboxInv

\* The consumer empties its hands.
LEMMA EmptiesKeep ==
    ASSUME OutboxInv, NEW w \in Workers, Connect(w) \/ Crash(w) \/ ConsumerEnds(w)
    PROVE  OutboxInv'
<1>1. /\ UNCHANGED <<rows, wire, log, entry, receipts>>
      /\ work' = work \/ work' = [work EXCEPT ![w] = Idle]
      /\ inbox' = [inbox EXCEPT ![w] = {}] /\ saved' = [saved EXCEPT ![w] = FALSE]
  BY DEF Connect, Crash, ConsumerEnds, broker
<1>2. /\ inbox' \in [Workers -> SUBSET (1..Len(log))] /\ saved' \in [Workers -> BOOLEAN]
      /\ inbox'[w] = {}
      /\ \A v \in Workers : v # w => inbox'[v] = inbox[v] /\ saved'[v] = saved[v]
  BY <1>1 DEF OutboxInv, Types
<1>3. \A v \in Workers, i \in 1..Len(log) : Unsaved(v, i)' => Unsaved(v, i)
  BY <1>2 DEF Unsaved, First
<1>4. entry' \in Seq(Entry) /\ Len(entry') = Len(entry)
      /\ \A i \in 1..Len(log) : entry'[i].n = entry[i].n
  BY <1>1 DEF OutboxInv, Types
<1> QED BY <1>1, <1>2, <1>3, <1>4, ConsumerMoves

\* The entry in hand is done with.
LEMMA HandledKeeps ==
    ASSUME OutboxInv, NEW w \in Workers, Nak(w) \/ Ack(w) \/ AckLost(w)
    PROVE  OutboxInv'
<1>1. /\ Handled(w) /\ inbox[w] # {}
      /\ \/ UNCHANGED entry
         \/ entry' = [entry EXCEPT ![First(w)].st = "ready"]
         \/ entry' = [entry EXCEPT ![First(w)].st = "acked"]
  BY DEF Nak, Ack, AckLost, MayAck
<1>2. First(w) \in inbox[w] /\ inbox[w] \subseteq 1..Len(log) BY <1>1, FirstInInbox DEF OutboxInv, Types
<1>3. PICK k \in 1..Len(log) : k = First(w) BY <1>2
<1>4. /\ inbox' \in [Workers -> SUBSET (1..Len(log))] /\ saved' \in [Workers -> BOOLEAN]
      /\ inbox'[w] = inbox[w] \ {k} /\ saved'[w] = FALSE
      /\ \A v \in Workers : v # w => inbox'[v] = inbox[v] /\ saved'[v] = saved[v]
      /\ UNCHANGED <<rows, work, wire, log, receipts>>
  BY <1>1, <1>3 DEF Handled, OutboxInv, Types
<1>5. ASSUME NEW v \in Workers, NEW i \in 1..Len(log), Unsaved(v, i)' PROVE Unsaved(v, i)
  <2>1. CASE v = w BY <1>3, <1>4, <1>5, <2>1 DEF Unsaved
  <2>2. CASE v # w BY <1>4, <1>5, <2>2 DEF Unsaved, First
  <2> QED BY <2>1, <2>2
<1>6. entry' \in Seq(Entry) /\ Len(entry') = Len(entry)
      /\ \A i \in 1..Len(log) : entry'[i].n = entry[i].n
  <2>1. entry \in Seq(Entry) /\ Len(entry) = Len(log) /\ k \in 1..Len(entry) /\ entry[k] \in Entry
    BY <1>3 DEF OutboxInv, Types
  <2>2. CASE UNCHANGED entry BY <2>1, <2>2
  <2>3. ASSUME NEW x \in {"ready", "acked"}, entry' = [entry EXCEPT ![k].st = x]
        PROVE  /\ entry' \in Seq(Entry) /\ Len(entry') = Len(entry)
               /\ \A i \in 1..Len(log) : entry'[i].n = entry[i].n
    <3>1. LET e == [entry[k] EXCEPT !.st = x] IN e \in Entry /\ e.n = entry[k].n
      BY <2>1 DEF Entry
    <3>2. PICK e \in Entry : e = [entry[k] EXCEPT !.st = x] /\ e.n = entry[k].n BY <3>1
    <3>3. entry' = [entry EXCEPT ![k] = e] BY <2>1, <2>3, <3>2
    <3>4. entry' \in Seq(Entry) /\ Len(entry') = Len(entry) BY <2>1, <3>3
    <3>5. \A i \in 1..Len(log) : entry'[i] = IF i = k THEN e ELSE entry[i] BY <2>1, <3>3
    <3> QED BY <3>2, <3>4, <3>5
  <2> QED BY <1>1, <1>3, <2>2, <2>3
<1> QED BY <1>4, <1>5, <1>6, ConsumerMoves

\* A fetch hands entries out once more: the number of the delivery is new.
LEMMA FetchKeeps == ASSUME OutboxInv, NEW w \in Workers, Fetch(w) PROVE OutboxInv'
<1>1. PICK S \in SUBSET (1..Len(log)) :
         /\ \A i \in S : entry[i].n < MaxDeliver
         /\ inbox' = [inbox EXCEPT ![w] = S]
         /\ entry' = [i \in DOMAIN entry |-> IF i \in S THEN [st |-> "out", n |-> entry[i].n + 1]
                                             ELSE entry[i]]
  <2>1. DOMAIN log = 1..Len(log) BY DEF OutboxInv, Types
  <2>2. PICK R \in SUBSET {i \in DOMAIN log : entry[i].st = "out"} :
           LET S == {i \in DOMAIN log : Deliverable(i, R)}
           IN  /\ inbox' = [inbox EXCEPT ![w] = S]
               /\ entry' = [i \in DOMAIN entry |->
                               IF i \in S THEN [st |-> "out", n |-> entry[i].n + 1]
                               ELSE entry[i]]
    BY DEF Fetch
  <2> QED BY <2>1, <2>2 DEF Deliverable
<1>2. /\ inbox[w] = {} /\ UNCHANGED <<rows, work, wire, log, saved, receipts>>
  BY DEF Fetch
<1>3. /\ entry \in Seq(Entry) /\ DOMAIN entry = 1..Len(log) /\ Len(log) \in Nat
      /\ Len(entry) = Len(log)
  BY DEF OutboxInv, Types
<1>4. \A i \in 1..Len(log) : /\ entry[i] \in Entry /\ entry[i].n \in Nat
                             /\ entry[i].n <= MaxDeliver
  <2>1. \A i \in 1..Len(log) : entry[i] \in Entry BY <1>3
  <2>2. \A e \in Entry : e.n \in Nat /\ e.n <= MaxDeliver BY OutboxAssumption DEF Entry
  <2> QED BY <2>1, <2>2
<1>5. /\ entry' \in Seq(Entry) /\ Len(entry') = Len(log)
      /\ \A i \in 1..Len(log) : entry'[i].n = IF i \in S THEN entry[i].n + 1 ELSE entry[i].n
  <2>1. \A i \in S : [st |-> "out", n |-> entry[i].n + 1] \in Entry
    BY <1>1, <1>4, OutboxAssumption DEF Entry
  <2>2. entry' \in [1..Len(log) -> Entry] BY <1>1, <1>3, <1>4, <2>1
  <2>3. entry' \in Seq(Entry) /\ Len(entry') = Len(log) BY <1>3, <2>2
  <2>4. \A i \in 1..Len(log) : entry'[i].n = IF i \in S THEN entry[i].n + 1 ELSE entry[i].n
    BY <1>1, <1>3
  <2> QED BY <2>3, <2>4
<1>6. /\ inbox' \in [Workers -> SUBSET (1..Len(log))] /\ inbox'[w] = S
      /\ \A v \in Workers : v # w => inbox'[v] = inbox[v]
  BY <1>1 DEF OutboxInv, Types
<1>7. Types' BY <1>2, <1>5, <1>6 DEF OutboxInv, Types, rows
<1>8. Grows BY <1>2 DEF Grows, Live, Stored, rows
<1>9. Sent' /\ Backed' BY <1>2, <1>8, SentKept DEF OutboxInv, Backed, Stored, rows
<1>10. \A v \in Workers : Fits(v, work[v])' BY <1>2, <1>8, RowsMove DEF rows
<1>11. Tokens'
  <2>1. PICK T, h : Counted(T, h) BY DEF OutboxInv, Tokens
  <2>2. PICK g \in [Workers \X Nat -> Nat] :
           /\ \A i \in S : g[<<w, i>>] = entry[i].n + 1
           /\ \A v \in Workers, i \in 1..Len(log) : v # w => g[<<v, i>>] = h[<<v, i>>]
    <3> DEFINE g == [p \in Workers \X Nat |->
                       IF p[1] = w THEN (IF p[2] \in S THEN entry[p[2]].n + 1 ELSE 0) ELSE h[p]]
    <3>1. h \in [Workers \X Nat -> Nat] BY <2>1 DEF Counted
    <3>2. \A p \in Workers \X Nat : g[p] \in Nat BY <1>4, <3>1
    <3>3. g \in [Workers \X Nat -> Nat] BY <3>2
    <3>4. \A i \in S : <<w, i>> \in Workers \X Nat BY <1>3
    <3>5. \A i \in S : g[<<w, i>>] = entry[i].n + 1 BY <3>4
    <3>6. \A v \in Workers, i \in 1..Len(log) : v # w => g[<<v, i>>] = h[<<v, i>>] BY <1>3
    <3> QED BY <3>3, <3>5, <3>6
  <2>3. /\ T \subseteq (1..Len(log)) \X (1..MaxDeliver) /\ IsFiniteSet(T)
        /\ \A t \in T : t[1] \in 1..Len(log) /\ t[2] \in Nat /\ t[2] <= entry[t[1]].n
        /\ \A m \in Msgs : receipts[m] = Cardinality({t \in T : log[t[1]] = m})
    <3>1. /\ T \subseteq (1..Len(log)) \X (1..MaxDeliver) /\ IsFiniteSet(T)
          /\ \A t \in T : t[2] <= entry[t[1]].n
          /\ \A m \in Msgs : receipts[m] = Cardinality({t \in T : log[t[1]] = m})
      BY <2>1 DEF Counted
    <3>2. \A t \in T : t[1] \in 1..Len(log) /\ t[2] \in Nat BY <3>1
    <3> QED BY <3>1, <3>2
  <2>4. ASSUME NEW t \in T PROVE t[2] <= entry'[t[1]].n
    <3>1. t[1] \in 1..Len(log) /\ t[2] \in Nat /\ t[2] <= entry[t[1]].n BY <2>3
    <3>2. PICK a \in Nat : a = entry[t[1]].n BY <1>4, <3>1
    <3>3. entry'[t[1]].n \in {a, a + 1} BY <1>5, <3>1, <3>2
    <3> QED BY <3>1, <3>2, <3>3
  <2>5. \A v \in Workers, i \in 1..Len(log) : v # w /\ Unsaved(v, i)' => Unsaved(v, i)
    BY <1>2, <1>6 DEF Unsaved, First
  <2>6. \A i \in 1..Len(log) : Unsaved(w, i)' => i \in S BY <1>6 DEF Unsaved
  <2>7. ASSUME NEW v \in Workers, NEW i \in 1..Len(log), Unsaved(v, i)', v # w
        PROVE  /\ g[<<v, i>>] \in 1..entry[i].n /\ <<i, g[<<v, i>>]>> \notin T
               /\ \A u \in Workers : u # v /\ u # w /\ Unsaved(u, i)' => g[<<u, i>>] # g[<<v, i>>]
    BY <2>1, <2>2, <2>5, <2>7 DEF Counted
  <2>8. ASSUME NEW v \in Workers, NEW i \in 1..Len(log), Unsaved(v, i)'
        PROVE  /\ g[<<v, i>>] \in 1..entry'[i].n /\ <<i, g[<<v, i>>]>> \notin T
               /\ \A u \in Workers : u # v /\ Unsaved(u, i)' => g[<<u, i>>] # g[<<v, i>>]
    <3>1. PICK a \in Nat : a = entry[i].n BY <1>4
    <3>2. entry'[i].n = IF i \in S THEN a + 1 ELSE a BY <1>5, <3>1
    <3>3. CASE v = w
      <4>1. i \in S /\ g[<<v, i>>] = a + 1 /\ entry'[i].n = a + 1 BY <2>2, <2>6, <2>8, <3>1, <3>2, <3>3
      <4>2. <<i, a + 1>> \notin T
        <5> SUFFICES ASSUME <<i, a + 1>> \in T PROVE FALSE OBVIOUS
        <5>1. PICK t \in T : t = <<i, a + 1>> OBVIOUS
        <5>2. t[1] = i /\ t[2] = a + 1 BY <5>1
        <5>3. a + 1 <= a BY <2>3, <3>1, <5>2
        <5> QED BY <5>3
      <4>3. \A u \in Workers : u # v /\ Unsaved(u, i)' => g[<<u, i>>] \in 1..a
        BY <2>7, <3>1, <3>3
      <4>4. \A u \in Workers : u # v /\ Unsaved(u, i)' => g[<<u, i>>] # a + 1 BY <4>3
      <4>5. a + 1 \in 1..(a + 1) OBVIOUS
      <4> QED BY <4>1, <4>2, <4>4, <4>5
    <3>4. CASE v # w
      <4>1. g[<<v, i>>] \in 1..a /\ <<i, g[<<v, i>>]>> \notin T BY <2>7, <2>8, <3>1, <3>4
      <4>2. g[<<v, i>>] \in 1..entry'[i].n BY <3>2, <4>1
      <4>3. Unsaved(w, i)' => g[<<w, i>>] = a + 1 BY <2>2, <2>6, <3>1
      <4>4. Unsaved(w, i)' => g[<<w, i>>] # g[<<v, i>>] BY <4>1, <4>3
      <4> QED BY <2>7, <2>8, <3>4, <4>1, <4>2, <4>4
    <3> QED BY <3>3, <3>4
  <2>9. Counted(T, g)' BY <1>2, <2>2, <2>3, <2>4, <2>8 DEF Counted
  <2> QED BY <2>9 DEF Tokens
<1> QED BY <1>7, <1>9, <1>10, <1>11 DEF OutboxInv

\* The delivery in hand has a number no receipt was written for.
LEMMA Numbered ==
    ASSUME Types, NEW w \in Workers, Persist(w)
    PROVE  \A T, h : Counted(T, h) =>
              /\ First(w) \in inbox[w] /\ First(w) \in 1..Len(log)
              /\ h[<<w, First(w)>>] \in 1..MaxDeliver
              /\ h[<<w, First(w)>>] <= entry[First(w)].n
              /\ <<First(w), h[<<w, First(w)>>]>> \notin T
              /\ \A v \in Workers : v # w /\ Unsaved(v, First(w))
                                       => h[<<v, First(w)>>] # h[<<w, First(w)>>]
<1> SUFFICES ASSUME NEW T, NEW h, Counted(T, h)
             PROVE  /\ First(w) \in inbox[w] /\ First(w) \in 1..Len(log)
                    /\ h[<<w, First(w)>>] \in 1..MaxDeliver
                    /\ h[<<w, First(w)>>] <= entry[First(w)].n
                    /\ <<First(w), h[<<w, First(w)>>]>> \notin T
                    /\ \A v \in Workers : v # w /\ Unsaved(v, First(w))
                                             => h[<<v, First(w)>>] # h[<<w, First(w)>>]
  OBVIOUS
<1>1. inbox[w] # {} /\ ~saved[w] /\ inbox[w] \subseteq 1..Len(log) BY DEF Persist, Types
<1>2. First(w) \in inbox[w] BY <1>1, FirstInInbox
<1>3. PICK k \in 1..Len(log) : k = First(w) BY <1>1, <1>2
<1>4. Unsaved(w, k) BY <1>1, <1>2, <1>3 DEF Unsaved
<1>5. /\ h[<<w, k>>] \in 1..entry[k].n /\ <<k, h[<<w, k>>]>> \notin T
      /\ \A v \in Workers : v # w /\ Unsaved(v, k) => h[<<v, k>>] # h[<<w, k>>]
  BY <1>4 DEF Counted
<1>6. entry[k].n \in Nat /\ entry[k].n <= MaxDeliver
  <2>1. entry[k] \in Entry BY DEF Types
  <2>2. \A e \in Entry : e.n \in Nat /\ e.n <= MaxDeliver BY OutboxAssumption DEF Entry
  <2> QED BY <2>1, <2>2
<1>7. h[<<w, k>>] \in 1..MaxDeliver /\ h[<<w, k>>] <= entry[k].n
  BY <1>5, <1>6, OutboxAssumption
<1> QED BY <1>2, <1>3, <1>5, <1>7

\* A receipt uses up the number of the delivery it is written for.
LEMMA PersistKeeps == ASSUME OutboxInv, NEW w \in Workers, Persist(w) PROVE OutboxInv'
<1>1. /\ receipts' = [receipts EXCEPT ![log[First(w)]] = @ + 1]
      /\ saved' = [saved EXCEPT ![w] = TRUE]
      /\ UNCHANGED <<rows, work, wire, log, entry, inbox>>
  BY DEF Persist, broker
<1>2. PICK T, h : Counted(T, h) BY DEF OutboxInv, Tokens
<1>3. /\ First(w) \in inbox[w] /\ First(w) \in 1..Len(log)
      /\ h[<<w, First(w)>>] \in 1..MaxDeliver /\ h[<<w, First(w)>>] <= entry[First(w)].n
      /\ <<First(w), h[<<w, First(w)>>]>> \notin T
      /\ \A v \in Workers : v # w /\ Unsaved(v, First(w))
                               => h[<<v, First(w)>>] # h[<<w, First(w)>>]
  BY <1>2, Numbered DEF OutboxInv
<1>4. PICK k \in 1..Len(log) : k = First(w) /\ k \in inbox[w] BY <1>3
<1>5. PICK n \in 1..MaxDeliver :
         /\ n = h[<<w, k>>] /\ n <= entry[k].n /\ <<k, n>> \notin T
         /\ \A v \in Workers : v # w /\ Unsaved(v, k) => h[<<v, k>>] # n
  BY <1>3, <1>4
<1>6. PICK m \in Msgs : m = log[k] BY DEF OutboxInv, Types
<1>7. Types'
  <2>1. receipts' \in [Msgs -> Nat] BY <1>1, <1>4, <1>6 DEF OutboxInv, Types
  <2>2. saved' \in [Workers -> BOOLEAN] BY <1>1 DEF OutboxInv, Types
  <2> QED BY <1>1, <2>1, <2>2 DEF OutboxInv, Types, rows
<1>8. Grows BY <1>1 DEF Grows, Live, Stored, rows
<1>9. Sent' /\ Backed' BY <1>1, <1>8, SentKept DEF OutboxInv, Backed, Stored, rows
<1>10. \A v \in Workers : Fits(v, work[v])' BY <1>1, <1>8, RowsMove DEF rows
<1> DEFINE U == T \cup {<<k, n>>}
<1>11. /\ T \subseteq (1..Len(log)) \X (1..MaxDeliver) /\ IsFiniteSet(T)
       /\ \A t \in T : t[2] <= entry[t[1]].n
       /\ \A q \in Msgs : receipts[q] = Cardinality({t \in T : log[t[1]] = q})
       /\ h \in [Workers \X Nat -> Nat]
  BY <1>2 DEF Counted
<1>12. U \subseteq (1..Len(log)) \X (1..MaxDeliver) /\ IsFiniteSet(U)
       /\ \A t \in U : t[2] <= entry[t[1]].n
  <2>1. IsFiniteSet(U) BY <1>11, FS_AddElement
  <2>2. ASSUME NEW t \in U PROVE t \in (1..Len(log)) \X (1..MaxDeliver) /\ t[2] <= entry[t[1]].n
    <3>1. CASE t \in T BY <1>11, <3>1
    <3>2. CASE t = <<k, n>>
      <4>1. t[1] = k /\ t[2] = n BY <3>2
      <4>2. t \in (1..Len(log)) \X (1..MaxDeliver) BY <3>2
      <4> QED BY <1>5, <4>1, <4>2
    <3> QED BY <3>1, <3>2
  <2> QED BY <2>1, <2>2
<1>13. ASSUME NEW q \in Msgs PROVE receipts'[q] = Cardinality({t \in U : log[t[1]] = q})
  <2> DEFINE A == {t \in T : log[t[1]] = q}
             B == {t \in U : log[t[1]] = q}
  <2>1. receipts[q] = Cardinality(A) /\ receipts \in [Msgs -> Nat]
    BY <1>11 DEF OutboxInv, Types
  <2>2. IsFiniteSet(A) BY <1>11, FS_Subset
  <2>3. CASE q = m
    <3>1. B = A \cup {<<k, n>>} BY <1>6, <2>3
    <3>2. <<k, n>> \notin A BY <1>5
    <3>3. Cardinality(A \cup {<<k, n>>}) = Cardinality(A) + 1 BY <2>2, <3>2, FS_AddElement
    <3>4. receipts'[q] = receipts[q] + 1 BY <1>1, <1>4, <1>6, <2>1, <2>3
    <3> QED BY <2>1, <3>1, <3>3, <3>4
  <2>4. CASE q # m
    <3>1. B = A BY <1>6, <2>4
    <3>2. receipts'[q] = receipts[q] BY <1>1, <1>4, <1>6, <2>1, <2>4
    <3> QED BY <2>1, <3>1, <3>2
  <2> QED BY <2>3, <2>4
<1>14. \A v \in Workers, i \in 1..Len(log) :
          /\ Unsaved(v, i)' => Unsaved(v, i)
          /\ Unsaved(v, i)' /\ i = k => v # w
  <2>1. \A v \in Workers : First(v)' = First(v) BY <1>1 DEF First
  <2>2. saved \in [Workers -> BOOLEAN] BY DEF OutboxInv, Types
  <2>3. \A v \in Workers : v # w => saved'[v] = saved[v] BY <1>1, <2>2
  <2>4. saved'[w] = TRUE BY <1>1, <2>2
  <2>5. ~saved[w] BY DEF Persist
  <2> QED BY <1>1, <1>4, <2>1, <2>3, <2>4, <2>5 DEF Unsaved
<1>15. ASSUME NEW v \in Workers, NEW i \in 1..Len(log), Unsaved(v, i)'
       PROVE  /\ h[<<v, i>>] \in 1..entry[i].n /\ <<i, h[<<v, i>>]>> \notin U
              /\ \A u \in Workers : u # v /\ Unsaved(u, i)' => h[<<u, i>>] # h[<<v, i>>]
  <2>1. /\ h[<<v, i>>] \in 1..entry[i].n /\ <<i, h[<<v, i>>]>> \notin T
        /\ \A u \in Workers : u # v /\ Unsaved(u, i)' => h[<<u, i>>] # h[<<v, i>>]
    BY <1>2, <1>14, <1>15 DEF Counted
  <2>2. i = k => h[<<v, i>>] # n BY <1>5, <1>14, <1>15
  <2>3. <<i, h[<<v, i>>]>> # <<k, n>> BY <2>2
  <2> QED BY <2>1, <2>3
<1>16. Counted(U, h)' 
  <2> HIDE DEF U
  <2> QED BY <1>1, <1>11, <1>12, <1>13, <1>15 DEF Counted
<1>17. Tokens' BY <1>16 DEF Tokens
<1> QED BY <1>7, <1>9, <1>10, <1>17 DEF OutboxInv

\* Every step keeps the invariant.
LEMMA OutboxStep == OutboxInv /\ [Next]_vars => OutboxInv'
<1> SUFFICES ASSUME OutboxInv, [Next]_vars PROVE OutboxInv' OBVIOUS
<1>1. CASE UNCHANGED vars
  <2>1. UNCHANGED <<rows, wire, log, receipts, work, inbox, saved, entry>> BY <1>1 DEF vars, rows
  <2>2. \A w \in Workers, i \in 1..Len(log) : Unsaved(w, i)' => Unsaved(w, i)
    BY <2>1 DEF Unsaved, First
  <2> QED BY <2>1, <2>2, ConsumerMoves DEF OutboxInv, Types
<1>2. CASE Next
  BY <1>2, ProducersKeep, ClaimKeeps, SendKeeps, WorkerKeeps, MarkKeeps, DisconnectKeeps,
     EmptiesKeep, StoreKeeps, FetchKeeps, PersistKeeps, HandledKeeps
     DEF Next
<1> QED BY <1>1, <1>2

\* Nothing is enqueued, sent or stored at first.
LEMMA OutboxInitially == Init => OutboxInv
<1> SUFFICES ASSUME Init PROVE OutboxInv OBVIOUS
<1>1. Idle \in Work /\ Idle.pc = "idle" /\ Idle.batch = {} /\ Idle.got = FALSE /\ Idle.result = "none"
  BY DEF Idle, Work
<1>2. Types
  <2>1. wire \in [Workers -> Seq(Jobs)] /\ log \in Seq(Msgs) /\ entry \in Seq(Entry)
        /\ Len(log) = 0 /\ Len(entry) = 0
    BY DEF Init
  <2> QED BY <1>1, <2>1 DEF Init, Types, Statuses
<1>3. Sent /\ Backed BY DEF Init, Sent, Backed
<1>4. \A w \in Workers : Fits(w, work[w]) BY <1>1 DEF Init, Fits
<1>5. Tokens
  <2> DEFINE h == [p \in Workers \X Nat |-> 0]
  <2>1. Cardinality({}) = 0 /\ IsFiniteSet({}) BY FS_EmptySet
  <2>2. \A m : {t \in {} : log[t[1]] = m} = {} OBVIOUS
  <2>3. \A w \in Workers, i \in 1..Len(log) : ~Unsaved(w, i) BY DEF Init, Unsaved
  <2>4. h \in [Workers \X Nat -> Nat] OBVIOUS
  <2>5. \A m \in Msgs : receipts[m] = Cardinality({t \in {} : log[t[1]] = m})
    BY <2>1, <2>2 DEF Init
  <2> HIDE DEF h
  <2>6. Counted({}, h) BY <2>1, <2>3, <2>4, <2>5 DEF Counted
  <2> QED BY <2>6 DEF Tokens
<1> QED BY <1>2, <1>3, <1>4, <1>5 DEF OutboxInv

-----------------------------------------------------------------------------
(* The outbox keeps the promise of Delivery *)

\* The messages as Delivery sees them: the values the INSTANCE gives its variables.
View(x) == CASE x \in {"none", "open"} -> "none"
             [] x \in Unfinished -> "owed"
             [] x = "published" -> "published"
             [] OTHER -> "given_up"
State == [m \in Msgs |-> View(status[m])]
Places(m) == {i \in DOMAIN log : log[i] = m}
Copies == [m \in Msgs |-> Cardinality(Places(m))]
PromiseKept == UNCHANGED <<State, Copies, receipts>> \/ D!DeliveryNext

\* What Delivery says of a step, in terms of the outbox.
LEMMA PromiseStep ==
    ASSUME NEW m \in Msgs,
           \/ /\ State[m] = "none" /\ State' = [State EXCEPT ![m] = "owed"]
              /\ UNCHANGED <<Copies, receipts>>
           \/ /\ State[m] \in {"owed", "given_up"} /\ Copies[m] > 0
              /\ State' = [State EXCEPT ![m] = "published"]
              /\ UNCHANGED <<Copies, receipts>>
           \/ /\ State[m] = "owed" /\ State' = [State EXCEPT ![m] = "given_up"]
              /\ UNCHANGED <<Copies, receipts>>
           \/ /\ Cardinality(Workers) > 1
              /\ State[m] = "given_up" /\ State' = [State EXCEPT ![m] = "owed"]
              /\ UNCHANGED <<Copies, receipts>>
           \/ /\ State[m] # "none" /\ Copies' = [Copies EXCEPT ![m] = @ + 1]
              /\ UNCHANGED <<State, receipts>>
           \/ /\ receipts[m] < MaxDeliver * Copies[m]
              /\ receipts' = [receipts EXCEPT ![m] = @ + 1]
              /\ UNCHANGED <<State, Copies>>
    PROVE  D!DeliveryNext
BY DEF D!DeliveryNext, D!Owe, D!Publish, D!GiveUp, D!Reopen, D!Arrive, D!Receive, D!Becomes,
       State, View, Copies, Places

\* A step on one row moves the message as the row's status says.
LEMMA OneRow ==
    ASSUME Types, NEW m \in Msgs, NEW x \in Statuses, status' = [status EXCEPT ![m] = x],
           UNCHANGED <<log, receipts>>
    PROVE  /\ State' = [State EXCEPT ![m] = View(x)] /\ State[m] = View(status[m])
           /\ View(x) = View(status[m]) => State' = State
           /\ UNCHANGED <<Copies, receipts>>
<1>1. status \in [Msgs -> Statuses] BY DEF Types
<1>2. State \in [Msgs -> {View(y) : y \in Statuses}] /\ DOMAIN State' = Msgs BY <1>1 DEF State
<1>3. \A k \in Msgs : State'[k] = IF k = m THEN View(x) ELSE State[k] BY <1>1 DEF State
<1>4. State[m] = View(status[m]) BY DEF State
<1>5. State' = [k \in Msgs |-> View(status'[k])] /\ State = [k \in Msgs |-> View(status[k])] BY DEF State
<1>6. State' = [State EXCEPT ![m] = View(x)] BY <1>1, <1>5
<1>7. View(x) = View(status[m]) => State' = State BY <1>1, <1>5
<1>8. UNCHANGED Copies BY DEF Copies, Places
<1> QED BY <1>4, <1>6, <1>7, <1>8

\* The values of View.
LEMMA Views ==
    /\ View("none") = "none" /\ View("open") = "none"
    /\ View("pending") = "owed" /\ View("publishing") = "owed"
    /\ View("published") = "published" /\ View("dead_letter") = "given_up"
BY DEF View, Unfinished

\* A commit owes the message; nothing else the producers do is seen.
LEMMA ProducersPromise ==
    ASSUME OutboxInv, NEW m \in Msgs, Enqueue(m) \/ Commit(m) \/ Rollback(m)
    PROVE  PromiseKept
<1>1. Types BY DEF OutboxInv
<1>2. CASE Enqueue(m)
  <2>1. status[m] = "none" /\ status' = [status EXCEPT ![m] = "open"] /\ UNCHANGED <<log, receipts>>
    BY <1>2 DEF Enqueue, elsewhere
  <2>2. State' = State /\ UNCHANGED <<Copies, receipts>>
    BY <1>1, <2>1, OneRow, Views DEF Statuses
  <2> QED BY <2>2 DEF PromiseKept
<1>3. CASE Rollback(m)
  <2>1. status[m] = "open" /\ status' = [status EXCEPT ![m] = "none"] /\ UNCHANGED <<log, receipts>>
    BY <1>3 DEF Rollback, elsewhere
  <2>2. State' = State /\ UNCHANGED <<Copies, receipts>>
    BY <1>1, <2>1, OneRow, Views DEF Statuses
  <2> QED BY <2>2 DEF PromiseKept
<1>4. CASE Commit(m)
  <2>1. /\ status[m] = "open" /\ status' = [status EXCEPT ![m] = "pending"]
        /\ UNCHANGED <<log, receipts>>
    BY <1>4 DEF Commit, elsewhere
  <2>2. /\ State[m] = "none" /\ State' = [State EXCEPT ![m] = "owed"]
        /\ UNCHANGED <<Copies, receipts>>
    BY <1>1, <2>1, OneRow, Views DEF Statuses
  <2> QED BY <2>2, PromiseStep DEF PromiseKept
<1> QED BY <1>2, <1>3, <1>4

\* A claim moves rows between pending and publishing: the messages stay owed.
LEMMA ClaimPromise == ASSUME OutboxInv, NEW w \in Workers, Claim(w) PROVE PromiseKept
<1>1. PICK F \in Lapsed, S \in SUBSET Msgs :
         /\ \A m \in S : Released(F)[m] = "pending"
         /\ status' = [m \in Msgs |-> IF m \in S THEN "publishing" ELSE Released(F)[m]]
  <2>1. PICK F \in Lapsed, U \in SUBSET waiting :
           LET S == Selected(Candidates(Released(F), waiting \ U))
           IN  status' = [m \in Msgs |-> IF m \in S THEN "publishing" ELSE Released(F)[m]]
    BY DEF Claim
  <2>2. LET S == Selected(Candidates(Released(F), waiting \ U))
        IN  S \in SUBSET Msgs /\ \A m \in S : Released(F)[m] = "pending"
    BY DEF Selected, Candidates, Eligible
  <2> QED BY <2>1, <2>2
<1>2. UNCHANGED <<log, receipts>> BY DEF Claim, broker, consumer
<1>3. ASSUME NEW m \in Msgs PROVE View(status'[m]) = View(status[m])
  <2>1. Released(F)[m] = status[m] \/ (status[m] = "publishing" /\ Released(F)[m] = "pending")
    BY <1>1 DEF Lapsed, Released
  <2>2. \/ status'[m] = status[m]
        \/ status[m] \in {"pending", "publishing"} /\ status'[m] \in {"pending", "publishing"}
    BY <1>1, <2>1
  <2> QED BY <2>2, Views
<1>4. State' = State BY <1>3 DEF State
<1>5. Copies' = Copies BY <1>2 DEF Copies, Places
<1> QED BY <1>2, <1>4, <1>5 DEF PromiseKept

\* A second worker makes more than one.
LEMMA TwoWorkers ==
    ASSUME NEW v \in Workers, NEW w \in Workers, v # w
    PROVE  Cardinality(Workers) > 1
<1>1. IsFiniteSet({w}) /\ Cardinality({w}) = 1 BY FS_Singleton
<1>2. IsFiniteSet({w} \cup {v}) /\ Cardinality({w} \cup {v}) = 2 BY <1>1, FS_AddElement
<1>3. {w} \cup {v} \subseteq Workers OBVIOUS
<1>4. Cardinality({w} \cup {v}) <= Cardinality(Workers) /\ Cardinality(Workers) \in Nat
  BY <1>3, OutboxAssumption, FS_Subset, FS_CardinalityType
<1> QED BY <1>2, <1>4

\* What is in the stream has a copy there.
LEMMA StoredCopies ==
    ASSUME Types, NEW m \in Msgs
    PROVE  /\ IsFiniteSet(Places(m)) /\ Copies[m] = Cardinality(Places(m)) /\ Copies[m] \in Nat
           /\ m \in Stored => Copies[m] > 0
<1>1. DOMAIN log = 1..Len(log) /\ Len(log) \in Nat BY DEF Types
<1>2. IsFiniteSet(1..Len(log)) BY <1>1, FS_Interval
<1>3. Places(m) \subseteq 1..Len(log) BY <1>1 DEF Places
<1>4. IsFiniteSet(Places(m)) BY <1>2, <1>3, FS_Subset
<1>5. Copies[m] = Cardinality(Places(m)) BY DEF Copies
<1>6. Cardinality(Places(m)) \in Nat BY <1>4, FS_CardinalityType
<1>7. ASSUME m \in Stored PROVE Copies[m] > 0
  <2>1. Places(m) # {} BY <1>7 DEF Stored, Places
  <2>2. Cardinality(Places(m)) # 0 BY <1>4, <2>1, FS_EmptySet
  <2> QED BY <1>5, <1>6, <2>2
<1> QED BY <1>4, <1>5, <1>6, <1>7

\* mark_*: a row is published, given up, or owed as before; only the late mark of a second
\* worker takes a given up row up again.
LEMMA MarkPromise ==
    ASSUME OutboxInv, NEW w \in Workers,
           MarkPublished(w) \/ MarkFailed(w) \/ MarkDeadLetter(w)
    PROVE  PromiseKept
<1>1. PICK st \in {"published", "pending", "dead_letter"} :
         /\ Mark(w, st) /\ work[w].pc # "idle"
         /\ st = "published" => work[w].pc = "mark" /\ work[w].result = "published"
  BY DEF MarkPublished, MarkFailed, MarkDeadLetter
<1>2. /\ Fits(w, work[w]) /\ Current(w) = Oldest(work[w].batch)
      /\ Current(w) \in work[w].batch /\ Current(w)[1] \in Msgs /\ Live(Current(w)[1])
  BY <1>1, SameBatch DEF Fits
<1>3. PICK m \in Msgs :
         /\ m = Current(w)[1] /\ Live(m)
         /\ status[m] = "publishing" \/ \E v \in Workers : v # w
  BY <1>2 DEF Fits
<1>4. /\ status' = IF Markable(m) THEN [status EXCEPT ![m] = st] ELSE status
      /\ UNCHANGED <<log, receipts>>
  BY <1>1, <1>3 DEF Mark, broker, consumer
<1>5. Types /\ st \in Statuses BY DEF OutboxInv, Statuses
<1>6. CASE ~Markable(m)
  <2>1. State' = State /\ Copies' = Copies BY <1>4, <1>6 DEF State, Copies, Places
  <2> QED BY <1>4, <2>1 DEF PromiseKept
<1>7. CASE Markable(m)
  <2>1. status' = [status EXCEPT ![m] = st] BY <1>4, <1>7
  <2>2. /\ State' = [State EXCEPT ![m] = View(st)] /\ State[m] = View(status[m])
        /\ View(st) = View(status[m]) => State' = State
        /\ UNCHANGED <<Copies, receipts>>
    BY <1>4, <1>5, <2>1, OneRow
  <2>3. status[m] \in {"pending", "publishing", "dead_letter"} BY <1>3, <1>7 DEF Live, Markable
  <2>4. CASE st = "published"
    <3>1. m \in Stored BY <1>1, <1>2, <1>3, <2>4 DEF Fits
    <3>2. Copies[m] > 0 BY <1>5, <3>1, StoredCopies
    <3>3. State[m] \in {"owed", "given_up"} BY <2>2, <2>3, Views
    <3> QED BY <2>2, <2>4, <3>2, <3>3, Views, PromiseStep DEF PromiseKept
  <2>5. CASE View(st) = View(status[m]) BY <2>2, <2>5 DEF PromiseKept
  <2>6. CASE st = "pending" /\ status[m] = "dead_letter"
    <3>1. Cardinality(Workers) > 1 BY <1>3, <2>6, TwoWorkers
    <3> QED BY <2>2, <2>6, <3>1, Views, PromiseStep DEF PromiseKept
  <2>7. CASE st = "dead_letter" /\ status[m] \in {"pending", "publishing"}
    BY <2>2, <2>7, Views, PromiseStep DEF PromiseKept
  <2> QED BY <2>3, <2>4, <2>5, <2>6, <2>7, Views
<1> QED BY <1>6, <1>7

\* What the broker stores was committed; one copy arrives.
LEMMA StorePromise == ASSUME OutboxInv, NEW w \in Workers, Store(w) PROVE PromiseKept
<1>1. PICK s \in Seq(Jobs) : s = wire[w] /\ s # <<>> BY DEF OutboxInv, Types, Store
<1>2. PICK m \in Msgs : m = Head(s)[1] /\ Live(m)
  <2>1. Len(s) \in Nat \ {0} /\ Head(s) = s[1] /\ 1 \in DOMAIN s BY <1>1
  <2>2. Head(s) \in Jobs /\ Live(Head(s)[1]) BY <1>1, <2>1 DEF OutboxInv, Sent
  <2>3. Head(s)[1] \in Msgs BY <2>2 DEF Jobs
  <2> QED BY <2>2, <2>3
<1>3. /\ UNCHANGED log \/ log' = Append(log, m)
      /\ UNCHANGED <<status, receipts>>
  BY <1>1, <1>2 DEF Store, consumer, rows
<1>4. State' = State BY <1>3 DEF State
<1>5. CASE UNCHANGED log
  <2>1. Copies' = Copies BY <1>5 DEF Copies, Places
  <2> QED BY <1>3, <1>4, <2>1 DEF PromiseKept
<1>6. CASE log' = Append(log, m)
  <2> DEFINE n == Len(log) + 1
  <2>1. /\ log \in Seq(Msgs) /\ Len(log) \in Nat /\ DOMAIN log = 1..Len(log)
        /\ DOMAIN log' = 1..n /\ log'[n] = m
        /\ \A i \in 1..Len(log) : log'[i] = log[i]
    BY <1>6 DEF OutboxInv, Types
  <2>2. n \notin 1..Len(log) /\ \A i : i \in 1..n <=> i \in 1..Len(log) \/ i = n BY <2>1
  <2>3. Types BY DEF OutboxInv
  <2> HIDE DEF n
  <2>4. ASSUME NEW k \in Msgs, k # m PROVE Copies'[k] = Copies[k]
    <3>1. Places(k)' = Places(k) BY <2>1, <2>2, <2>4 DEF Places
    <3> QED BY <3>1 DEF Copies
  <2>5. Copies'[m] = Copies[m] + 1
    <3>1. Places(m)' = Places(m) \cup {n} /\ n \notin Places(m) BY <2>1, <2>2 DEF Places
    <3>2. IsFiniteSet(Places(m)) BY <2>3, StoredCopies
    <3>3. Cardinality(Places(m)') = Cardinality(Places(m)) + 1 BY <3>1, <3>2, FS_AddElement
    <3> QED BY <3>3 DEF Copies
  <2>6. Copies' = [Copies EXCEPT ![m] = @ + 1]
    <3>1. \A k \in Msgs : Copies'[k] = IF k = m THEN Copies[m] + 1 ELSE Copies[k] BY <2>4, <2>5
    <3>2. Copies' = [k \in Msgs |-> Copies'[k]] /\ Copies = [k \in Msgs |-> Copies[k]]
      BY DEF Copies
    <3> QED BY <3>1, <3>2
  <2>7. State[m] # "none" BY <1>2, Views DEF State, Live
  <2> QED BY <1>3, <1>4, <2>6, <2>7, PromiseStep DEF PromiseKept
<1> QED BY <1>3, <1>5, <1>6

\* A product of two finite sets.
LEMMA ProductBound ==
    ASSUME NEW A, IsFiniteSet(A), NEW n \in Nat
    PROVE  /\ IsFiniteSet(A \X (1..n))
           /\ Cardinality(A \X (1..n)) = n * Cardinality(A)
<1>1. IsFiniteSet(1..n) /\ Cardinality(1..n) = n BY FS_Interval
<1>2. /\ IsFiniteSet(A \X (1..n))
      /\ Cardinality(A \X (1..n)) = Cardinality(A) * Cardinality(1..n)
  BY <1>1, FS_Product
<1>3. Cardinality(A) \in Nat BY FS_CardinalityType
<1>4. \A a, b \in Nat : a * b = b * a OBVIOUS
<1> QED BY <1>1, <1>2, <1>3, <1>4

\* persist_nats_receipt: the receipts were fewer than the deliveries the copies allow.
LEMMA PersistPromise == ASSUME OutboxInv, NEW w \in Workers, Persist(w) PROVE PromiseKept
<1>1. /\ receipts' = [receipts EXCEPT ![log[First(w)]] = @ + 1]
      /\ UNCHANGED <<status, log>>
  BY DEF Persist, broker, rows
<1>2. PICK T, h : Counted(T, h) BY DEF OutboxInv, Tokens
<1>3. /\ First(w) \in 1..Len(log) /\ h[<<w, First(w)>>] \in 1..MaxDeliver
      /\ <<First(w), h[<<w, First(w)>>]>> \notin T
  BY <1>2, Numbered DEF OutboxInv
<1>4. PICK k \in 1..Len(log), n \in 1..MaxDeliver : k = First(w) /\ <<k, n>> \notin T BY <1>3
<1>5. PICK m \in Msgs : m = log[k] BY DEF OutboxInv, Types
<1>6. State' = State /\ Copies' = Copies BY <1>1 DEF State, Copies, Places
<1>7. receipts[m] < MaxDeliver * Copies[m]
  <2> DEFINE A == {t \in T : log[t[1]] = m}
             P == Places(m) \X (1..MaxDeliver)
  <2>1. /\ T \subseteq (1..Len(log)) \X (1..MaxDeliver) /\ IsFiniteSet(T)
        /\ receipts[m] = Cardinality(A)
    BY <1>2 DEF Counted
  <2>2. IsFiniteSet(A) BY <2>1, FS_Subset
  <2>3. <<k, n>> \notin A BY <1>4
  <2>4. IsFiniteSet(A \cup {<<k, n>>}) /\ Cardinality(A \cup {<<k, n>>}) = Cardinality(A) + 1
    BY <2>2, <2>3, FS_AddElement
  <2>5. DOMAIN log = 1..Len(log) BY DEF OutboxInv, Types
  <2>6. A \cup {<<k, n>>} \subseteq P
    <3>1. <<k, n>> \in P BY <1>5, <2>5 DEF Places
    <3>2. ASSUME NEW t \in A PROVE t \in P
      <4>1. t \in (1..Len(log)) \X (1..MaxDeliver) /\ log[t[1]] = m BY <2>1
      <4>2. t[1] \in Places(m) BY <2>5, <4>1 DEF Places
      <4> QED BY <4>1, <4>2
    <3> QED BY <3>1, <3>2
  <2>7. MaxDeliver \in Nat BY OutboxAssumption
  <2>8. IsFiniteSet(Places(m)) /\ Copies[m] = Cardinality(Places(m))
    BY StoredCopies DEF OutboxInv
  <2>9. IsFiniteSet(P) /\ Cardinality(P) = MaxDeliver * Copies[m] BY <2>7, <2>8, ProductBound
  <2> HIDE DEF A, P
  <2>10. Cardinality(A \cup {<<k, n>>}) <= Cardinality(P) BY <2>6, <2>9, FS_Subset
  <2>11. Cardinality(A) \in Nat /\ Cardinality(P) \in Nat BY <2>2, <2>9, FS_CardinalityType
  <2> QED BY <2>1, <2>4, <2>9, <2>10, <2>11
<1>8. receipts' = [receipts EXCEPT ![m] = @ + 1] BY <1>1, <1>4, <1>5
<1> QED BY <1>6, <1>7, <1>8, PromiseStep DEF PromiseKept

\* Every step is a step of Delivery, or leaves what Delivery sees alone.
LEMMA PromiseKeeps == OutboxInv /\ [Next]_vars => [D!DeliveryNext]_(D!deliveryVars)
<1> SUFFICES ASSUME OutboxInv, [Next]_vars PROVE PromiseKept
  BY DEF PromiseKept, D!deliveryVars, State, View, Copies, Places
<1>1. ASSUME UNCHANGED <<status, log, receipts>> PROVE PromiseKept
  <2>1. State' = State /\ Copies' = Copies BY <1>1 DEF State, Copies, Places
  <2> QED BY <1>1, <2>1 DEF PromiseKept
<1>2. CASE UNCHANGED vars BY <1>1, <1>2 DEF vars
<1>3. ASSUME NEW w \in Workers,
             \/ Send(w) \/ NotConnected(w) \/ Acked(w) \/ TimedOut(w) \/ CycleFails(w)
             \/ Disconnect(w) \/ Connect(w) \/ Crash(w)
             \/ Fetch(w) \/ Nak(w) \/ Ack(w) \/ AckLost(w) \/ ConsumerEnds(w)
      PROVE  UNCHANGED <<status, log, receipts>>
  BY <1>3 DEF Send, NotConnected, Acked, TimedOut, CycleFails, Disconnect, Connect, Crash, Fetch,
              Nak, Ack, AckLost, ConsumerEnds, Handled, rows, broker, consumer
<1>4. CASE Next
  BY <1>1, <1>3, <1>4, ProducersPromise, ClaimPromise, MarkPromise, StorePromise, PersistPromise
     DEF Next
<1> QED BY <1>2, <1>4

\* The first state is the first state of Delivery.
LEMMA PromiseInitially == Init => D!DeliveryInit
<1> SUFFICES ASSUME Init PROVE D!DeliveryInit OBVIOUS
<1>1. \A m \in Msgs : Places(m) = {} BY DEF Init, Places
<1>2. Copies = [m \in Msgs |-> 0] BY <1>1, FS_EmptySet DEF Copies
<1>3. State = [m \in Msgs |-> "none"] BY Views DEF Init, State
<1> QED BY <1>2, <1>3 DEF Init, D!DeliveryInit, State, View, Copies, Places

-----------------------------------------------------------------------------
(* The order of the stream *)

\* The contract: one worker publishes.
OneWorker == \A v, w \in Workers : v = w

\* k committed before m of the same aggregate was created.
Before(k, m) == Agg[k] = Agg[m] /\ committed[k] # 0 /\ committed[k] < created[m]

\* One worker takes back neither.
Final(k) == status[k] \in {"published", "dead_letter"}

Ticks ==
    /\ committed \in [Msgs -> Nat]
    /\ \A m \in Msgs : created[m] < clock /\ committed[m] < clock
    /\ \A m \in Msgs : committed[m] # 0 => Live(m) /\ created[m] < committed[m]

\* What a worker holds, what is on the wire and what is stored was claimed.
Claimed ==
    /\ \A m \in Msgs : attempts[m] > 0 => Live(m)
    /\ \A w \in Workers : \A j \in work[w].batch : attempts[j[1]] > 0
    /\ \A w \in Workers : \A i \in DOMAIN wire[w] : attempts[wire[w][i][1]] > 0
    /\ \A i \in DOMAIN log : attempts[log[i]] > 0

\* The predecessor fence of claim_pending, from the claim on
Fence == \A k, m \in Msgs : Before(k, m) /\ attempts[m] > 0 => Final(k)

\* On the wire no message comes before one that it waits for.
WireOrder ==
    \A w \in Workers : \A i, j \in DOMAIN wire[w] :
       Before(wire[w][j][1], wire[w][i][1]) => j < i

OnWire(k) == \E w \in Workers : \E i \in DOMAIN wire[w] : wire[w][i][1] = k

\* What a stored message waits for is stored before it or never comes.
LogOrder ==
    \A i \in DOMAIN log : \A k \in Msgs : Before(k, log[i]) =>
       (\E j \in 1..(i - 1) : log[j] = k) \/ (k \notin Stored /\ ~OnWire(k))

OrderInv == Ticks /\ Claimed /\ Fence /\ WireOrder /\ LogOrder

\* A step that sends and stores nothing and takes back no row.
LEMMA OrderKept ==
    ASSUME OutboxInv, OrderInv, UNCHANGED <<created, committed, attempts, clock, wire, log>>,
           \A m \in Msgs : (Live(m) => Live(m)') /\ (Final(m) => Final(m)'),
           \A w \in Workers : work'[w].batch \subseteq work[w].batch
    PROVE  OrderInv'
<1>1. Ticks' BY DEF OrderInv, Ticks
<1>2. Claimed' BY DEF OrderInv, Claimed
<1>3. \A k, m : Before(k, m)' <=> Before(k, m) BY DEF Before
<1>4. Fence' BY <1>3 DEF OrderInv, Fence
<1>5. WireOrder' BY <1>3 DEF OrderInv, WireOrder
<1>6. LogOrder' BY <1>3 DEF OrderInv, LogOrder, Stored, OnWire
<1> QED BY <1>1, <1>2, <1>4, <1>5, <1>6 DEF OrderInv

\* The transactions that enqueue: a new row waits for those that have committed, and a row
\* commits after every row there is was created.
LEMMA ProducersOrder ==
    ASSUME OutboxInv, OrderInv, NEW m \in Msgs, Enqueue(m) \/ Commit(m) \/ Rollback(m)
    PROVE  OrderInv'
<1>1. /\ status \in [Msgs -> Statuses] /\ created \in [Msgs -> Nat] /\ clock \in Nat
      /\ committed \in [Msgs -> Nat]
      /\ \A k \in Msgs : created[k] < clock /\ committed[k] < clock
  BY DEF OutboxInv, Types, OrderInv, Ticks
<1>2. status[m] \in {"none", "open"} /\ UNCHANGED <<attempts, work, wire, log>>
  BY DEF Enqueue, Commit, Rollback, elsewhere
<1>3. ~Live(m) /\ ~Final(m) BY <1>2 DEF Live, Final
<1>4. committed[m] = 0 /\ ~(attempts[m] > 0)
  BY <1>3 DEF OrderInv, Ticks, Claimed
<1>5. \A k \in Msgs : k # m => /\ status'[k] = status[k] /\ created'[k] = created[k]
                              /\ committed'[k] = committed[k]
  BY <1>1 DEF Enqueue, Commit, Rollback
<1>6. /\ committed' \in [Msgs -> Nat] /\ clock' \in Nat /\ clock <= clock'
      /\ \/ created'[m] = created[m]
         \/ created'[m] = clock /\ committed'[m] = 0 /\ clock' = clock + 1
      /\ committed'[m] = 0 \/ (committed'[m] = clock /\ created'[m] = created[m]
                               /\ status'[m] = "pending" /\ clock' = clock + 1)
  BY <1>1, <1>4 DEF Enqueue, Commit, Rollback
<1>7. Ticks'
  <2>1. ASSUME NEW k \in Msgs
        PROVE  /\ created'[k] < clock' /\ committed'[k] < clock'
               /\ committed'[k] # 0 => Live(k)' /\ created'[k] < committed'[k]
    <3>1. CASE k = m
      <4>1. created'[m] < clock' /\ committed'[m] < clock' BY <1>1, <1>6
      <4>2. committed'[m] # 0 => Live(m)' /\ created'[m] < committed'[m] BY <1>1, <1>6 DEF Live
      <4> QED BY <3>1, <4>1, <4>2
    <3>2. CASE k # m BY <1>1, <1>5, <1>6, <3>2 DEF OrderInv, Ticks, Live
    <3> QED BY <3>1, <3>2
  <2> QED BY <1>6, <2>1 DEF Ticks
<1>8. Claimed' BY <1>2, <1>4, <1>5 DEF OrderInv, Claimed, Live
<1>9. \A k, n \in Msgs : n # m /\ Before(k, n)' => Before(k, n) /\ k # m
  <2> SUFFICES ASSUME NEW k \in Msgs, NEW n \in Msgs, n # m, Before(k, n)'
               PROVE  Before(k, n) /\ k # m
    OBVIOUS
  <2>1. committed'[k] # 0 /\ committed'[k] < created[n] /\ Agg[k] = Agg[n] BY <1>5 DEF Before
  <2>2. k # m BY <1>1, <1>6, <2>1
  <2> QED BY <1>5, <2>1, <2>2 DEF Before
<1>10. \A n \in Msgs : attempts[n] > 0 => n # m BY <1>4
<1>11. Fence'
  <2> SUFFICES ASSUME NEW k \in Msgs, NEW n \in Msgs, Before(k, n)', attempts'[n] > 0
               PROVE  Final(k)'
    BY DEF Fence
  <2>1. n # m /\ Before(k, n) /\ k # m BY <1>2, <1>9, <1>10
  <2>2. Final(k) BY <1>2, <2>1 DEF OrderInv, Fence
  <2> QED BY <1>5, <2>1, <2>2 DEF Final
<1>12. WireOrder'
  <2> SUFFICES ASSUME NEW w \in Workers, NEW i \in DOMAIN wire[w], NEW j \in DOMAIN wire[w],
                      Before(wire[w][j][1], wire[w][i][1])'
               PROVE  j < i
    BY <1>2 DEF WireOrder, Before
  <2>1. wire[w][i] \in Jobs /\ wire[w][j] \in Jobs BY DEF OutboxInv, Types
  <2>2. wire[w][i][1] \in Msgs /\ wire[w][j][1] \in Msgs BY <2>1 DEF Jobs
  <2>3. wire[w][i][1] # m BY <1>10, <2>2 DEF OrderInv, Claimed
  <2>4. Before(wire[w][j][1], wire[w][i][1]) BY <1>2, <1>9, <2>2, <2>3 DEF Before
  <2> QED BY <2>4 DEF OrderInv, WireOrder
<1>13. LogOrder'
  <2> SUFFICES ASSUME NEW i \in DOMAIN log, NEW k \in Msgs, Before(k, log[i])'
               PROVE  (\E j \in 1..(i - 1) : log[j] = k) \/ (k \notin Stored /\ ~OnWire(k))
    BY <1>2 DEF LogOrder, Stored, OnWire, Before
  <2>1. log[i] \in Msgs BY DEF OutboxInv, Types
  <2>2. log[i] # m BY <1>10, <2>1 DEF OrderInv, Claimed
  <2>3. Before(k, log[i]) BY <1>2, <1>9, <2>1, <2>2 DEF Before
  <2> QED BY <2>3 DEF OrderInv, LogOrder
<1> QED BY <1>7, <1>8, <1>11, <1>12, <1>13 DEF OrderInv

\* claim_pending takes a row when nothing it waits for is unfinished.
LEMMA ClaimOrder == ASSUME OutboxInv, OrderInv, NEW w \in Workers, Claim(w) PROVE OrderInv'
<1>1. PICK F \in Lapsed, U \in SUBSET waiting :
         LET S == Selected(Candidates(Released(F), waiting \ U))
         IN  /\ status' = [m \in Msgs |-> IF m \in S THEN "publishing" ELSE Released(F)[m]]
             /\ attempts' = [m \in Msgs |-> attempts[m] + IF m \in S THEN 1 ELSE 0]
             /\ work' = [work EXCEPT ![w] =
                            IF S = {} THEN Idle
                            ELSE [Idle EXCEPT !.pc = "batch",
                                              !.batch = {<<m, attempts[m] + 1>> : m \in S}]]
  BY DEF Claim
<1> DEFINE S == Selected(Candidates(Released(F), waiting \ U))
<1>2. UNCHANGED <<created, committed, clock, wire, log>> BY DEF Claim, broker
<1>3. /\ status \in [Msgs -> Statuses] /\ created \in [Msgs -> Nat] /\ attempts \in [Msgs -> Nat]
      /\ work \in [Workers -> Work] /\ committed \in [Msgs -> Nat]
  BY DEF OutboxInv, Types, OrderInv, Ticks
<1>4. \A m \in S : /\ m \in Msgs /\ Released(F)[m] = "pending"
                   /\ \A k \in Msgs : ~Blocks(k, m, Released(F), waiting \ U)
  BY DEF Selected, Candidates, Eligible
<1>5. \A m \in Msgs : Released(F)[m] = status[m]
                      \/ (status[m] = "publishing" /\ Released(F)[m] = "pending")
  BY DEF Lapsed, Released
<1>6. /\ status' = [m \in Msgs |-> IF m \in S THEN "publishing" ELSE Released(F)[m]]
      /\ attempts' = [m \in Msgs |-> attempts[m] + IF m \in S THEN 1 ELSE 0]
      /\ work' = [work EXCEPT ![w] =
                     IF S = {} THEN Idle
                     ELSE [Idle EXCEPT !.pc = "batch",
                                       !.batch = {<<m, attempts[m] + 1>> : m \in S}]]
  BY <1>1
<1> HIDE DEF S
<1>7. \A m \in Msgs : (Live(m) <=> Live(m)') /\ (Final(m) => Final(m)') /\ (m \in S => Live(m))
  BY <1>4, <1>5, <1>6 DEF Live, Final
<1>8. \A m \in Msgs : attempts'[m] >= attempts[m] /\ (m \in S => attempts'[m] > 0)
                      /\ (m \notin S => attempts'[m] = attempts[m]) /\ attempts'[m] \in Nat
  BY <1>3, <1>6
<1>9. \A k, m : Before(k, m)' <=> Before(k, m) BY <1>2 DEF Before
<1>10. Ticks' BY <1>2, <1>7 DEF OrderInv, Ticks
<1>11. Claimed'
  <2>1. \A m \in Msgs : attempts'[m] > 0 => Live(m)' BY <1>7, <1>8 DEF OrderInv, Claimed
  <2>2. ASSUME NEW v \in Workers, NEW j \in work'[v].batch PROVE attempts'[j[1]] > 0
    <3>1. CASE v = w /\ S # {}
      <4> DEFINE B == {<<m, attempts[m] + 1>> : m \in S}
      <4>1. work'[w] = [Idle EXCEPT !.pc = "batch", !.batch = B] BY <1>3, <1>6, <3>1
      <4>2. work'[w].batch = B BY <4>1 DEF Idle
      <4>3. j[1] \in S BY <3>1, <4>2
      <4> QED BY <1>4, <1>8, <4>3
    <3>2. CASE v = w /\ S = {}
      <4>1. work'[w] = Idle BY <1>3, <1>6, <3>2
      <4> QED BY <3>2, <4>1 DEF Idle
    <3>3. CASE v # w
      <4>1. work'[v] = work[v] BY <1>3, <1>6, <3>3
      <4>2. j \in work[v].batch /\ j \in Jobs BY <1>3, <4>1 DEF Work
      <4>3. j[1] \in Msgs /\ attempts[j[1]] > 0 BY <4>2 DEF Jobs, OrderInv, Claimed
      <4>4. PICK m \in Msgs : m = j[1] BY <4>3
      <4> QED BY <1>3, <1>8, <4>3, <4>4
    <3> QED BY <3>1, <3>2, <3>3
  <2>3. ASSUME NEW v \in Workers, NEW i \in DOMAIN wire[v] PROVE attempts'[wire[v][i][1]] > 0
    <3>1. wire[v][i] \in Jobs BY DEF OutboxInv, Types
    <3>2. PICK m \in Msgs : m = wire[v][i][1] BY <3>1 DEF Jobs
    <3>3. attempts[m] > 0 BY <3>2 DEF OrderInv, Claimed
    <3> QED BY <1>3, <1>8, <3>2, <3>3
  <2>4. ASSUME NEW i \in DOMAIN log PROVE attempts'[log[i]] > 0
    <3>1. PICK m \in Msgs : m = log[i] BY DEF OutboxInv, Types
    <3>2. attempts[m] > 0 BY <3>1 DEF OrderInv, Claimed
    <3> QED BY <1>3, <1>8, <3>1, <3>2
  <2> QED BY <1>2, <2>1, <2>2, <2>3, <2>4 DEF Claimed
<1>12. Fence'
  <2> SUFFICES ASSUME NEW k \in Msgs, NEW m \in Msgs, Before(k, m), attempts'[m] > 0
               PROVE  Final(k)'
    BY <1>9 DEF Fence
  <2>1. CASE m \in S
    <3>1. Live(k) /\ created[k] < committed[k] /\ committed[k] < created[m] /\ Agg[k] = Agg[m]
      BY DEF Before, OrderInv, Ticks
    <3>2. created[k] < created[m] BY <1>3, <3>1
    <3>3. Released(F)[k] \notin Unfinished BY <1>4, <2>1, <3>1, <3>2 DEF Blocks
    <3>4. Final(k) BY <1>5, <3>1, <3>3 DEF Live, Final, Unfinished
    <3> QED BY <1>7, <3>4
  <2>2. CASE m \notin S
    <3>1. attempts[m] > 0 BY <1>8, <2>2
    <3> QED BY <1>7, <3>1 DEF OrderInv, Fence
  <2> QED BY <2>1, <2>2
<1>13. WireOrder' /\ LogOrder'
  BY <1>2, <1>9 DEF OrderInv, WireOrder, LogOrder, Stored, OnWire
<1> QED BY <1>10, <1>11, <1>12, <1>13 DEF OrderInv

\* What is sent is not settled, so nothing on the wire waits for it.
LEMMA SendOrder ==
    ASSUME OutboxInv, OrderInv, OneWorker, NEW w \in Workers, Send(w)
    PROVE  OrderInv'
<1>1. /\ work[w].pc = "batch" /\ wire' = [wire EXCEPT ![w] = Append(@, Current(w))]
      /\ work' = [work EXCEPT ![w].pc = "sent"]
      /\ UNCHANGED <<status, created, committed, attempts, clock, log>>
  BY DEF Send, rows, broker
<1>2. /\ work \in [Workers -> Work] /\ wire \in [Workers -> Seq(Jobs)] /\ log \in Seq(Msgs)
  BY DEF OutboxInv, Types
<1>3. /\ Fits(w, work[w]) /\ Current(w) \in work[w].batch
      /\ Current(w) \in Jobs /\ Current(w)[1] \in Msgs
  BY <1>1, SameBatch DEF Fits
<1>4. PICK c \in Jobs, m \in Msgs : c = Current(w) /\ c[1] = m BY <1>3
<1>5. attempts[m] > 0 /\ status[m] = "publishing"
  BY <1>3, <1>4 DEF OneWorker, Fits, OrderInv, Claimed
<1>6. /\ wire'[w] = Append(wire[w], c) /\ Len(wire'[w]) = Len(wire[w]) + 1
      /\ DOMAIN wire'[w] = 1..(Len(wire[w]) + 1) /\ Len(wire[w]) \in Nat
      /\ DOMAIN wire[w] = 1..Len(wire[w]) /\ wire'[w][Len(wire[w]) + 1] = c
      /\ \A i \in DOMAIN wire[w] : wire'[w][i] = wire[w][i]
  BY <1>1, <1>2, <1>4
<1>7. \A v \in Workers : v = w BY DEF OneWorker
<1>8. \A k, n : Before(k, n)' <=> Before(k, n) BY <1>1 DEF Before
<1>9. \A v \in Workers : work'[v].batch = work[v].batch BY <1>1, <1>2 DEF Work
<1>10. \A i \in DOMAIN wire[w] : wire[w][i][1] \in Msgs /\ attempts[wire[w][i][1]] > 0
  <2>1. \A i \in DOMAIN wire[w] : wire[w][i] \in Jobs BY <1>2
  <2> QED BY <2>1 DEF Jobs, OrderInv, Claimed
<1>11. Claimed'
  <2>1. \A i \in DOMAIN wire'[w] : attempts[wire'[w][i][1]] > 0
    BY <1>4, <1>5, <1>6, <1>10
  <2> QED BY <1>1, <1>7, <1>9, <2>1 DEF OrderInv, Claimed, Live
<1>12. \A n \in Msgs : attempts[n] > 0 => ~Before(m, n)
  BY <1>5 DEF OrderInv, Fence, Final
<1>13. WireOrder'
  <2> SUFFICES ASSUME NEW i \in DOMAIN wire'[w], NEW j \in DOMAIN wire'[w],
                      Before(wire'[w][j][1], wire'[w][i][1])
               PROVE  j < i
    BY <1>7, <1>8 DEF WireOrder
  <2> DEFINE z == Len(wire[w]) + 1
  <2>1. i \in 1..z /\ j \in 1..z BY <1>6
  <2>2. CASE j = z
    <3>1. wire'[w][j][1] = m BY <1>4, <1>6, <2>2
    <3>2. wire'[w][i][1] \in Msgs /\ attempts[wire'[w][i][1]] > 0
      BY <1>4, <1>5, <1>6, <1>10, <2>1
    <3> QED BY <1>12, <3>1, <3>2
  <2>3. CASE j # z /\ i # z
    <3>1. i \in DOMAIN wire[w] /\ j \in DOMAIN wire[w] BY <1>6, <2>1, <2>3
    <3> QED BY <1>6, <3>1 DEF OrderInv, WireOrder
  <2>4. CASE j # z /\ i = z BY <1>6, <2>1, <2>4
  <2> QED BY <2>2, <2>3, <2>4
<1>14. LogOrder'
  <2> SUFFICES ASSUME NEW i \in DOMAIN log, NEW k \in Msgs, Before(k, log[i]),
                      ~\E j \in 1..(i - 1) : log[j] = k
               PROVE  k \notin Stored /\ ~OnWire(k)'
    BY <1>1, <1>8 DEF LogOrder, Stored
  <2>1. k \notin Stored /\ ~OnWire(k) BY DEF OrderInv, LogOrder
  <2>2. log[i] \in Msgs /\ attempts[log[i]] > 0 BY <1>2 DEF OrderInv, Claimed
  <2>3. k # m BY <1>12, <2>2
  <2>4. \A n \in DOMAIN wire[w] : wire[w][n][1] # k BY <2>1 DEF OnWire
  <2>5. \A n \in DOMAIN wire'[w] : wire'[w][n][1] # k BY <1>4, <1>6, <2>3, <2>4
  <2> QED BY <1>7, <2>1, <2>5 DEF OnWire
<1>15. Ticks' /\ Fence' BY <1>1, <1>8 DEF OrderInv, Ticks, Fence, Live, Final
<1> QED BY <1>11, <1>13, <1>14, <1>15 DEF OrderInv

\* With one worker only the row in hand is marked, and it is not settled.
LEMMA MarkOrder ==
    ASSUME OutboxInv, OrderInv, OneWorker, NEW w \in Workers,
           MarkPublished(w) \/ MarkFailed(w) \/ MarkDeadLetter(w)
    PROVE  OrderInv'
<1>1. PICK st \in {"published", "pending", "dead_letter"} : Mark(w, st) /\ work[w].pc # "idle"
  BY DEF MarkPublished, MarkFailed, MarkDeadLetter
<1>2. /\ work[w] \in Work /\ Fits(w, work[w]) /\ Current(w) \in work[w].batch
      /\ Current(w)[1] \in Msgs
  BY <1>1, SameBatch DEF Fits
<1>3. PICK m \in Msgs : m = Current(w)[1] BY <1>2
<1>4. status[m] = "publishing" BY <1>2, <1>3 DEF OneWorker, Fits
<1>5. /\ status' = IF Markable(m) THEN [status EXCEPT ![m] = st] ELSE status
      /\ work' = [work EXCEPT ![w] = Rest(w)]
      /\ UNCHANGED <<created, committed, attempts, clock, wire, log>>
  BY <1>1, <1>3 DEF Mark, broker
<1>6. \A k \in Msgs : (Live(k) => Live(k)') /\ (Final(k) => Final(k)')
  BY <1>4, <1>5 DEF OutboxInv, Types, Live, Final
<1>7. Rest(w).batch \subseteq work[w].batch BY DEF Rest, Idle
<1>8. \A v \in Workers : work'[v].batch \subseteq work[v].batch
  BY <1>5, <1>7 DEF OutboxInv, Types
<1> QED BY <1>5, <1>6, <1>8, OrderKept

\* The steps that touch neither row nor wire nor stream.
LEMMA OthersOrder ==
    ASSUME OutboxInv, OrderInv, NEW w \in Workers,
           \/ NotConnected(w) \/ Acked(w) \/ TimedOut(w) \/ CycleFails(w) \/ Connect(w) \/ Crash(w)
           \/ Fetch(w) \/ Persist(w) \/ Nak(w) \/ Ack(w) \/ AckLost(w) \/ ConsumerEnds(w)
    PROVE  OrderInv'
<1>1. UNCHANGED <<status, created, committed, attempts, clock, wire, log>>
  BY DEF NotConnected, Acked, TimedOut, CycleFails, Connect, Crash, Fetch, Persist, Nak, Ack,
         AckLost, ConsumerEnds, Handled, rows, broker, consumer
<1>2. work \in [Workers -> Work] BY DEF OutboxInv, Types
<1>3. ASSUME NEW v \in Workers PROVE work'[v].batch \subseteq work[v].batch
  <2>1. CASE NotConnected(w) \/ Acked(w) \/ TimedOut(w)
    BY <1>2, <2>1 DEF NotConnected, Acked, TimedOut, Work
  <2>2. CASE CycleFails(w) \/ Crash(w) BY <1>2, <2>2 DEF CycleFails, Crash, Idle
  <2>3. CASE UNCHANGED work BY <2>3
  <2> QED
    BY <2>1, <2>2, <2>3
       DEF Connect, Fetch, Persist, Nak, Ack, AckLost, ConsumerEnds, Handled
<1>4. \A m \in Msgs : (Live(m) => Live(m)') /\ (Final(m) => Final(m)') BY <1>1 DEF Live, Final
<1> QED BY <1>1, <1>3, <1>4, OrderKept

\* The first k messages leave the wire.
LEMMA WireShrinks ==
    ASSUME OutboxInv, OrderInv, OneWorker, NEW w \in Workers, NEW k \in 0..Len(wire[w]),
           UNCHANGED <<created, committed>>,
           wire' = [wire EXCEPT ![w] = SubSeq(@, k + 1, Len(@))]
    PROVE  /\ WireOrder' /\ \A m : OnWire(m)' => OnWire(m)
           /\ \A i \in DOMAIN wire'[w] : attempts[wire'[w][i][1]] > 0
<1>1. PICK s \in Seq(Jobs) : s = wire[w] BY DEF OutboxInv, Types
<1>2. PICK t : t = SubSeq(s, k + 1, Len(s)) OBVIOUS
<1>3. wire'[w] = t BY <1>1, <1>2 DEF OutboxInv, Types
<1>4. k \in Nat /\ k <= Len(s) /\ Len(s) \in Nat BY <1>1
<1>5. Len(t) = Len(s) - k /\ DOMAIN t = 1..(Len(s) - k) BY <1>1, <1>2, <1>4
<1>6. \A i \in DOMAIN t : t[i] = s[k + i] /\ k + i \in DOMAIN s /\ i \in Int
  BY <1>1, <1>2, <1>4, <1>5
<1>7. \A v \in Workers : v = w BY DEF OneWorker
<1>8. ASSUME NEW i \in DOMAIN t, NEW j \in DOMAIN t, Before(t[j][1], t[i][1]) PROVE j < i
  <2>1. k + j < k + i BY <1>1, <1>6, <1>8 DEF OrderInv, WireOrder
  <2> QED BY <1>4, <1>6, <2>1
<1>9. WireOrder' BY <1>3, <1>7, <1>8 DEF WireOrder, Before
<1>10. \A m : OnWire(m)' => OnWire(m) BY <1>1, <1>3, <1>6, <1>7 DEF OnWire
<1>11. \A i \in DOMAIN t : attempts[t[i][1]] > 0 BY <1>1, <1>6 DEF OrderInv, Claimed
<1> QED BY <1>3, <1>9, <1>10, <1>11

\* What was sent may be lost, the first of it first.
LEMMA DisconnectOrder ==
    ASSUME OutboxInv, OrderInv, OneWorker, NEW w \in Workers, Disconnect(w)
    PROVE  OrderInv'
<1>1. PICK k \in 0..Len(wire[w]) : wire' = [wire EXCEPT ![w] = SubSeq(@, k + 1, Len(@))]
  BY DEF Disconnect
<1>2. /\ UNCHANGED <<status, created, committed, attempts, clock, log>>
      /\ work' = [work EXCEPT ![w].got = FALSE]
  BY DEF Disconnect, rows, broker
<1>3. /\ WireOrder' /\ \A m : OnWire(m)' => OnWire(m)
      /\ \A i \in DOMAIN wire'[w] : attempts[wire'[w][i][1]] > 0
  BY <1>1, <1>2, WireShrinks
<1>4. \A v \in Workers : work'[v].batch = work[v].batch /\ v = w
  BY <1>2 DEF OutboxInv, Types, Work, OneWorker
<1>5. \A a, m : Before(a, m)' <=> Before(a, m) BY <1>2 DEF Before
<1>6. Ticks' /\ Fence' BY <1>2, <1>5 DEF OrderInv, Ticks, Fence, Live, Final
<1>7. Claimed' BY <1>2, <1>3, <1>4 DEF OrderInv, Claimed, Live
<1>8. LogOrder' BY <1>2, <1>3, <1>5 DEF OrderInv, LogOrder, Stored
<1> QED BY <1>3, <1>6, <1>7, <1>8 DEF OrderInv

\* The broker stores the first message of the wire: what it waits for is settled, and not
\* behind it on the wire.
LEMMA StoreOrder ==
    ASSUME OutboxInv, OrderInv, OneWorker, NEW w \in Workers, Store(w)
    PROVE  OrderInv'
<1>1. PICK s \in Seq(Jobs) : s = wire[w] /\ s # <<>> BY DEF OutboxInv, Types, Store
<1>2. Len(s) \in Nat /\ Len(s) >= 1 /\ Head(s) = s[1] /\ 1 \in DOMAIN s /\ s[1] \in Jobs
      /\ Tail(s) = SubSeq(s, 2, Len(s)) /\ DOMAIN s = 1..Len(s)
  BY <1>1
<1>3. PICK m \in Msgs : m = s[1][1] BY <1>2 DEF Jobs
<1>4. /\ wire' = [wire EXCEPT ![w] = Tail(@)]
      /\ \/ m \in Stored /\ UNCHANGED log
         \/ log' = Append(log, m)
      /\ work' = [work EXCEPT ![w].got =
                     @ \/ /\ link[w] /\ work[w].pc = "sent" /\ Head(wire[w]) = Current(w)]
      /\ UNCHANGED <<status, created, committed, attempts, clock>>
  BY <1>1, <1>2, <1>3 DEF Store, rows
<1>5. wire' = [wire EXCEPT ![w] = SubSeq(@, 1 + 1, Len(@))]
  <2>1. Tail(wire[w]) = SubSeq(wire[w], 1 + 1, Len(wire[w])) BY <1>1, <1>2
  <2> QED BY <1>4, <2>1
<1>6. 1 \in 0..Len(wire[w]) BY <1>1, <1>2
<1>7. /\ WireOrder' /\ \A k : OnWire(k)' => OnWire(k)
      /\ \A i \in DOMAIN wire'[w] : attempts[wire'[w][i][1]] > 0
  BY <1>4, <1>5, <1>6, WireShrinks
<1>8. \A v \in Workers : v = w BY DEF OneWorker
<1>9. work'[w].batch = work[w].batch BY <1>4 DEF OutboxInv, Types, Work
<1>10. \A k, n : Before(k, n)' <=> Before(k, n) BY <1>4 DEF Before
<1>11. OnWire(m) /\ attempts[m] > 0 BY <1>1, <1>2, <1>3 DEF OnWire, OrderInv, Claimed
<1>12. log \in Seq(Msgs) /\ Len(log) \in Nat /\ DOMAIN log = 1..Len(log) BY DEF OutboxInv, Types
<1>13. \A k \in Msgs : Before(k, m) /\ k \notin Stored => k # m /\ ~OnWire(k)
  <2> SUFFICES ASSUME NEW k \in Msgs, Before(k, m) PROVE k # m /\ ~OnWire(k) OBVIOUS
  <2>1. k # m
    <3>1. created[k] \in Nat /\ committed[k] \in Nat BY DEF OutboxInv, Types, OrderInv, Ticks
    <3>2. created[k] < committed[k] /\ committed[k] < created[m] BY DEF Before, OrderInv, Ticks
    <3> QED BY <3>1, <3>2
  <2>2. ASSUME NEW j \in DOMAIN wire[w], wire[w][j][1] = k PROVE FALSE
    <3>1. j < 1 BY <1>1, <1>2, <1>3, <2>2 DEF OrderInv, WireOrder
    <3> QED BY <1>1, <1>2, <2>2, <3>1
  <2> QED BY <1>8, <2>1, <2>2 DEF OnWire
<1>14. Claimed' /\ LogOrder'
  <2>1. CASE m \in Stored /\ UNCHANGED log
    <3>1. Claimed' BY <1>4, <1>7, <1>8, <1>9, <2>1 DEF OrderInv, Claimed, Live
    <3>2. LogOrder' BY <1>7, <1>10, <2>1 DEF OrderInv, LogOrder, Stored
    <3> QED BY <3>1, <3>2
  <2>2. CASE log' = Append(log, m)
    <3> DEFINE z == Len(log) + 1
    <3>1. /\ DOMAIN log' = 1..z /\ log'[z] = m
          /\ \A i \in 1..Len(log) : i \in DOMAIN log /\ log'[i] = log[i]
          /\ \A i \in 1..z : i \in 1..Len(log) \/ i = z
      BY <1>12, <2>2
    <3>2. Stored' = Stored \cup {m} BY <1>12, <3>1 DEF Stored
    <3>3. Claimed' BY <1>4, <1>7, <1>8, <1>9, <1>11, <1>12, <3>1 DEF OrderInv, Claimed, Live
    <3>4. ASSUME NEW i \in 1..z, NEW k \in Msgs, Before(k, log'[i])
          PROVE  (\E j \in 1..(i - 1) : log'[j] = k) \/ (k \notin Stored' /\ ~OnWire(k)')
      <4>1. CASE i = z
        <5>1. CASE k \in Stored
          <6>1. PICK j \in 1..Len(log) : log[j] = k BY <1>12, <5>1 DEF Stored
          <6>2. j \in 1..(i - 1) BY <1>12, <4>1
          <6> QED BY <3>1, <6>1, <6>2
        <5>2. CASE k \notin Stored
          <6>1. Before(k, m) BY <3>1, <3>4, <4>1
          <6> QED BY <1>7, <1>13, <3>2, <5>2, <6>1
        <5> QED BY <5>1, <5>2
      <4>2. CASE i \in 1..Len(log)
        <5>1. i \in DOMAIN log /\ Before(k, log[i]) BY <3>1, <3>4, <4>2
        <5>2. CASE \E j \in 1..(i - 1) : log[j] = k
          <6>1. PICK j \in 1..(i - 1) : log[j] = k BY <5>2
          <6>2. j \in 1..Len(log) BY <1>12, <4>2
          <6> QED BY <3>1, <6>1, <6>2
        <5>3. CASE k \notin Stored /\ ~OnWire(k)
          <6>1. k # m BY <1>11, <5>3
          <6> QED BY <1>7, <3>2, <5>3, <6>1
        <5> QED BY <5>1, <5>2, <5>3 DEF OrderInv, LogOrder
      <4> QED BY <3>1, <4>1, <4>2
    <3>5. LogOrder' BY <1>10, <3>1, <3>4 DEF LogOrder
    <3> QED BY <3>3, <3>5
  <2> QED BY <1>4, <2>1, <2>2
<1>15. Ticks' /\ Fence' BY <1>4, <1>10 DEF OrderInv, Ticks, Fence, Live, Final
<1> QED BY <1>7, <1>14, <1>15 DEF OrderInv

\* Every step keeps the order.
LEMMA OrderStep == OneWorker /\ OutboxInv /\ OrderInv /\ [Next]_vars => OrderInv'
<1> SUFFICES ASSUME OneWorker, OutboxInv, OrderInv, [Next]_vars PROVE OrderInv' OBVIOUS
<1>1. CASE UNCHANGED vars
  <2>1. UNCHANGED <<status, created, committed, attempts, clock, work, wire, log>>
    BY <1>1 DEF vars
  <2> QED BY <2>1, OrderKept DEF Live, Final
<1>2. CASE Next
  BY <1>2, ProducersOrder, ClaimOrder, SendOrder, MarkOrder, OthersOrder, DisconnectOrder,
     StoreOrder
     DEF Next
<1> QED BY <1>1, <1>2

LEMMA OrderInitially == Init => OrderInv
<1> SUFFICES ASSUME Init PROVE OrderInv OBVIOUS
<1>1. Ticks BY DEF Init, Ticks
<1>2. Claimed /\ Fence /\ WireOrder /\ LogOrder
  BY DEF Init, Idle, Claimed, Fence, Before, WireOrder, LogOrder
<1> QED BY <1>1, <1>2 DEF OrderInv

-----------------------------------------------------------------------------
(* The theorems *)

\* The inductive invariant: what is sent or stored was committed, what is marked published is
\* in the stream, a worker holds only rows that are its own or another worker's business, and
\* every receipt belongs to a delivery of a copy.
THEOREM OutboxInvariant == Spec => []OutboxInv
<1> QED BY OutboxInitially, OutboxStep, PTL DEF Spec

\* publish_outbox_batch, claim_pending, mark_* and persist_nats_receipt implement Delivery:
\* only committed messages reach the stream, a row says published only of what the broker has
\* stored and for ever, no receipt comes without a delivery, and with one worker a row that was
\* given up stays given up.
THEOREM OutboxKeepsPromise == Spec => KeepsPromise
<1> QED
  BY OutboxInitially, OutboxStep, PromiseInitially, PromiseKeeps, PTL
     DEF Spec, KeepsPromise, D!DeliverySpec

\* claim_pending, publish_outbox_batch and mark_*: with the one worker of the contract, what
\* had committed before a message of its aggregate was created is in the stream before it, or
\* was given up for good, over retries, lost acknowledgements and crashes.
THEOREM StreamOrdered == ASSUME OneWorker PROVE Spec => []StreamOrder
<1>1. OutboxInv /\ OrderInv => StreamOrder
  <2> SUFFICES ASSUME OutboxInv, OrderInv, NEW i \in DOMAIN log, NEW k \in Msgs,
                      Before(k, log[i]), k \notin Stored
               PROVE  status[k] = "dead_letter"
    BY DEF StreamOrder, OrderInv, LogOrder, Before
  <2>1. log[i] \in Msgs /\ attempts[log[i]] > 0 BY DEF OutboxInv, Types, OrderInv, Claimed
  <2>2. Final(k) BY <2>1 DEF OrderInv, Fence
  <2>3. status[k] # "published" BY DEF OutboxInv, Backed
  <2> QED BY <2>2, <2>3 DEF Final
<1> QED BY <1>1, OutboxInitially, OutboxStep, OrderInitially, OrderStep, PTL DEF Spec

=============================================================================
