-------------------------------- MODULE EdgeSync --------------------------------
(***************************************************************************)
(* Telemetry and offline records of one node agent (simulator.py: main,    *)
(* its SQLite tables heartbeats, telemetry_batches and                     *)
(* telemetry_sequence_state) against the central API (record_node_records, *)
(* persist_heartbeat, persist_synced_node_records).  The agent does one    *)
(* thing after another and may stop between any two.  A request without an *)
(* answer may have been lost or be handled any time later.                 *)
(***************************************************************************)
EXTENDS Integers, Sequences, FiniteSets, FiniteSetsExt

CONSTANTS
    MaxRecords,     \* bound: heartbeats, each with one telemetry batch
    Limit         \* pending rows sent at once (20 in the code)

ASSUME EdgeSyncAssumption == MaxRecords \in Nat \ {0} /\ Limit \in Nat \ {0}

VARIABLES
    mode,       \* of the API: "primary", "shadow" (writes may fail unnoticed) or "memory"
    pc,         \* next call of main
    beat,       \* number of the current heartbeat; its content too
    answered,   \* was it answered with success
    rows,       \* table heartbeats: [beat, synced] by local id
    lastSequence,       \* telemetry_sequence_state, -1 without a row
    batch,      \* the current telemetry batch [no, of, result]
    batches,    \* table telemetry_batches by sequence number: [of, synced]
    queue,      \* sequence numbers still to be sent again
    late,       \* requests without an answer
    live,       \* central: heartbeats written when they came
    receipts,   \* central: node_record_receipts, heartbeat by local id
    replays,    \* central: offline_replay rows of a heartbeat
    measured,   \* central: telemetry batch by sequence number
    swallowed,  \* history: heartbeats whose write failed and was acknowledged
    renewed     \* history: the agent's database was lost

agentVars == <<pc, beat, answered, rows, lastSequence, batch, batches, queue>>
centralVars == <<live, receipts, replays, measured, swallowed>>
edgeVars == <<mode, agentVars, late, centralVars, renewed>>

Beats == 1..MaxRecords
Numbers == 1..(MaxRecords + 1)
NoBatch == [no |-> 0, of |-> 0, result |-> "none"]
Unstored == [of |-> 0, synced |-> 0]

\* The agent's database as connect_db leaves a new one
NewDatabase ==
    /\ rows' = <<>> /\ lastSequence' = -1
    /\ batches' = [s \in Numbers |-> Unstored]

-----------------------------------------------------------------------------
(* Central API *)

\* A failed write is an error only when PostgreSQL is primary.
\* Mutant: it is acknowledged in every mode.
AlwaysAcknowledged(written) == TRUE
Acknowledged(written) == written \/ mode # "primary"

\* A heartbeat, written or not
TakeHeartbeat(b, written) ==
    /\ live' = IF written THEN live \cup {b} ELSE live
    /\ swallowed' = IF ~written /\ Acknowledged(written) THEN swallowed \cup {b} ELSE swallowed

\* Ids of a request that have a receipt.
Received(sent) == {i \in DOMAIN sent : i \in DOMAIN receipts}

\* One of another heartbeat refuses the whole request
Conflict(sent) == mode # "memory" /\ \E i \in Received(sent) : receipts[i] # sent[i]

\* Records in one transaction: a known id is a duplicate, the others are archived
TakeRecords(sent, written) ==
    LET new == DOMAIN sent \ Received(sent) IN
    IF ~written /\ mode # "memory"
    THEN /\ swallowed' = IF Acknowledged(written) THEN swallowed \cup {sent[i] : i \in new}
                         ELSE swallowed
         /\ UNCHANGED <<receipts, replays>>
    ELSE /\ receipts' = [i \in DOMAIN receipts \cup new |->
                            IF i \in new THEN sent[i] ELSE receipts[i]]
         /\ replays' = [b \in Beats |-> replays[b] +
                           Cardinality({i \in new : mode # "memory" /\ sent[i] = b})]
         /\ UNCHANGED swallowed

\* A telemetry batch: ingest of DataPlatform.  A known number with other content conflicts.
Accepts(no, of) == measured[no] \in {0, of}
TakeTelemetry(no, of) == measured' = IF measured[no] = 0 THEN [measured EXCEPT ![no] = of] ELSE measured

Request(kind, no, of, sent) == [kind |-> kind, no |-> no, of |-> of, sent |-> sent]

-----------------------------------------------------------------------------
(* One round of main.  answer: "yes", "no" (refused before any effect), "none" *)

\* send_heartbeat
SendHeartbeat(answer, written) ==
    /\ pc = "beat" /\ beat < MaxRecords
    /\ beat' = beat + 1 /\ pc' = "store"
    /\ answered' = (answer = "yes" /\ Acknowledged(written))
    /\ IF answer = "yes" THEN TakeHeartbeat(beat + 1, written) ELSE UNCHANGED <<live, swallowed>>
    /\ late' = IF answer = "none" THEN late \cup {Request("beat", beat + 1, 0, <<>>)} ELSE late
    /\ UNCHANGED <<mode, rows, lastSequence, batch, batches, queue, receipts, replays, measured, renewed>>

\* store_heartbeat
StoreHeartbeat ==
    /\ pc = "store" /\ pc' = "reserve"
    /\ rows' = Append(rows, [beat |-> beat, synced |-> answered])
    /\ UNCHANGED <<mode, beat, answered, lastSequence, batch, batches, queue, late, centralVars, renewed>>

\* reserve_telemetry_sequence, committed before the number is used; without a row it starts
\* from the stored batches.  Mutant: the number is taken but not kept.
Known == IF lastSequence # -1 THEN lastSequence ELSE Max({s \in Numbers : batches[s] # Unstored} \cup {0})
TakeNumber == Known + 1 \in Numbers /\ batch' = [no |-> Known + 1, of |-> beat, result |-> "none"]
               /\ lastSequence' = Known
Reserve ==
    /\ Known + 1 \in Numbers /\ lastSequence' = Known + 1
    /\ batch' = [no |-> Known + 1, of |-> beat, result |-> "none"]

ReserveSequence ==
    /\ pc = "reserve" /\ pc' = "send"
    /\ Reserve
    /\ UNCHANGED <<mode, beat, answered, rows, batches, queue, late, centralVars, renewed>>

\* The three outcomes of send_telemetry_batch: synced, a terminal conflict, or try again
Outcome(no, of, answer) ==
    IF answer # "yes" THEN "again" ELSE IF Accepts(no, of) THEN "synced" ELSE "terminal"

\* telemetry_result_is_terminal
Stored(result) == CASE result = "synced" -> 1 [] result = "terminal" -> -1 [] OTHER -> 0

CallTelemetry(no, of, answer) ==
    /\ IF answer = "yes" THEN TakeTelemetry(no, of) ELSE UNCHANGED measured
    /\ late' = IF answer = "none" THEN late \cup {Request("telemetry", no, of, <<>>)} ELSE late

SendTelemetry(answer) ==
    /\ pc = "send" /\ pc' = "keep"
    /\ CallTelemetry(batch.no, batch.of, answer)
    /\ batch' = [batch EXCEPT !.result = Outcome(batch.no, batch.of, answer)]
    /\ UNCHANGED <<mode, beat, answered, rows, lastSequence, batches, queue, live, receipts, replays,
                   swallowed, renewed>>

AfterTelemetry == IF answered THEN "records" ELSE "beat"

\* The oldest Limit batches that are neither synced nor refused
Oldest(S) == {n \in S : Cardinality({k \in S : k < n}) < Limit}

\* store_telemetry_batch: a row of the same number keeps its payload; sent again are the
\* pending ones, if this one was taken
StoreTelemetry ==
    LET s == batch.no
        kept == [of |-> IF batches[s] = Unstored THEN batch.of ELSE batches[s].of,
                 synced |-> Stored(batch.result)]
        table == [batches EXCEPT ![s] = kept] IN
    /\ pc = "keep"
    /\ batches' = table /\ lastSequence' = Max({lastSequence, s})
    /\ IF batch.result = "synced"
       THEN /\ pc' = "sync"
            /\ queue' = Oldest({n \in Numbers : table[n] # Unstored /\ table[n].synced = 0})
       ELSE pc' = AfterTelemetry /\ UNCHANGED queue
    /\ batch' = NoBatch
    /\ UNCHANGED <<mode, beat, answered, rows, late, centralVars, renewed>>

\* sync_pending_telemetry_batches: a conflict is skipped, any other failure ends the round
SyncTelemetry(answer) ==
    /\ pc = "sync" /\ queue # {}
    /\ LET s == Min(queue)
           result == Outcome(s, batches[s].of, answer) IN
       /\ CallTelemetry(s, batches[s].of, answer)
       /\ batches' = [batches EXCEPT ![s].synced = Stored(result)]
       /\ queue' = IF result = "again" THEN {} ELSE queue \ {s}
    /\ UNCHANGED <<mode, pc, beat, answered, rows, lastSequence, batch, live, receipts, replays,
                   swallowed, renewed>>

EndTelemetry ==
    /\ pc = "sync" /\ queue = {} /\ pc' = AfterTelemetry
    /\ UNCHANGED <<mode, beat, answered, rows, lastSequence, batch, batches, queue, late, centralVars,
                   renewed>>

\* sync_pending_records: only an answer of success marks the rows.
Marks(ok) == ok

SyncRecords(answer, written) ==
    LET ids == Oldest({i \in DOMAIN rows : ~rows[i].synced})
        sent == [i \in ids |-> rows[i].beat]
        ok == answer = "yes" /\ ~Conflict(sent) /\ (ids # {} => Acknowledged(written)) IN
    /\ pc = "records" /\ pc' = "beat"
    /\ IF answer = "yes" /\ ids # {} /\ ~Conflict(sent) THEN TakeRecords(sent, written)
       ELSE UNCHANGED <<receipts, replays, swallowed>>
    /\ rows' = [i \in DOMAIN rows |->
                  [rows[i] EXCEPT !.synced = @ \/ (i \in ids /\ Marks(ok))]]
    /\ late' = IF answer = "none" /\ ids # {} THEN late \cup {Request("records", 0, 0, sent)} ELSE late
    /\ UNCHANGED <<mode, beat, answered, lastSequence, batch, batches, queue, live, measured, renewed>>

\* A request without an answer is handled after all
HandleLate(m, written) ==
    /\ m \in late /\ late' = late \ {m}
    /\ CASE m.kind = "beat" -> TakeHeartbeat(m.no, written) /\ UNCHANGED <<receipts, replays, measured>>
         [] m.kind = "telemetry" -> TakeTelemetry(m.no, m.of) /\ UNCHANGED <<live, swallowed, receipts, replays>>
         [] OTHER -> /\ IF Conflict(m.sent) THEN UNCHANGED <<receipts, replays, swallowed>>
                        ELSE TakeRecords(m.sent, written)
                     /\ UNCHANGED <<live, measured>>
    /\ UNCHANGED <<mode, agentVars, renewed>>

\* The agent stops and starts again on its database ...
Restart ==
    /\ pc # "beat"
    /\ pc' = "beat" /\ answered' = FALSE /\ batch' = NoBatch /\ queue' = {}
    /\ UNCHANGED <<mode, beat, rows, lastSequence, batches, late, centralVars, renewed>>

\* ... or on a new one, with the run id of its configuration
LoseDatabase ==
    /\ ~renewed /\ renewed' = TRUE
    /\ NewDatabase
    /\ pc' = "beat" /\ answered' = FALSE /\ batch' = NoBatch /\ queue' = {}
    /\ UNCHANGED <<mode, beat, late, centralVars>>

-----------------------------------------------------------------------------

\* A new database, or one of a version that kept no sequence state
EdgeInit ==
    /\ mode \in {"primary", "shadow", "memory"}
    /\ pc = "beat" /\ answered = FALSE /\ rows = <<>> /\ lastSequence = -1 /\ batch = NoBatch
    /\ queue = {} /\ late = {} /\ live = {} /\ receipts = <<>>
    /\ replays = [b \in Beats |-> 0] /\ swallowed = {} /\ renewed = FALSE
    /\ \/ beat = 0 /\ batches = [s \in Numbers |-> Unstored] /\ measured = [s \in Numbers |-> 0]
       \/ /\ beat = 1
          /\ batches = [s \in Numbers |-> IF s = 1 THEN [of |-> 1, synced |-> 1] ELSE Unstored]
          /\ measured = [s \in Numbers |-> IF s = 1 THEN 1 ELSE 0]

Answers == {"yes", "no", "none"}

EdgeStep ==
    \/ StoreHeartbeat \/ ReserveSequence \/ StoreTelemetry \/ EndTelemetry
    \/ Restart \/ LoseDatabase
    \/ \E a \in Answers : SendTelemetry(a) \/ SyncTelemetry(a)
    \/ \E a \in Answers, w \in BOOLEAN : SendHeartbeat(a, w) \/ SyncRecords(a, w)
    \/ \E m \in late, w \in BOOLEAN : HandleLate(m, w)

EdgeSpec == EdgeInit /\ [][EdgeStep]_edgeVars

-----------------------------------------------------------------------------
(* Properties *)

\* A heartbeat that the agent's database calls synced has reached a table of PostgreSQL,
\* over lost answers and stops of the agent, when PostgreSQL is primary; when it is a shadow,
\* except for those whose write failed without the agent being told.  A record that is sent
\* again, because the answer was lost or came late, is archived once.
ArchivedOnce ==
    /\ mode # "memory" =>
          \A i \in DOMAIN rows : rows[i].synced =>
             \/ rows[i].beat \in live \/ \E j \in DOMAIN receipts : receipts[j] = rows[i].beat
             \/ mode = "shadow" /\ rows[i].beat \in swallowed
    /\ \A b \in Beats : replays[b] <= 1

\* No telemetry batch is refused for good: a number that has been sent is never given to
\* other content, wherever the agent stops.  Excepted is an agent that lost its database.
NumbersNotReused == renewed \/ \A s \in Numbers : batches[s].synced # -1
=============================================================================
