------------------------------ MODULE DataPlatform ------------------------------
(***************************************************************************)
(* Telemetry, retention, the Redis projection and document objects:        *)
(* repositories/data_platform.py, core/redis_projection.py and             *)
(* core/object_storage.py, with the constraints of core/phase7_schema.py.  *)
(* One source sends one signal.  A request that reads before it writes is  *)
(* open between the two: no statement takes a lock, and the database's     *)
(* unique constraints are checked when it commits.                         *)
(***************************************************************************)
EXTENDS Integers, FiniteSets, Sequences

CONSTANTS
    Batches,      \* requests to ingest_batch: [id, samples], samples a sequence of
                  \* [id, seq, at, val, fits]: at is source_timestamp, fits says that
                  \* source, mapping, unit, type and range are as the signal defines
    Clients,      \* sessions of the API
    Hour,         \* length of an aggregation window
    Fresh, Skew,  \* freshness threshold and tolerated clock skew
    RawKeep,      \* telemetry_raw_retention_days
    AggregateKeep,\* telemetry_aggregate_retention_days
    MaxClock      \* bound: how far the clock runs

ASSUME DataPlatformAssumption ==
    /\ Hour \in Nat \ {0} /\ Fresh \in Nat /\ Skew \in Nat /\ MaxClock \in Nat
    /\ RawKeep \in Nat /\ AggregateKeep \in Nat /\ RawKeep <= AggregateKeep
    /\ \A b \in Batches :
          /\ Len(b.samples) \in Nat /\ DOMAIN b.samples = 1..Len(b.samples)
          /\ \A i \in DOMAIN b.samples : b.samples[i].at \in Nat

VARIABLES
    master,     \* codes registered in the master-data tables
    signal,     \* is the signal registered
    batch,      \* committed batches
    receipt,    \* samples with a receipt
    raw,        \* measurements: [sample, quality]
    hourly,     \* samples the aggregate of a window counts
    ingest,     \* open ingest requests
    retention,  \* retention runs
    clock,
    stored,     \* history: measurements written for a sample id
    gone,       \* history: samples retention deleted
    late,       \* history: samples committed after the coverage check, or miscounted by it
    redone,     \* history: windows aggregated again during a run, or after rows were deleted
    redis,      \* the projection: pointer, keys and lock
    rebuild,    \* rebuilds of the projection
    ackLost,    \* history: Redis set the pointer and the answer was lost
    object,     \* documents.objects.status of one content address
    blob,       \* the bytes stored under it
    transfer    \* store and retrieve requests

telemetryVars == <<signal, batch, receipt, raw, hourly, ingest, retention, clock,
                   stored, gone, late, redone>>
redisVars == <<redis, rebuild, ackLost>>
objectVars == <<object, blob, transfer>>
platformVars == <<master, telemetryVars, redisVars, objectVars>>

Absent == "absent"
Window(t) == t \div Hour
Windows == 0..Window(MaxClock)
SampleIds == UNION {{b.samples[i].id : i \in DOMAIN b.samples} : b \in Batches}
NoIngest == [batch |-> [id |-> Absent, samples |-> <<>>], seen |-> {}, now |-> 0]
NoRun == [phase |-> Absent, cutoff |-> 0, aggregateCutoff |-> 0]

-----------------------------------------------------------------------------
(* Signals and ingestion *)

CreateSignal ==
    /\ ~signal /\ signal' = TRUE
    /\ UNCHANGED <<master, batch, receipt, raw, hourly, ingest, retention, clock, stored,
                   gone, late, redone, redisVars, objectVars>>

\* Samples differ when id, sequence or value do; a batch also binds their timestamps.
SampleHash(s) == <<s.id, s.seq, s.val>>

Classify(s, before, now) ==
    IF (\E r \in before : r.seq > s.seq) \/ ~s.fits THEN "bad"
    ELSE IF now - s.at > Fresh \/ s.at - now > Skew THEN "uncertain" ELSE "good"

\* ingest_batch up to its first insert.  A committed batch id answers with the stored
\* response or with a conflict, and changes nothing.
BeginIngest(c, b) ==
    /\ ingest[c] = NoIngest
    /\ \A d \in batch : d.id # b.id
    /\ "equipment" \in master /\ signal
    /\ ingest' = [ingest EXCEPT ![c] = [batch |-> b, seen |-> receipt, now |-> clock]]
    /\ UNCHANGED <<master, signal, batch, receipt, raw, hourly, retention, clock, stored,
                   gone, late, redone, redisVars, objectVars>>

\* The receipts sample i of a batch finds: the samples before it have theirs by then
Before(b, seen, i) == seen \cup {b.samples[j] : j \in 1..(i - 1)}

\* Samples of a batch without a receipt; one with a receipt is a duplicate
NewSamples(b, seen) ==
    {i \in DOMAIN b.samples : \A r \in Before(b, seen, i) : r.id # b.samples[i].id}

\* No sample contradicts what this request has read
Consistent(b, seen) ==
    \A i \in DOMAIN b.samples : \A r \in Before(b, seen, i) :
       /\ r.id = b.samples[i].id => SampleHash(r) = SampleHash(b.samples[i])
       /\ r.seq = b.samples[i].seq => r.id = b.samples[i].id

\* The unique constraints of ingest_batches and sample_receipts.
UniqueReceipt(b, new) ==
    /\ \A d \in batch : d.id # b.id
    /\ \A i \in new : \A r \in receipt :
          r.id # b.samples[i].id /\ r.seq # b.samples[i].seq

Deleting == {c \in Clients : retention[c].phase = "covered"}
Checking == {c \in Clients : retention[c].phase \in {"aggregated", "covered"}}

CommitIngest(c) ==
    LET b == ingest[c].batch
        new == NewSamples(b, ingest[c].seen)
        fresh == {b.samples[i] : i \in new} IN
    /\ ingest[c] # NoIngest
    /\ Consistent(b, ingest[c].seen) /\ UniqueReceipt(b, new)
    /\ batch' = batch \cup {b}
    /\ receipt' = receipt \cup fresh
    /\ raw' = raw \cup {[sample |-> b.samples[i],
                         quality |->
                           Classify(b.samples[i], Before(b, ingest[c].seen, i), ingest[c].now)] :
                           i \in new}
    /\ stored' = [s \in SampleIds |-> stored[s] + Cardinality({i \in new : b.samples[i].id = s})]
    /\ late' = late \cup {s \in fresh : \E u \in Deleting : s.at < retention[u].cutoff}
    /\ ingest' = [ingest EXCEPT ![c] = NoIngest]
    /\ UNCHANGED <<master, signal, hourly, retention, clock, gone, redone, redisVars, objectVars>>

\* A conflict, a violated constraint or a broken connection rolls everything back
RollbackIngest(c) ==
    /\ ingest[c] # NoIngest
    /\ ingest' = [ingest EXCEPT ![c] = NoIngest]
    /\ UNCHANGED <<master, signal, batch, receipt, raw, hourly, retention, clock, stored,
                   gone, late, redone, redisVars, objectVars>>

-----------------------------------------------------------------------------
(* Hourly aggregates and retention *)

Rows(w, from, to) ==
    {m.sample : m \in {n \in raw : Window(n.sample.at) = w /\ n.sample.at \in from..(to - 1)}}

\* aggregate_hourly: a window with rows is written anew from the rows there are
Aggregated(from, to) ==
    [w \in Windows |-> IF Rows(w, from, to) = {} THEN hourly[w] ELSE Rows(w, from, to)]

Redone(from, to) ==
    redone \cup {w \in Windows : /\ Rows(w, from, to) # {}
                                 /\ Checking # {} \/ \E s \in gone : Window(s.at) = w}

AggregateHourly(from, to) ==
    /\ from < to
    /\ hourly' = Aggregated(from, to) /\ redone' = Redone(from, to)
    /\ UNCHANGED <<master, signal, batch, receipt, raw, ingest, retention, clock, stored,
                   gone, late, redisVars, objectVars>>

StartRetention(c) ==
    /\ retention[c] = NoRun
    /\ retention' = [retention EXCEPT ![c] =
          [phase |-> "running", cutoff |-> clock - RawKeep,
           aggregateCutoff |-> clock - AggregateKeep]]
    /\ UNCHANGED <<master, signal, batch, receipt, raw, hourly, ingest, clock, stored, gone,
                   late, redone, redisVars, objectVars>>

RetentionAggregate(c) ==
    /\ retention[c].phase = "running"
    /\ hourly' = Aggregated(0, retention[c].cutoff) /\ redone' = Redone(0, retention[c].cutoff)
    /\ retention' = [retention EXCEPT ![c].phase = "aggregated"]
    /\ UNCHANGED <<master, signal, batch, receipt, raw, ingest, clock, stored, gone, late,
                   redisVars, objectVars>>

\* _retention_coverage compares counts.  Mutant: coverage is not compared.
AssumeCovered(to) == TRUE
Covered(to) ==
    \A w \in Windows :
       Rows(w, 0, to) # {} => Cardinality(Rows(w, 0, to)) = Cardinality(hourly[w])

Miscounted(to) ==
    UNION {Rows(w, 0, to) \ hourly[w] :
             w \in {v \in Windows : Cardinality(Rows(v, 0, to)) = Cardinality(hourly[v])}}

RetentionCoverage(c) ==
    /\ retention[c].phase = "aggregated"
    /\ retention' = [retention EXCEPT ![c] =
          IF Covered(@.cutoff) THEN [@ EXCEPT !.phase = "covered"] ELSE NoRun]
    /\ late' = late \cup Miscounted(retention[c].cutoff)
    /\ UNCHANGED <<master, signal, batch, receipt, raw, hourly, ingest, clock, stored, gone,
                   redone, redisVars, objectVars>>

RetentionDelete(c) ==
    LET out == {m \in raw : m.sample.at < retention[c].cutoff} IN
    /\ retention[c].phase = "covered"
    /\ raw' = raw \ out /\ gone' = gone \cup {m.sample : m \in out}
    /\ hourly' = [w \in Windows |-> IF (w + 1) * Hour <= retention[c].aggregateCutoff
                                    THEN {} ELSE hourly[w]]
    /\ retention' = [retention EXCEPT ![c] = NoRun]
    /\ UNCHANGED <<master, signal, batch, receipt, ingest, clock, stored, late, redone,
                   redisVars, objectVars>>

\* An exception anywhere ends the run; raw rows stay
FailRetention(c) ==
    /\ retention[c] # NoRun
    /\ retention' = [retention EXCEPT ![c] = NoRun]
    /\ UNCHANGED <<master, signal, batch, receipt, raw, hourly, ingest, clock, stored, gone,
                   late, redone, redisVars, objectVars>>

PassTime ==
    /\ clock < MaxClock /\ clock' = clock + 1
    /\ UNCHANGED <<master, signal, batch, receipt, raw, hourly, ingest, retention, stored,
                   gone, late, redone, redisVars, objectVars>>

-----------------------------------------------------------------------------
(* The Redis projection: every rebuild writes a generation of its own *)

Unlocked(c) == IF redis.lock = c THEN Absent ELSE redis.lock

\* projection_source is read before the lock is asked for
BeginRebuild(c) ==
    /\ rebuild[c] = Absent
    /\ rebuild' = [rebuild EXCEPT ![c] = "read"]
    /\ UNCHANGED <<master, telemetryVars, redis, ackLost, objectVars>>

LockRebuild(c) ==
    /\ rebuild[c] = "read"
    /\ IF redis.lock = Absent
       THEN /\ redis' = [redis EXCEPT !.lock = c]
            /\ rebuild' = [rebuild EXCEPT ![c] = "locked"]
       ELSE /\ rebuild' = [rebuild EXCEPT ![c] = "failed"] /\ UNCHANGED redis
    /\ UNCHANGED <<master, telemetryVars, ackLost, objectVars>>

WriteKeys(c) ==
    /\ rebuild[c] = "locked"
    /\ redis' = [redis EXCEPT !.keys = @ \cup {c}]
    /\ rebuild' = [rebuild EXCEPT ![c] = "written"]
    /\ UNCHANGED <<master, telemetryVars, ackLost, objectVars>>

\* Mutant: the pointer is moved before the keys are written.
PointFirst == {"locked", "written"}
Activatable == {"written"}

\* With a lost answer the handler deletes the keys of the generation it made active
ActivateGeneration(c, answered) ==
    /\ rebuild[c] \in Activatable
    /\ IF answered
       THEN /\ redis' = [redis EXCEPT !.pointer = c]
            /\ rebuild' = [rebuild EXCEPT ![c] = "pointed"] /\ UNCHANGED ackLost
       ELSE /\ redis' = [pointer |-> c, keys |-> redis.keys \ {c}, lock |-> Unlocked(c)]
            /\ rebuild' = [rebuild EXCEPT ![c] = "failed"] /\ ackLost' = TRUE
    /\ UNCHANGED <<master, telemetryVars, objectVars>>

\* The checkpoint row is written, or that fails and nothing is undone
RecordProjectionCheckpoint(c, written) ==
    /\ rebuild[c] = "pointed"
    /\ rebuild' = [rebuild EXCEPT ![c] = IF written THEN "done" ELSE "failed"]
    /\ redis' = [redis EXCEPT !.lock = Unlocked(c)]
    /\ UNCHANGED <<master, telemetryVars, ackLost, objectVars>>

\* RedisError, or a key is missing: the generation is deleted if Redis can be reached
FailRebuild(c, reached) ==
    /\ rebuild[c] \in {"read", "locked", "written"}
    /\ rebuild' = [rebuild EXCEPT ![c] = "failed"]
    /\ redis' = IF reached
                THEN [redis EXCEPT !.keys = @ \ {c}, !.lock = Unlocked(c)] ELSE redis
    /\ UNCHANGED <<master, telemetryVars, ackLost, objectVars>>

\* The lock lives 60 seconds, whatever its owner is doing
ExpireLock ==
    /\ redis.lock # Absent /\ redis' = [redis EXCEPT !.lock = Absent]
    /\ UNCHANGED <<master, telemetryVars, rebuild, ackLost, objectVars>>

-----------------------------------------------------------------------------
(* Document objects *)

NoTransfer == [phase |-> Absent, seen |-> Absent]

\* create_object_manifest: an available object is returned as it is
CreateObjectManifest(c) ==
    /\ transfer[c] = NoTransfer /\ object # "available"
    /\ object' = IF object = Absent THEN "pending" ELSE object
    /\ transfer' = [transfer EXCEPT ![c].phase = "manifest"]
    /\ UNCHANGED <<master, telemetryVars, redisVars, blob>>

PutObject(c, bytes) ==
    /\ transfer[c].phase = "manifest"
    /\ blob' = bytes
    /\ transfer' = [transfer EXCEPT ![c].phase = "put"]
    /\ UNCHANGED <<master, telemetryVars, redisVars, object>>

\* require_available_object.
Available == object = "available"

Retrieve(c) ==
    /\ transfer[c] = NoTransfer /\ Available
    /\ transfer' = [transfer EXCEPT ![c].phase = "put"]
    /\ UNCHANGED <<master, telemetryVars, redisVars, object, blob>>

ReadBack(c) ==
    /\ transfer[c].phase = "put"
    /\ transfer' = [transfer EXCEPT ![c] = [phase |-> "read", seen |-> blob]]
    /\ UNCHANGED <<master, telemetryVars, redisVars, object, blob>>

\* complete_object_manifest: what this request has read decides, whoever wrote before
CompleteObjectManifest(c) ==
    /\ transfer[c].phase = "read"
    /\ object' = IF transfer[c].seen = "intact" THEN "available" ELSE "quarantined"
    /\ transfer' = [transfer EXCEPT ![c] = NoTransfer]
    /\ UNCHANGED <<master, telemetryVars, redisVars, blob>>

\* MinIO cannot be reached: the manifest stays as it is
FailTransfer(c) ==
    /\ transfer[c].phase \in {"manifest", "put"}
    /\ transfer' = [transfer EXCEPT ![c] = NoTransfer]
    /\ UNCHANGED <<master, telemetryVars, redisVars, object, blob>>

\* The stored bytes decay
Decay ==
    /\ blob = "intact" /\ blob' = "damaged"
    /\ UNCHANGED <<master, telemetryVars, redisVars, object, transfer>>

-----------------------------------------------------------------------------

PlatformInit ==
    /\ signal = FALSE /\ batch = {} /\ receipt = {} /\ raw = {}
    /\ hourly = [w \in Windows |-> {}]
    /\ ingest = [c \in Clients |-> NoIngest] /\ retention = [c \in Clients |-> NoRun]
    /\ clock = 0 /\ stored = [s \in SampleIds |-> 0]
    /\ gone = {} /\ late = {} /\ redone = {}
    /\ redis = [pointer |-> Absent, keys |-> {}, lock |-> Absent]
    /\ rebuild = [c \in Clients |-> Absent] /\ ackLost = FALSE
    /\ object = Absent /\ blob = Absent
    /\ transfer = [c \in Clients |-> NoTransfer]

IngestStep ==
    \/ CreateSignal \/ PassTime
    \/ \E c \in Clients : \/ \E b \in Batches : BeginIngest(c, b)
                          \/ CommitIngest(c) \/ RollbackIngest(c)

RetentionStep ==
    \/ \E from, to \in 0..MaxClock : AggregateHourly(from, to)
    \/ \E c \in Clients : \/ StartRetention(c) \/ RetentionAggregate(c) \/ RetentionCoverage(c)
                          \/ RetentionDelete(c) \/ FailRetention(c)

RebuildStep ==
    \/ ExpireLock
    \/ \E c \in Clients :
         \/ BeginRebuild(c) \/ LockRebuild(c) \/ WriteKeys(c)
         \/ \E x \in BOOLEAN : \/ ActivateGeneration(c, x) \/ RecordProjectionCheckpoint(c, x)
                               \/ FailRebuild(c, x)

ObjectStep ==
    \/ Decay
    \/ \E c \in Clients :
         \/ CreateObjectManifest(c) \/ Retrieve(c) \/ ReadBack(c) \/ CompleteObjectManifest(c)
         \/ FailTransfer(c) \/ \E bytes \in {"intact", "damaged"} : PutObject(c, bytes)

-----------------------------------------------------------------------------
(* Properties *)

\* A sample is measured once, however often and in however many batches it is sent at the
\* same time: receipts outlive the measurement.  Raw telemetry that retention deleted is
\* still counted by the aggregate of its hour, with four exceptions: the hour aged out; the
\* sample was committed between the coverage check and the delete, or before it while
\* another sample of the hour made the counts agree; or the hour was aggregated again, from
\* the rows that were left, which every run does to the hour its predecessor's cutoff fell
\* into, or while a run was open.
DeletedWasCounted ==
    /\ \A s \in SampleIds : stored[s] <= 1
    /\ \A s \in gone :
          \/ s \in hourly[Window(s.at)]
          \/ (Window(s.at) + 1) * Hour <= clock - AggregateKeep
          \/ s \in late \/ Window(s.at) \in redone

\* The generation the pointer names has its keys, unless Redis moved the pointer and the
\* answer was lost: then the handler deletes what it has just made active.
ActiveGenerationComplete ==
    redis.pointer # Absent => redis.pointer \in redis.keys \/ ackLost

=============================================================================
