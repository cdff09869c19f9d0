-------------------------------- MODULE Quality --------------------------------
(***************************************************************************)
(* Inspection plans, inspections, holds, nonconformances, dispositions and *)
(* CAPA of app/repositories/quality.py, on top of the material flow.       *)
(*                                                                         *)
(* Opening an inspection reads the lot and its balance without locking     *)
(* them, and its inserts take a shared lock on the lot's row; it is split  *)
(* into read, insert and commit so that movements may happen in between.   *)
(* The other requests lock the row they decide on, so each is one step.    *)
(***************************************************************************)
EXTENDS MaterialFlow

CONSTANTS
    Revs,        \* revisions of the inspection plan
    Insps,       \* inspection lot codes, each opened by a session of its own
    Samples,     \* samples the plan asks for: characteristic and index
    DispositionTypes,      \* the types of disposition requests may name
    Gauges, ValidGauges,   \* gauges; those of the right type and in calibration
    Readings, Lower, Upper \* measured values and the specification limits

ASSUME QualityAssumption ==
    /\ DispositionTypes \subseteq {"use_as_is", "rework", "scrap", "return_to_supplier"}
    /\ Samples # {} /\ ValidGauges \subseteq Gauges
    /\ Readings \subseteq Int /\ Lower \in Int /\ Upper \in Int

VARIABLES
    gauge,  \* registered gauges
    plan,   \* status of every revision
    insp,   \* inspections, with their hold, nonconformance, dispositions and CAPA
    opening \* the sessions that open an inspection

qualityVars == <<gauge, plan, insp, opening>>
stockVars == <<materialVars, qualityVars>>

NoInspection ==
    [status |-> None, lot |-> None, result |-> [s \in Samples |-> None], hold |-> None,
     nc |-> None, disp |-> [t \in DispositionTypes |-> None], capa |-> None]
NotOpening == [pc |-> "idle", lot |-> None]

\* Lots whose row an uncommitted inspection holds a shared lock on (foreign keys).
Shared == {opening[i].lot : i \in {j \in Insps : opening[j].pc = "inserted"}}
Opening == \E i \in Insps : opening[i].pc # "idle"

-----------------------------------------------------------------------------
(* Plans and gauges *)

CreateGauge(g) ==
    /\ g \notin gauge
    /\ gauge' = gauge \cup {g}
    /\ UNCHANGED <<plan, insp, opening, materialVars>>

CreatePlan(r) ==
    /\ plan[r] = None
    /\ plan' = [plan EXCEPT ![r] = "draft"]
    /\ UNCHANGED <<gauge, insp, opening, materialVars>>

\* transition_plan: draft, approved, effective; the effective revision is superseded
TransitionPlan(r) ==
    /\ plan' = CASE plan[r] = "draft" -> [plan EXCEPT ![r] = "approved"]
                 [] plan[r] = "approved" ->
                      [s \in Revs |-> IF s = r THEN "effective"
                                      ELSE IF plan[s] = "effective" THEN "superseded"
                                      ELSE plan[s]]
                 [] OTHER -> plan
    /\ plan' # plan
    /\ UNCHANGED <<gauge, insp, opening, materialVars>>

-----------------------------------------------------------------------------
(* create_inspection *)

OpenRead(i, l) ==
    /\ insp[i].status = None /\ opening[i].pc = "idle"
    /\ \E r \in Revs : plan[r] = "effective"
    /\ lot[l] = "active" /\ l \notin held
    /\ \E p \in place : stock[<<l, p>>] > 0
    /\ opening' = [opening EXCEPT ![i] = [pc |-> "read", lot |-> l]]
    /\ overlapped' = (overlapped \/ Busy \/ Opening)
    /\ UNCHANGED <<gauge, plan, insp, place, lot, stock, edges, recorded, case, held, tx,
                   breach>>

\* The inserts: the lot's row is share-locked, at most one open hold per lot.
OpenInsert(i) ==
    LET l == opening[i].lot
    IN  /\ opening[i].pc = "read"
        /\ l \notin LockedLots
        /\ l \notin held \cup Shared
        /\ opening' = [opening EXCEPT ![i].pc = "inserted"]
        /\ UNCHANGED <<gauge, plan, insp, materialVars>>

OpenCommit(i) ==
    /\ opening[i].pc = "inserted"
    /\ insp' = [insp EXCEPT ![i] = [NoInspection EXCEPT !.status = "open", !.hold = "open",
                                                        !.lot = opening[i].lot]]
    /\ held' = held \cup {opening[i].lot}
    /\ opening' = [opening EXCEPT ![i] = NotOpening]
    /\ UNCHANGED <<gauge, plan, place, lot, stock, edges, recorded, case, tx, overlapped,
                   breach>>

OpenRollback(i) ==
    /\ opening[i].pc # "idle"
    /\ opening' = [opening EXCEPT ![i] = NotOpening]
    /\ UNCHANGED <<gauge, plan, insp, materialVars>>

-----------------------------------------------------------------------------
(* Measurements and their evaluation *)

\* _validate_measurement_context: an unsuitable gauge is refused, the value is judged
\* against the limits, bounds included.
Judge(v) == IF Lower <= v /\ v <= Upper THEN "pass" ELSE "fail"

\* _evaluate_inspection: at the last sample the inspection passes, or fails and opens
\* a nonconformance.
Evaluate(r) ==
    IF \E s \in Samples : r.result[s] = None THEN r
    ELSE IF \E s \in Samples : r.result[s] = "fail"
         THEN [r EXCEPT !.status = "failed", !.nc = "open"]
         ELSE [r EXCEPT !.status = "passed"]

RecordMeasurement(i, s, g, v) ==
    /\ insp[i].status = "open"
    /\ insp[i].result[s] = None
    /\ g \in gauge \cap ValidGauges
    /\ insp' = [insp EXCEPT ![i] = Evaluate([insp[i] EXCEPT !.result[s] = Judge(v)])]
    /\ UNCHANGED <<gauge, plan, opening, materialVars>>

-----------------------------------------------------------------------------
(* Decisions *)

CreateDisposition(i, t) ==
    /\ insp[i].nc \in {"open", "dispositioned"}
    /\ insp[i].disp[t] = None
    /\ insp' = [insp EXCEPT ![i].disp[t] = "proposed"]
    /\ UNCHANGED <<gauge, plan, opening, materialVars>>

\* approve_disposition: the inspection is written whatever its status is by now.
Scrap(r) == [r EXCEPT !.status = "dispositioned",
                      !.hold = IF r.hold = "open" THEN "disposed" ELSE r.hold]

ApproveDisposition(i, t) ==
    LET l == insp[i].lot
        r == [insp[i] EXCEPT !.disp[t] = "approved", !.nc = "dispositioned"]
        gone == t \in {"scrap", "return_to_supplier"}
    IN  /\ insp[i].disp[t] = "proposed"
        /\ insp' = [insp EXCEPT ![i] =
                      IF gone THEN Scrap(r)
                      ELSE IF t = "rework" THEN [r EXCEPT !.status = "rework_required"]
                      ELSE r]
        /\ gone => l \notin LockedLots
        /\ held' = IF gone /\ insp[i].hold = "open" THEN held \ {l} ELSE held
        /\ lot' = IF gone THEN [lot EXCEPT ![l] = "closed"] ELSE lot
        /\ overlapped' = (overlapped \/ Busy \/ Opening)
        /\ UNCHANGED <<gauge, plan, opening, place, stock, edges, recorded, case, tx, breach>>

Waived(r, S) == \E t \in DispositionTypes : t = "use_as_is" /\ r.disp[t] \in S

\* release_inspection.  Mutant: a proposed use-as-is is enough.
ReleasableProposed(r) ==
    r.status = "passed" \/ (r.status = "failed" /\ Waived(r, {"proposed", "approved"}))
Releasable(r) ==
    r.status = "passed" \/ (r.status = "failed" /\ Waived(r, {"approved"}))

ReleaseInspection(i) ==
    /\ Releasable(insp[i]) /\ insp[i].hold = "open"
    /\ insp' = [insp EXCEPT ![i].status = "released", ![i].hold = "released"]
    /\ held' = held \ {insp[i].lot}
    /\ UNCHANGED <<gauge, plan, opening, place, lot, stock, edges, recorded, case, tx,
                   overlapped, breach>>

CreateCapa(i) ==
    /\ insp[i].nc # None /\ insp[i].capa = None
    /\ insp' = [insp EXCEPT ![i].capa = "open"]
    /\ UNCHANGED <<gauge, plan, opening, materialVars>>

CompleteCapa(i) ==
    /\ insp[i].capa = "open"
    /\ insp' = [insp EXCEPT ![i].capa = "completed"]
    /\ UNCHANGED <<gauge, plan, opening, materialVars>>

-----------------------------------------------------------------------------
(* The composition *)

NothingRegistered ==
    /\ place = {} /\ lot = [l \in Lots |-> None]
    /\ gauge = {} /\ plan = [r \in Revs |-> None]

NothingInspected ==
    /\ insp = [i \in Insps |-> NoInspection]
    /\ opening = [i \in Insps |-> NotOpening]

\* Master records: they only ever enable what follows.
MasterStep ==
    \/ /\ \/ \E p \in Places : CreatePlace(p)
          \/ \E l \in Lots : CreateLot(l)
       /\ UNCHANGED qualityVars
    \/ \E g \in Gauges : CreateGauge(g)
    \/ \E r \in Revs : CreatePlan(r) \/ TransitionPlan(r)

MaterialStep(requests) ==
    /\ \/ \E c \in Txns : \/ \E id \in requests : RecordMovement(c, id, Opening)
                                          \/ RecordTransformation(c, id, Opening)
                                          \/ Adjust(c, id, Opening)
                          \/ Write(c, Shared) \/ Commit(c) \/ Rollback(c)
       \/ \E l \in Lots, p \in Places, q \in 0..MaxQty : Import(l, p, q)
    /\ UNCHANGED qualityVars

InspectStep(i) ==
    \/ \E l \in Lots : OpenRead(i, l)
    \/ OpenInsert(i) \/ OpenCommit(i) \/ OpenRollback(i)
    \/ \E s \in Samples, g \in Gauges, v \in Readings : RecordMeasurement(i, s, g, v)
    \/ ReleaseInspection(i)

DispositionStep(i) ==
    \/ \E t \in DispositionTypes : CreateDisposition(i, t) \/ ApproveDisposition(i, t)
    \/ CreateCapa(i) \/ CompleteCapa(i)

StockInit == NothingRegistered /\ NothingRecorded /\ NothingInspected
StockNext == \/ MasterStep \/ MaterialStep(Ids)
             \/ \E i \in Insps : InspectStep(i) \/ DispositionStep(i)
StockSpec == StockInit /\ [][StockNext]_stockVars

-----------------------------------------------------------------------------
(* Properties *)

\* A serial number is at most one unit over all places, however its movements, its
\* transformations and adjustments interleave: the balance trigger locks the lot's row.
SerialOnce == \A l \in Serials : Total(l) <= 1

\* While a serial has an open quality hold no balance of it changes: the hold's foreign
\* key and the balance trigger exclude each other on the lot's row, and the movement
\* trigger looks at the holds again.  For a lot that is not a serial this is not so.
HeldSerialStays ==
    [][\A l \in held \cap Serials, p \in Places : stock'[<<l, p>>] = stock[<<l, p>>]]_stockVars

\* If transactions do not overlap, no committed movement touches a held or closed lot,
\* an adjustment ends at the observed quantity, and no lot is its own ancestor.  When they
\* do overlap the code gives none of the three: it reads lots, genealogy and the expected
\* balance without a lock.
SerialSound ==
    overlapped \/ (breach = {} /\ \A l \in Lots : l \notin Below(l))

\* Until an inspection is decided its lot is held, and a hold is released only if every
\* sample passed or a use-as-is was approved, whatever other dispositions were approved
\* before or after.
HoldUntilDecided ==
    \A i \in Insps :
       LET r == insp[i]
       IN  /\ (r.status \in {"open", "passed", "failed"} \/ r.hold = "open")
                => r.hold = "open" /\ r.lot \in held
           /\ r.hold = "released" => \/ \A s \in Samples : r.result[s] = "pass"
                                     \/ Waived(r, {"approved"})
           /\ r.status = "dispositioned" => lot[r.lot] = "closed" /\ r.hold # "open"

=============================================================================
