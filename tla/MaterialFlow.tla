----------------------------- MODULE MaterialFlow -----------------------------
(***************************************************************************)
(* Lots, balances, transformations and reconciliation of                   *)
(* app/repositories/material_flow.py on PostgreSQL, READ COMMITTED.        *)
(*                                                                         *)
(* A place stands for a location with or without a container.  A request   *)
(* is a transaction of three steps, because other transactions may commit  *)
(* between its statements:                                                 *)
(*   checked  lots, quality holds, genealogy or the balance were read;     *)
(*   written  balances and movements are written: balance rows are locked, *)
(*            and the triggers of the schema look again;                   *)
(*   commit   others see it.                                               *)
(* Tasks and maintenance orders named by a request are other components:   *)
(* a request is taken to name one in an allowed state.                     *)
(***************************************************************************)
EXTENDS Integers, FiniteSets, FiniteSetsExt

CONSTANTS
    Lots,       \* lot and serial codes
    Serials,    \* those with tracking_kind = 'serial'
    Places,     \* storage places
    Ids,        \* movement and transformation identifiers, bounds the requests
    MaxQty,     \* bound: units one leg of a request names
    MaxStock,   \* bound: units at one place
    Counted,    \* bound: lots an external snapshot names
    Txns        \* database sessions

ASSUME MaterialAssumption ==
    /\ Serials \subseteq Lots
    /\ MaxQty \in Nat \ {0} /\ MaxStock \in Nat /\ MaxQty <= MaxStock
    /\ IsFiniteSet(Lots) /\ IsFiniteSet(Places)

VARIABLES
    place,      \* places registered so far
    lot,        \* status of each lot
    stock,      \* inventory_balances.quantity
    edges,      \* genealogy_edges: <<parent, child>>
    recorded,   \* identifiers in inventory_movements and material_transformations
    case,       \* the reconciliation case of the last external snapshot
    held,       \* lots with an open row in quality_holds
    tx,         \* the open transactions
    overlapped, \* history: two transactions were open together
    breach      \* history: what a committed movement should not have done

materialVars == <<place, lot, stock, edges, recorded, case, held, tx, overlapped, breach>>

Slots == Lots \X Places
None == "none"
Delta == (-MaxStock)..MaxStock
Qty(l) == IF l \in Serials THEN {1} ELSE 1..MaxQty
Untouched == [s \in Slots |-> 0]
Closed == [pc |-> "idle", kind |-> None, id |-> None, legs |-> Untouched]
NoCase == [status |-> None, slot |-> <<>>, expected |-> 0, observed |-> 0]

-----------------------------------------------------------------------------
(* What a transaction touches and which rows it has locked *)

Rows(w) == {s \in Slots : w.legs[s] # 0}
LotsOf(w) == {s[1] : s \in Rows(w)}
Total(l) == MapThenSumSet(LAMBDA p : stock[<<l, p>>], Places)
Change(w, l) == MapThenSumSet(LAMBDA p : w.legs[<<l, p>>], Places)
Parents(w) == {s[1] : s \in {r \in Slots : w.legs[r] < 0}}
Children(w) == {s[1] : s \in {r \in Slots : w.legs[r] > 0}}

Open(c) == tx[c].pc # "idle"
Busy == \E c \in Txns : Open(c)
Written(c) == tx[c].pc = "written"

\* The lots whose row a session has locked: the balance trigger of a serial locks it.
LockedLots == UNION {LotsOf(tx[c]) \cap Serials : c \in {d \in Txns : Written(d)}}
LockedRows == UNION {Rows(tx[c]) : c \in {d \in Txns : Written(d)}}

\* What the recursive query of _assert_no_genealogy_cycle finds below a lot: the least set
\* with its children and the children of whatever is in it.
Closes(l, S) == \A e \in edges : e[1] \in S \cup {l} => e[2] \in S
Below(l) == {k \in Lots : \A S \in SUBSET Lots : Closes(l, S) => k \in S}

-----------------------------------------------------------------------------
(* Master records of the flow *)

\* create_warehouse, create_location, create_container
CreatePlace(p) ==
    /\ p \notin place
    /\ place' = place \cup {p}
    /\ UNCHANGED <<lot, stock, edges, recorded, case, held, tx, overlapped, breach>>

CreateLot(l) ==
    /\ lot[l] = None
    /\ lot' = [lot EXCEPT ![l] = "active"]
    /\ UNCHANGED <<place, stock, edges, recorded, case, held, tx, overlapped, breach>>

-----------------------------------------------------------------------------
(* Requests: the legs a valid request may have *)

\* The direction rules of MovementIn: receipt and produce have only a destination,
\* consume only a source, the others both, and these differ.  A transfer may go where
\* issue, scrap and rework may not, so the types of places drop out.
MovementLegs ==
    UNION {UNION {{[Untouched EXCEPT ![<<l, p>>] = q] : p \in Places}
                  \cup {[Untouched EXCEPT ![<<l, p>>] = -q] : p \in Places}
                  \cup {[Untouched EXCEPT ![<<l, d[1]>>] = -q, ![<<l, d[2]>>] = q] :
                           d \in {e \in Places \X Places : e[1] # e[2]}}
                  : q \in Qty(l)} : l \in Lots}

\* validate_shape: inputs and outputs; consume_produce has every shape the other three
\* types of transformation have, and with conversion evidence every quantity.
Shaped(w) == Parents(w) # {} /\ Children(w) # {}

\* _validate_transformation_semantics: no lot is both an input and an output.
NoSelfReference(w) == Parents(w) \cap Children(w) = {}

TransformLegs ==
    {g \in [Slots -> (-MaxQty)..MaxQty] :
        /\ Shaped([legs |-> g]) /\ NoSelfReference([legs |-> g])
        /\ \A s \in Slots : s[1] \in Serials => g[s] \in {-1, 0, 1}}

\* Every leg names an active location and an active lot.
Resolved(g) ==
    \A s \in Slots : g[s] # 0 => s[2] \in place /\ lot[s[1]] = "active"

\* What is read before anything is written: holds, and for a transformation genealogy.
\* Mutants: holds are not looked at; neither is the genealogy.
NeverBlocked(w) == TRUE
Unblocked(w) == LotsOf(w) \cap held = {}
AnyLineage(w) == TRUE
NoCycle(w) == w.kind = "transform" =>
                \A p \in Parents(w), k \in Children(w) : p \notin Below(k)

\* A request whose identifier is already recorded answers with the recorded row.
Fresh(c, id) == ~Open(c) /\ id \notin recorded

\* other: some session outside this component is open.
Begin(c, w, other) ==
    /\ tx' = [tx EXCEPT ![c] = w]
    /\ overlapped' = (overlapped \/ Busy \/ other)
    /\ UNCHANGED <<place, lot, stock, edges, recorded, case, held, breach>>

RecordMovement(c, id, other) ==
    /\ Fresh(c, id)
    /\ \E g \in MovementLegs :
         LET w == [pc |-> "checked", kind |-> "move", id |-> id, legs |-> g]
         IN  Resolved(g) /\ Unblocked(w) /\ Begin(c, w, other)

RecordTransformation(c, id, other) ==
    /\ Fresh(c, id)
    /\ \E g \in TransformLegs :
         LET w == [pc |-> "checked", kind |-> "transform", id |-> id, legs |-> g]
         IN  Resolved(g) /\ Unblocked(w) /\ NoCycle(w) /\ Begin(c, w, other)

\* _apply_balance_delta: the row is written only where it does not get negative; a
\* serial is at most one unit over all places.
\* Mutant: the sum over the places of a serial is read without locking the lot's row.
Enough(w) == \A s \in Slots : stock[s] + w.legs[s] \in 0..MaxStock
SerialFitsUnlocked(w) == \A l \in LotsOf(w) \cap Serials : Total(l) + Change(w, l) <= 1
SerialFits(w) ==
    /\ SerialFitsUnlocked(w)
    /\ LotsOf(w) \cap LockedLots = {}         \* the lot row is locked by the trigger

\* The balances and the movements are written, and the schema's triggers run.
\* shared is the set of lots whose row another transaction holds a shared lock on.
Write(c, shared) ==
    /\ tx[c].pc = "checked"
    /\ Rows(tx[c]) \cap LockedRows = {}
    /\ LotsOf(tx[c]) \cap Serials \cap shared = {}
    /\ Enough(tx[c]) /\ SerialFits(tx[c])
    /\ Unblocked(tx[c])                       \* trg_quality_hold_blocks_movement
    /\ tx[c].id \notin recorded               \* the unique keys of both tables
    /\ \A d \in Txns \ {c} : Written(d) => tx[d].id # tx[c].id
    /\ tx' = [tx EXCEPT ![c].pc = "written"]
    /\ UNCHANGED <<place, lot, stock, edges, recorded, case, held, overlapped, breach>>

Commit(c) ==
    LET w == tx[c]
        after == [s \in Slots |-> stock[s] + w.legs[s]]
    IN  /\ w.pc = "written"
        /\ stock' = after
        /\ recorded' = recorded \cup {w.id}
        /\ edges' = IF w.kind = "transform" THEN edges \cup (Parents(w) \X Children(w))
                    ELSE edges
        /\ case' = IF w.kind = "adjust" THEN [case EXCEPT !.status = "adjusted"] ELSE case
        /\ breach' = breach
             \cup {b \in {"blocked"} : w.kind # "adjust" /\
                      (LotsOf(w) \cap held # {} \/ \E l \in LotsOf(w) : lot[l] # "active")}
             \cup {b \in {"inexact"} : w.kind = "adjust" /\ after[case.slot] # case.observed}
        /\ tx' = [tx EXCEPT ![c] = Closed]
        /\ UNCHANGED <<place, lot, held, overlapped>>

\* A refused request, a lost connection or a deadlock the database breaks.
Rollback(c) ==
    /\ Open(c)
    /\ tx' = [tx EXCEPT ![c] = Closed]
    /\ UNCHANGED <<place, lot, stock, edges, recorded, case, held, overlapped, breach>>

-----------------------------------------------------------------------------
(* Reconciliation with an external snapshot *)

\* import_external_snapshot: a difference opens a case.  The model keeps one case, of
\* the bounded set of counted lots.
Import(l, p, q) ==
    /\ case.status # "open" /\ l \in Counted /\ lot[l] # None /\ p \in place
    /\ \A c \in Txns : tx[c].kind # "adjust"
    /\ q # stock[<<l, p>>]
    /\ case' = [status |-> "open", slot |-> <<l, p>>, expected |-> stock[<<l, p>>],
                observed |-> q]
    /\ UNCHANGED <<place, lot, stock, edges, recorded, held, tx, overlapped, breach>>

AsExpected(k) == stock[k.slot] = k.expected

\* adjust_reconciliation: the case is locked, the balance is not
Adjust(c, id, other) ==
    /\ Fresh(c, id)
    /\ case.status = "open"
    /\ \A d \in Txns : tx[d].kind # "adjust"
    /\ AsExpected(case)
    /\ Begin(c, [pc |-> "checked", kind |-> "adjust", id |-> id,
                 legs |-> [Untouched EXCEPT ![case.slot] = case.observed - case.expected]],
             other)

NothingRecorded ==
    /\ stock = [s \in Slots |-> 0] /\ edges = {} /\ recorded = {}
    /\ case = NoCase /\ held = {}
    /\ tx = [c \in Txns |-> Closed]
    /\ overlapped = FALSE /\ breach = {}

=============================================================================
