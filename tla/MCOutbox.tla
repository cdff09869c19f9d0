------------------------------ MODULE MCOutbox ------------------------------
(* Aggregates for the outbox: the first two messages of Msgs share one. *)
EXTENDS Outbox, TLC

MCAgg == [m \in Msgs |-> IF m \in {"m1", "m2"} THEN "node" ELSE "central"]

\* The workers of the safety run are interchangeable.
MCSymmetry == Permutations(Workers)

=============================================================================
