----------------------------- MODULE MCExecution -----------------------------
(* Routings for the execution model: one or two operations. *)
EXTENDS Execution, TLC

MCOps == [w \in WorkOrders |-> IF w = "long" THEN 2 ELSE 1]

\* The last operation of the longer routing.
MCLast == {<<"long", 2>>}

\* Clients are interchangeable: a transaction is not tied to who opened it.
MCSymmetry == Permutations(Clients)

==============================================================================
