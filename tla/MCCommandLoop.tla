--------------------------- MODULE MCCommandLoop ---------------------------
(***************************************************************************)
(* CommandLoop for TLC: workers and rates are interchangeable.            *)
(***************************************************************************)
EXTENDS CommandLoop, TLC

Symmetry == Permutations(Threads) \cup Permutations(Rates)
=============================================================================
