---------------------------- MODULE MCSupervisor ----------------------------
(* Two processes, the second with an HTTP probe and depending on the first. *)
EXTENDS Supervisor

MCDeps == [p \in Procs |-> IF p \in Probed THEN <<"db">> ELSE <<>>]

=============================================================================
