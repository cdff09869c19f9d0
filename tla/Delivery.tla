------------------------------ MODULE Delivery ------------------------------
(***************************************************************************)
(* What the outbox promises of a message, without workers, claims, leases, *)
(* connections or retries: a message that was committed is owed until it   *)
(* is settled, it reaches the stream once or more often, and it is said to *)
(* be published only when the stream has it.                               *)
(***************************************************************************)
EXTENDS Naturals

CONSTANTS
    Messages,
    PerCopy,    \* receipts one copy in the stream may lead to
    Reopens     \* whether a message that was given up may be taken up again

VARIABLES
    state,      \* "none", "owed", "published" or "given_up"
    copies,     \* copies of the message in the stream
    received    \* receipts of the message

deliveryVars == <<state, copies, received>>

DeliveryInit ==
    /\ state = [m \in Messages |-> "none"]
    /\ copies = [m \in Messages |-> 0]
    /\ received = [m \in Messages |-> 0]

Becomes(m, s) == state' = [state EXCEPT ![m] = s] /\ UNCHANGED <<copies, received>>

Owe(m) == state[m] = "none" /\ Becomes(m, "owed")

Publish(m) == state[m] \in {"owed", "given_up"} /\ copies[m] > 0 /\ Becomes(m, "published")

GiveUp(m) == state[m] = "owed" /\ Becomes(m, "given_up")

Reopen(m) == Reopens /\ state[m] = "given_up" /\ Becomes(m, "owed")

\* A publish that was given up for lost may still arrive, whatever became of the message.
Arrive(m) ==
    /\ state[m] # "none"
    /\ copies' = [copies EXCEPT ![m] = @ + 1]
    /\ UNCHANGED <<state, received>>

Receive(m) ==
    /\ received[m] < PerCopy * copies[m]
    /\ received' = [received EXCEPT ![m] = @ + 1]
    /\ UNCHANGED <<state, copies>>

DeliveryNext ==
    \E m \in Messages :
       Owe(m) \/ Publish(m) \/ GiveUp(m) \/ Reopen(m) \/ Arrive(m) \/ Receive(m)

DeliverySpec == DeliveryInit /\ [][DeliveryNext]_deliveryVars

\* What is owed is settled.
Settle(m) == state[m] = "owed" /\ (Publish(m) \/ GiveUp(m))

FairDelivery == DeliverySpec /\ \A m \in Messages : WF_deliveryVars(Settle(m))
=============================================================================
