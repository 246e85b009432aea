-------------------------- MODULE MCOperationStore --------------------------
(* Instances of OperationStore for TLC.                                    *)
EXTENDS OperationStore

CONSTANTS k1, k2, d1, d2

Session(k, d) ==
    [key |-> k, digest |-> d, auth |-> TRUE, cancelable |-> TRUE, policy |-> "expire"]

Reservation(k, d) ==
    [key |-> k, digest |-> d, auth |-> FALSE, cancelable |-> FALSE, policy |-> "fail"]

\* A session, its key reused for another request, and a reservation.
Requests == {Session(k1, d1), Session(k1, d2), Reservation(k2, d2)}
=============================================================================
