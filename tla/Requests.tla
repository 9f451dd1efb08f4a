------------------------------ MODULE Requests ------------------------------
(***************************************************************************)
(* What the components that serve requests share: a fixed set of slots for *)
(* requests in flight.  Their number bounds the concurrency of a model.    *)
(***************************************************************************)
EXTENDS FiniteSets, Integers

CONSTANT Req

\* A slot in which no request is running.
Idle == [op |-> "idle"]

\* Ends the request in slot r: an answer, an error or a crash.
End(calls, r) == [calls EXCEPT ![r] = Idle]
=============================================================================
