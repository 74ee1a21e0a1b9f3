------------------------------ MODULE MCOutbox ------------------------------
(* Outbox with a growing backoff for TLC. *)
EXTENDS Outbox

MCBackoff == [a \in 0..MaxAttempts - 1 |-> a + 1]
=============================================================================
