------------------------------ MODULE Delivery ------------------------------
(***************************************************************************)
(* What sending promises, whoever does the work: Outbox implements it.     *)
(*                                                                         *)
(* A message is offered to the provider until something is known to have   *)
(* become of it, and never again then. The provider may have taken copies  *)
(* nobody knows of, and only those can be more than one. What the owner is *)
(* shown is what is known, it is final when the message is no longer being *)
(* delivered, but for a bounce or a purge, and a message the outbox has is *)
(* delivered or given up. Only a message the outbox does not have yet may  *)
(* be lost sight of, with whatever it was shown as.                        *)
(*                                                                         *)
(* Attempts, alarms, times and who runs what are left out.                 *)
(***************************************************************************)
EXTENDS Naturals

CONSTANT Msgs

VARIABLES
    stage,   \* "new", "sending", "kept" by the outbox, "over"
    shown,   \* what the owner sees: "none", "queued", "sent", "failed",
             \* "bounced", or "purged" when the message is gone
    copies,  \* copies the provider has taken
    unknown  \* those nobody learned of

vars == <<stage, shown, copies, unknown>>

TypeOK ==
    /\ stage \in [Msgs -> {"new", "sending", "kept", "over"}]
    /\ shown \in [Msgs -> {"none", "queued", "sent", "failed", "bounced", "purged"}]
    /\ copies \in [Msgs -> Nat] /\ unknown \in [Msgs -> Nat]

Init ==
    /\ stage = [m \in Msgs |-> "new"]
    /\ shown = [m \in Msgs |-> "none"]
    /\ copies = [m \in Msgs |-> 0]
    /\ unknown = [m \in Msgs |-> 0]

Known(m) == copies[m] > unknown[m]
Delivering(m) == stage[m] \in {"sending", "kept"}
Shown(m) == shown[m] \notin {"none", "purged"}

Begin(m) ==
    /\ stage[m] = "new"
    /\ stage' = [stage EXCEPT ![m] = "sending"]
    /\ UNCHANGED <<shown, copies, unknown>>

\* The provider takes another copy, and it is known or not.
Take(m) ==
    /\ Delivering(m) /\ ~ Known(m)
    /\ copies' = [copies EXCEPT ![m] = @ + 1]
    /\ unknown' \in {unknown, [unknown EXCEPT ![m] = @ + 1]}
    /\ UNCHANGED <<stage, shown>>

\* What was known is forgotten before it is recorded.
Forget(m) ==
    /\ Delivering(m) /\ Known(m)
    /\ unknown' = [unknown EXCEPT ![m] = @ + 1]
    /\ UNCHANGED <<stage, shown, copies>>

\* Recorded as what is known of it. A purged message stays purged.
Record(m, s) ==
    /\ Delivering(m)
    /\ s = "sent" <=> Known(m)
    /\ shown' = [shown EXCEPT ![m] = IF @ = "purged" THEN @ ELSE s]
    /\ stage' = [stage EXCEPT ![m] = IF s = "queued" THEN @ ELSE "over"]
    /\ UNCHANGED <<copies, unknown>>

Keep(m) ==
    /\ stage[m] = "sending" /\ ~ Known(m)
    /\ stage' = [stage EXCEPT ![m] = "kept"]
    /\ UNCHANGED <<shown, copies, unknown>>

Lose(m) ==
    /\ stage[m] = "sending"
    /\ stage' = [stage EXCEPT ![m] = "over"]
    /\ UNCHANGED <<shown, copies, unknown>>

\* A notification may name another message than the one that bounced.
Bounce(m) ==
    /\ Shown(m)
    /\ \E k \in Msgs : copies[k] > 0
    /\ shown' = [shown EXCEPT ![m] = "bounced"]
    /\ UNCHANGED <<stage, copies, unknown>>

Purge(m) ==
    /\ Shown(m)
    /\ shown' = [shown EXCEPT ![m] = "purged"]
    /\ UNCHANGED <<stage, copies, unknown>>

Next ==
    \E m \in Msgs :
        \/ Begin(m) \/ Take(m) \/ Forget(m) \/ Keep(m) \/ Lose(m)
        \/ Bounce(m) \/ Purge(m)
        \/ \E s \in {"queued", "sent", "failed"} : Record(m, s)

\* Keeping a message is a promise: it is not left "queued forever where nobody
\* looks" (drainOutbox).
Settles == \A m \in Msgs : stage[m] = "kept" ~> stage[m] = "over"

\* What it promises of each step, and in the end.
Safety == Init /\ [][Next]_vars
Spec == Safety /\ Settles

-----------------------------------------------------------------------------
\* A second copy is taken only when an earlier one is not known of, and what is
\* shown as sent was taken.
Truthful ==
    \A m \in Msgs :
        /\ copies[m] <= unknown[m] + 1
        /\ shown[m] = "sent" => copies[m] > 0
        /\ shown[m] = "failed" => ~ Known(m)
=============================================================================
