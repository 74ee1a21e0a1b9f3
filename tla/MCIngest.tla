------------------------------ MODULE MCIngest ------------------------------
(* Ingest with mails for TLC: m2 is a reply to m1. There is a message at     *)
(* Gmail, which nobody imports.                                              *)
EXTENDS Arrivals, TLC

CONSTANTS m1, m2

MCParent == [e \in Mails |-> IF e = m2 THEN m1 ELSE NoMail]
MCKinds == {[m \in 1..N |-> "fine"]}

\* The runs are interchangeable.
MCSymmetry == Permutations(Runs)
=============================================================================
