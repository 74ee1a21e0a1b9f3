------------------------------ MODULE MCImport ------------------------------
EXTENDS Import

\* All three messages are fine; or one cannot be brought in, and one is not taken.
MCFine == [m \in Mail |-> "fine"]
MCKinds == {MCFine, [MCFine EXCEPT ![2] = "poison", ![3] = "unfit"]}
=============================================================================
