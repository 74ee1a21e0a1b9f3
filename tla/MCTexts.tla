------------------------------ MODULE MCTexts ------------------------------
EXTENDS Texts, TLC

\* Each account is another person's.
MCUserOf == [a \in Accounts |-> a]
Symmetry == Permutations(Browsers)
=============================================================================
