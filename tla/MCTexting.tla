----------------------------- MODULE MCTexting -----------------------------
EXTENDS Texting, TLC

\* One person in two organizations.
CONSTANTS a1, a2, p
MCUserOf == [a \in {a1, a2} |-> p]
Symmetry == Permutations(Accounts) \cup Permutations(Numbers) \cup Permutations(Workers)
=============================================================================
