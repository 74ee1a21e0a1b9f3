------------------------------ MODULE MCLists ------------------------------
EXTENDS Lists, TLC

\* Messages differ only in whether they match.
Symmetry == Permutations(Matching) \cup Permutations(Msgs \ Matching)
============================================================================
