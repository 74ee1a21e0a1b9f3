------------------------------ MODULE MCFiling ------------------------------
EXTENDS Filing, TLC

\* Neither folders nor sorters are told apart, and the properties are invariants.
MCSymmetry == Permutations(Folders) \cup Permutations(Sorters)
=============================================================================
