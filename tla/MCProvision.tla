---------------------------- MODULE MCProvision ----------------------------
EXTENDS Overview, TLC

\* Organizations (all are admins), names and requests differ in nothing but
\* their own names.
Symmetry == Permutations(Orgs) \cup Permutations(Names) \cup Permutations(Requests)
============================================================================
