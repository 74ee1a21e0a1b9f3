------------------------------ MODULE MCPages ------------------------------
(* Pages for TLC: three old messages, the first two of one thread; two rules *)
(* that fit one message each; two windows, the shorter without the second.   *)
EXTENDS Pages, TLC

TwoThreads == <<1, 1, 2>>
TwoRules == [a |-> {1}, b |-> {2}]
TwoWindows == [short |-> {1}, wide |-> {1, 2}]
Alike == Permutations(Tabs)
=============================================================================
