----------------------------- MODULE MCWakeups -----------------------------
\* Wakeups for TLC: the bodies of the index take one unit, two and none.
EXTENDS Wakeups

ThreeSizes == <<1, 2, 0>>
=============================================================================
