------------------------------- MODULE MCSpa -------------------------------
\* A small instance of the single-page application's sessions for TLC.
EXTENDS SpaSessions, TLC

CONSTANTS s1, s2

TwoSlots == {s1, s2}

\* The slots are alike: nothing of the module or of its properties tells them
\* apart.
AlikeSlots == Permutations(TwoSlots)
=============================================================================
