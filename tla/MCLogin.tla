------------------------------ MODULE MCLogin -------------------------------
\* Small instances of the login flow inside the throttle for TLC.
EXTENDS LoginFlow, TLC

CONSTANTS t1, t2, k1

TwoThreads == {t1, t2}
NoCleaner == {}
OneKey == {k1}

Links == {[renew |-> FALSE, service |-> FALSE], [renew |-> TRUE, service |-> TRUE]}

Interchangeable == Permutations(Thread)

ClocksAgree == {[ahead |-> [a \in Actor |-> 0], serial |-> FALSE]}
=============================================================================
