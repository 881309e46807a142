------------------------------ MODULE MCForget ------------------------------
\* Small instances of the password recovery for TLC: every account has one
\* mail and one phone, and the two accounts share neither.
EXTENDS ForgetPassword, TLC

CONSTANTS u1, u2, a1, a2, e1, e2

TwoUsers == {u1, u2}
OneUser == {u1}
TwoAddresses == {a1, a2}
OneAddress == {a1}
TwoExecutions == {e1, e2}
OneEach == {<<u1, a1>>, <<u2, a2>>}
OneEntry == {<<u1, a1>>}

Interchangeable == Permutations({e1, e2})
=============================================================================
