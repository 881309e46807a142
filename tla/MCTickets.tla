------------------------------ MODULE MCTickets -----------------------------
\* Small instances of the ticket service for TLC.
EXTENDS TicketProperties, TLC

CONSTANTS t1, t2, c1, g1, s1, s2, s3, p1, q1, web, mail

NoIds == {}
OneThread == {t1}
TwoThreads == {t1, t2}
OneCleaner == {c1}
OneTgt == {g1}
OneSt == {s1}
TwoSts == {s1, s2}
ThreeSts == {s1, s2, s3}
OnePt == {p1}
OnePgt == {q1}
Services == {web, mail}
OnlyWeb == {web}

Interchangeable == Permutations(Thread) \cup Permutations(St)
=============================================================================
