----------------------------- MODULE MCThrottle -----------------------------
(***************************************************************************)
(* Two POSTs of one session and the job: interleaved at every Redis        *)
(* command, the node of t1 with a clock that runs ahead; or one operation  *)
(* after the other, the clocks alike.                                      *)
(***************************************************************************)
EXTENDS LoginThrottle

CONSTANTS t1, t2, c1, k1

MCThread == {t1, t2}
MCCleaner == {c1}
MCKey == {k1}

MCSetups ==
  {[ahead |-> [a \in Actor |-> IF a = t1 THEN 2 ELSE 0], serial |-> FALSE],
   [ahead |-> [a \in Actor |-> 0], serial |-> TRUE]}
=============================================================================
