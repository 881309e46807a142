------------------------------ MODULE Promise -------------------------------
(***************************************************************************)
(* What a Deferred promises the page: it settles at most once, for good,   *)
(* and whoever is told of it is told how it settled, and with what.        *)
(***************************************************************************)
CONSTANT Def

VARIABLES
  outcome,    \* [how, with] of each Deferred
  telling     \* [of, how, with] for each callback that is running

promiseVars == <<outcome, telling>>

Pending == [how |-> "pending", with |-> <<>>]

Init == outcome = [d \in Def |-> Pending] /\ telling = {}

\* Callbacks return, or are thrown out of.
Return == telling' \subseteq telling /\ UNCHANGED outcome

\* A Deferred settles, while callbacks of others run.
Settle(d) ==
  /\ outcome[d] = Pending
  /\ outcome'[d].how \in {"resolved", "rejected"}
  /\ outcome' = [outcome EXCEPT ![d] = outcome'[d]]
  /\ telling' \subseteq telling

\* A callback is told.
Tell(d) ==
  /\ outcome[d] # Pending
  /\ telling' = telling \union {[of |-> d, how |-> outcome[d].how, with |-> outcome[d].with]}
  /\ UNCHANGED outcome

Next == Return \/ \E d \in Def : Settle(d) \/ Tell(d)

Spec == Init /\ [][Next]_promiseVars
=============================================================================
