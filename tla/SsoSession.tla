----------------------------- MODULE SsoSession -----------------------------
(***************************************************************************)
(* Single sign-on and single sign-out as the javadoc of                    *)
(* destroyTicketGrantingTicket promises them: tickets join an open session *)
(* only, and a session is closed, for good, only when no ticket of it is   *)
(* live any more.                                                          *)
(***************************************************************************)
EXTENDS FiniteSets

CONSTANTS Session, Id

VARIABLES
  state,     \* session -> "none", "open" or "closed"
  live       \* the live tickets of a session, each with that session

sessionVars == <<state, live>>

Init ==
  /\ state = [g \in Session |-> "none"]
  /\ live = {}

Open(g) ==
  /\ state[g] = "none"
  /\ state' = [state EXCEPT ![g] = "open"]
  /\ UNCHANGED live

Join(g, ids) ==
  /\ state[g] = "open"
  /\ live' = live \cup {<<id, g>> : id \in ids}
  /\ UNCHANGED state

\* Tickets end, or the session no longer answers for them.
End(ended) ==
  /\ live' = live \ ended
  /\ UNCHANGED state

Close(g) ==
  /\ state[g] = "open"
  /\ \A p \in live : p[2] # g
  /\ state' = [state EXCEPT ![g] = "closed"]
  /\ UNCHANGED live

Next ==
  \/ \E g \in Session : Open(g) \/ Close(g)
  \/ \E g \in Session, ids \in SUBSET Id : Join(g, ids)
  \/ \E ended \in SUBSET live : End(ended)

Spec == Init /\ [][Next]_sessionVars
=============================================================================
