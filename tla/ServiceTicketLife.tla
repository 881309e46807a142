-------------------------- MODULE ServiceTicketLife -------------------------
(***************************************************************************)
(* What a service may rely on about a ticket it is shown, without Redis,   *)
(* threads or time: a ticket is granted for one service, may be lost       *)
(* before it is published, is accepted only for its service and only while *)
(* it is live, and is never heard of again once it is gone.                *)
(***************************************************************************)
EXTENDS Naturals

CONSTANTS Id, Service, NoService

VARIABLES life, grantedFor, uses

lifeVars == <<life, grantedFor, uses>>

Lives == {"none", "pending", "live", "gone"}

Init ==
  /\ life = [id \in Id |-> "none"]
  /\ grantedFor = [id \in Id |-> NoService]
  /\ uses = [id \in Id |-> [s \in Service |-> 0]]

Grant(id, s) ==
  /\ life[id] = "none"
  /\ life' = [life EXCEPT ![id] = "pending"]
  /\ grantedFor' = [grantedFor EXCEPT ![id] = s]
  /\ UNCHANGED uses

Publish(id) ==
  /\ life[id] = "pending"
  /\ life' = [life EXCEPT ![id] = "live"]
  /\ UNCHANGED <<grantedFor, uses>>

Accept(id, s) ==
  /\ life[id] = "live"
  /\ grantedFor[id] = s
  /\ uses' = [uses EXCEPT ![id][s] = @ + 1]
  /\ UNCHANGED <<life, grantedFor>>

\* Tickets expire, are revoked or are lost, several of them at once.
End(ids) ==
  /\ \A id \in ids : life[id] \in {"pending", "live"}
  /\ life' = [id \in Id |-> IF id \in ids THEN "gone" ELSE life[id]]
  /\ UNCHANGED <<grantedFor, uses>>

Next ==
  \/ \E id \in Id, s \in Service : Grant(id, s) \/ Accept(id, s)
  \/ \E id \in Id : Publish(id)
  \/ \E ids \in SUBSET Id : End(ids)

Spec == Init /\ [][Next]_lifeVars
=============================================================================
