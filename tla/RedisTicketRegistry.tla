------------------------ MODULE RedisTicketRegistry -------------------------
(***************************************************************************)
(* The Redis server behind RedisTicketRegistry and the commands the        *)
(* registry sends to it.  One operator is one Redis command: what two      *)
(* commands of a thread have between them, other threads of this and of    *)
(* the other nodes may change.                                             *)
(*                                                                         *)
(* A command may fail (a timeout, a lost connection): the registry logs    *)
(* the exception and goes on, a write as if it had been made, a read as if *)
(* the ticket did not exist.  `faults' is how many failures are left.      *)
(***************************************************************************)
EXTENDS CasTickets

CONSTANTS MaxNow, MaxFaults     \* bounds of the clock and of the failures

ASSUME BoundsAssumption == MaxNow \in Nat /\ MaxFaults \in Nat

VARIABLES
  now,      \* the wall clock
  redis,    \* key -> the ticket stored under it
  ttl,      \* key -> when Redis drops it
  faults    \* failures and crashes that may still happen

registryVars == <<now, redis, ttl, faults>>

RegistryTypeOK ==
  /\ now \in 0..MaxNow
  /\ redis \in [TicketId -> Ticket \cup {NoTicket}]
  /\ ttl \in [TicketId -> Nat]
  /\ faults \in 0..MaxFaults

RegistryInit ==
  /\ now = 0
  /\ redis = [id \in TicketId |-> NoTicket]
  /\ ttl = [id \in TicketId |-> 0]
  /\ faults = MaxFaults

Stored == {id \in TicketId : redis[id] # NoTicket}

\* addTicket: encode, SET with the ticket's own TTL.
AddTicket(tkt) ==
  /\ redis' = [redis EXCEPT ![tkt.id] = tkt]
  /\ ttl' = [ttl EXCEPT ![tkt.id] = now + GetTimeout(tkt)]
  /\ UNCHANGED <<now, faults>>

\* deleteSingleTicket: DEL, whether or not the key exists.
DeleteSingleTicket(id) ==
  /\ redis' = [redis EXCEPT ![id] = NoTicket]
  /\ ttl' = [ttl EXCEPT ![id] = 0]
  /\ UNCHANGED <<now, faults>>

\* A command that threw: nothing stored changes, nobody hears of it.
CommandFails ==
  /\ faults > 0
  /\ faults' = faults - 1
  /\ UNCHANGED <<now, redis, ttl>>

\* getTicket: null when the key does not exist or the command threw.
GetTicket(id, tkt) ==
  \/ tkt = redis[id] /\ UNCHANGED registryVars
  \/ tkt = NoTicket /\ redis[id] # NoTicket /\ CommandFails

\* Time passes and Redis drops the keys whose TTL has run out.
Tick ==
  /\ now < MaxNow
  /\ now' = now + 1
  /\ LET gone == {id \in TicketId : ttl[id] <= now + 1}
     IN /\ redis' = [id \in TicketId |-> IF id \in gone THEN NoTicket ELSE redis[id]]
        /\ ttl' = [id \in TicketId |-> IF id \in gone THEN 0 ELSE ttl[id]]
  /\ UNCHANGED faults
=============================================================================
