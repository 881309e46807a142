--------------------------- MODULE TicketProperties -------------------------
(***************************************************************************)
(* What the ticket service of the cluster promises, whatever the           *)
(* interleaving of its threads and cleaners, failed commands and crashes;  *)
(* and, at the end, a promise of its javadoc that it breaks.               *)
(***************************************************************************)
EXTENDS TicketRegistryCleaner

Mem(id) == ledger[id] # NoTicket      \* the ticket has been created

\* Every copy of a ticket: in Redis or in a thread's hands.
Copies == {redis[id] : id \in TicketId} \cup {thread[a].new : a \in Actor}
            \cup {thread[a].back : a \in Actor}

(***************************************************************************)
(* Safety under every interleaving.                                        *)
(***************************************************************************)

\* No copy of a ticket, however stale, and however often a thread writes an
\* old TGT back over a newer one (lines 187-188 of grantServiceTicket), is
\* valid beyond the hard limit fixed when its session was created.
InSession(tkt) ==
  /\ Mem(tkt.root)
  /\ tkt.limit <= ledger[tkt.root].limit
  /\ tkt.deadline <= tkt.limit

HardLimit == \A tkt \in Copies \ {NoTicket} : InSession(tkt)

\* Redis never drops a ticket that could still be used: the TTL that
\* getTimeout computes outlasts the ticket's own expiration policy.
RedisOutlastsPolicy ==
  \A id \in Stored : redis[id].deadline <= ttl[id]

(***************************************************************************)
(* The cluster implements the abstract life of a service ticket: a copy    *)
(* nobody but the granting thread has is pending, a stored one is live.    *)
(***************************************************************************)
Pending(id) == \E a \in Actor : thread[a].new # NoTicket /\ thread[a].new.id = id

lifeOf == [id \in Validable |->
             IF ~Mem(id) THEN "none"
             ELSE IF id \in Stored THEN "live"
             ELSE IF Pending(id) THEN "pending" ELSE "gone"]

serviceOf == [id \in Validable |-> IF Mem(id) THEN ledger[id].service ELSE NoService]

Life == INSTANCE ServiceTicketLife
          WITH Id <- Validable, life <- lifeOf, grantedFor <- serviceOf, uses <- accepts

\* Under every interleaving, crash and failed command, a ticket is accepted
\* only while it is stored and only for its own service, and a ticket that
\* left Redis, however it did, never comes back: addTicket writes it once.
TicketLife == Life!Spec

(***************************************************************************)
(* Liveness.                                                               *)
(***************************************************************************)

\* Once its hard limit is over, a session leaves Redis for good, even if a
\* slow request still holds a copy of the TGT to write back.
OverSessionsLeave ==
  \A id \in Tgt : Mem(id) /\ now >= ledger[id].limit ~> [](id \notin Stored)

\* A ticket that has expired does not stay in Redis: it is swept, or a
\* request that read it in time writes a refreshed copy.
ExpiredIsSwept ==
  \A id \in TicketId : id \in Stored /\ IsExpired(redis[id], now)
                         ~> (id \in Stored => ~IsExpired(redis[id], now))

(***************************************************************************)
(* Single sign-out as the javadoc of destroyTicketGrantingTicket has it.   *)
(***************************************************************************)

\* Destroying the TGT invalidates any ticket derived from it.
DestroyInvalidatesDerived ==
  \A tgt \in Tgt \cap revoked : \A id \in Stored : redis[id].root # tgt
=============================================================================
