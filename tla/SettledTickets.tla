---------------------------- MODULE SettledTickets --------------------------
(***************************************************************************)
(* Single sign-on and single sign-out under every interleaving, failed     *)
(* command and crash.                                                      *)
(*                                                                         *)
(* grantServiceTicket and destroyTicketGrantingTicket each work on a copy  *)
(* of the TGT, so a write-back that overlaps another request on the same   *)
(* TGT may be lost or come too late: no promise covers every ticket.  Two  *)
(* history variables tell for which tickets the promises hold.  No guard   *)
(* reads them; the service runs as without them.                           *)
(***************************************************************************)
EXTENDS TicketProperties

VARIABLES
  written,  \* service tickets a TGT that tracks them has been written back with
  settled   \* those of them the session answers for

history == <<written, settled>>

\* The session a service ticket was granted in.
SessionOf(st) == ledger[st].root

\* The service tickets a copy of a TGT tracks.
Tracked(tgt) == {p[1] : p \in tgt.services}

\* a has a copy of the TGT g to write back, or is deleting g.
HasInHand(a, g) ==
  \/ thread[a].back # NoTicket /\ thread[a].back.id = g
  \/ thread[a].target = g

\* This step is t's write-back of its TGT, and the command does not fail.
WritesBack(t) == thread[t].pc = "putBack" /\ thread'[t] # thread[t] /\ faults' = faults

\* A stored ticket settles when its TGT, never deleted so far, is written back
\* with it while nobody else has that TGT in hand.
Settles(st) ==
  /\ st \in Stored
  /\ \E t \in Thread :
       LET tgt == thread[t].back
       IN /\ WritesBack(t) /\ st \in Tracked(tgt)
          /\ tgt.id \notin revoked
          /\ \A a \in Actor \ {t} : ~HasInHand(a, tgt.id)

\* Under TrackOnlyLatest a newer ticket for the same service takes its place.
Superseded(st) ==
  /\ TrackOnlyLatest
  /\ \E new \in St : /\ Fresh(new) /\ ledger'[new] # NoTicket
                     /\ ledger'[new].root = SessionOf(st)
                     /\ ledger'[new].service = ledger[st].service

\* deleteTicket goes on although its DEL of st has failed.
Missed(st) ==
  /\ faults' # faults
  /\ \E a \in Actor : /\ thread[a].pc = "delChildren" /\ thread'[a].pc # "idle"
                      /\ st \in thread[a].todo \ thread'[a].todo

Remember ==
  /\ written' = written \cup UNION {Tracked(thread[t].back) : t \in {u \in Thread : WritesBack(u)}}
  /\ settled' = {st \in settled : ~Superseded(st) /\ ~Missed(st)} \cup {st \in St : Settles(st)}

RememberedInit == Init /\ written = {} /\ settled = {}

RememberedNext == Next /\ Remember

RememberedSpec == RememberedInit /\ [][RememberedNext]_<<vars, history>>

-----------------------------------------------------------------------------
\* A service that may not use SSO gets a ticket only from a session whose TGT
\* has never been written back for another ticket, however many stale copies
\* of the TGT are written over each other: its count of uses never falls to 0.
NoSsoNeedsFreshSession ==
  [][\A st \in St :
       Fresh(st) /\ ~Fresh(st)' /\ ledger'[st].service \notin SsoService =>
         \A other \in written : SessionOf(other) # ledger'[st].root]_<<vars, history>>

\* a turns to the deletion of the TGT g: a logout of a session that is not
\* over, or a cleaner that found the TGT expired.
EndsSession(a, g) ==
  /\ thread[a].pc \in {"idle", "scan"} /\ thread'[a].pc = "delete"
  /\ thread'[a].target = g
  /\ \/ thread'[a].op = "destroy" /\ ~IsExpired(redis[g], now)
     \/ thread'[a].op = "clean"

\* Whoever ends a session has told the service of every settled ticket of it
\* before the first DEL: no later write-back has lost one.
SignOutIsComplete ==
  [][\A a \in Actor, g \in Tgt, st \in settled :
       EndsSession(a, g) /\ SessionOf(st) = g => st \in notified']_<<vars, history>>

\* The sessions of the javadoc: closed once deleteTicket has deleted the TGT,
\* with the settled tickets that are still in Redis.
stateOf == [g \in Tgt |-> IF g \in revoked THEN "closed"
                          ELSE IF Mem(g) THEN "open" ELSE "none"]

liveOf == {<<st, SessionOf(st)>> : st \in settled \cap Stored}

Session == INSTANCE SsoSession
             WITH Session <- Tgt, Id <- St, state <- stateOf, live <- liveOf

\* With its settled tickets for its tickets, the cluster implements a session
\* that closes after them, whatever the interleaving of its commands, the
\* failures, crashes and tickets tracked no more.
SessionsCloseLast == Session!Spec
=============================================================================
