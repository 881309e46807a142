----------------------------- MODULE CasTickets -----------------------------
(***************************************************************************)
(* The tickets of the single sign-on server as VALUES.  Redis holds        *)
(* serialised copies and every read of a ticket deserialises a new one, so *)
(* a ticket is a record here and never a shared object: a copy in a        *)
(* thread's hand and the copy in Redis evolve apart.                       *)
(*                                                                         *)
(* The classes of the tickets belong to the CAS 4.2 libraries.  They are   *)
(* modelled from the calls CentralAuthenticationServiceImpl,               *)
(* RedisTicketRegistry and TicketRegistryCleaner make on them.             *)
(***************************************************************************)
EXTENDS Naturals, FiniteSets

CONSTANTS
  Tgt,              \* ids of ticket-granting tickets (one per SSO session)
  RememberMe,       \* those of them created by a remember-me login
  St, Pt, Pgt,      \* ids of service, proxy and proxy-granting tickets
  Service,          \* services that ask for tickets
  NoTicket, NoService,
  MaxTimeToLive,    \* tgt.maxTimeToLiveInSeconds: hard limit and Redis TTL
  TimeToKill,       \* tgt.timeToKillInSeconds: inactivity limit
  RememberMeIdle,   \* tgt.timeout.maxTimeToLiveInSeconds
  RememberMeTtl,    \* tgc.remember.me.maxAge: Redis TTL of those sessions
  StTimeToKill,     \* st.timeToKillInSeconds: life of a ST and its Redis TTL
  PtTimeToKill,     \* pt.timeToKillInSeconds
  NumberOfUses,     \* st.numberOfUses
  PtNumberOfUses,   \* pt.numberOfUses (not set: the library's 1)
  Forever,          \* the limit of a session that has none
  TrackOnlyLatest   \* tgt.onlyTrackMostRecentSession

TicketId  == Tgt \cup St \cup Pt \cup Pgt
Validable == St \cup Pt          \* what a service may present for validation
Granting  == Tgt \cup Pgt        \* instances of TicketGrantingTicket

(***************************************************************************)
(* limit:    when the ticket expires whatever it is used for: the copy of  *)
(*           its granting ticket it embeds expires then (for a TGT, the    *)
(*           hard limit of the session)                                    *)
(* deadline: when the ticket itself expires, never after its limit         *)
(* services: the service tickets a TGT tracks for single sign-out          *)
(***************************************************************************)
Ticket == [id       : TicketId,
           root     : Tgt,
           service  : Service \cup {NoService},
           limit    : Nat,
           deadline : Nat,
           uses     : Nat,
           services : SUBSET (St \X Service)]

ASSUME TimesAssumption ==
  /\ {MaxTimeToLive, TimeToKill, RememberMeIdle, RememberMeTtl,
      StTimeToKill, PtTimeToKill, Forever} \subseteq Nat
  /\ {NumberOfUses, PtNumberOfUses} \subseteq Nat \ {0}
  /\ TrackOnlyLatest \in BOOLEAN

ASSUME IdsAssumption ==
  /\ RememberMe \subseteq Tgt
  /\ Tgt \cap (St \cup Pt \cup Pgt) = {}
  /\ St \cap (Pt \cup Pgt) = {}
  /\ Pt \cap Pgt = {}

ASSUME NoTicketAssumption ==
  NoTicket \notin Ticket /\ NoTicket \notin TicketId /\ NoService \notin Service

Earlier(a, b) == IF a <= b THEN a ELSE b

(***************************************************************************)
(* Expiration policies: rememberMeDelegatingExpirationPolicy for granting  *)
(* tickets, multiTimeUseOrTimeoutExpirationPolicy for the others.  A       *)
(* ticket is also expired when the copy of its granting ticket is.         *)
(***************************************************************************)
Idle(root) == IF root \in RememberMe THEN RememberMeIdle ELSE TimeToKill

UsesOf(id) == IF id \in St THEN NumberOfUses ELSE PtNumberOfUses

IsExpired(tkt, time) ==
  \/ time >= tkt.deadline
  \/ tkt.id \in Validable /\ tkt.uses >= UsesOf(tkt.id)

\* TicketGrantingTicketFactory.create, called at the time of the login.
NewTgt(id, time) ==
  LET limit == IF id \in RememberMe THEN Forever ELSE time + MaxTimeToLive
  IN  [id |-> id, root |-> id, service |-> NoService, limit |-> limit,
       deadline |-> Earlier(limit, time + Idle(id)), uses |-> 0, services |-> {}]

\* Mutations of AfterGrant: it extends the session; it counts no use.
AfterGrantRenewsLimit(tgt, id, service, time) ==
  [tgt EXCEPT !.uses = @ + 1, !.limit = time + MaxTimeToLive,
              !.deadline = time + Idle(tgt.root),
              !.services = IF id \in St THEN @ \cup {<<id, service>>} ELSE @]

AfterGrantCountsNoUse(tgt, id, service, time) ==
  [tgt EXCEPT !.deadline = Earlier(tgt.limit, time + Idle(tgt.root)),
              !.services = IF id \in St THEN @ \cup {<<id, service>>} ELSE @]

\* What granting a ticket does to the copy of the granting ticket: it counts
\* one more use, restarts the inactivity period and tracks the new ticket,
\* forgetting the earlier ones of that service under TrackOnlyLatest.
AfterGrant(tgt, id, service, time) ==
  LET kept == IF TrackOnlyLatest THEN {p \in tgt.services : p[2] # service}
                                 ELSE tgt.services
  IN  [tgt EXCEPT !.uses     = @ + 1,
                  !.deadline = Earlier(tgt.limit, time + Idle(tgt.root)),
                  !.services = IF id \in St THEN kept \cup {<<id, service>>}
                                            ELSE @]

\* ServiceTicketFactory.create and ProxyTicketFactory.create.  `granting' is
\* the copy of the granting ticket that AfterGrant returned.
NewServiceTicket(id, granting, service, time) ==
  LET life == IF id \in St THEN StTimeToKill ELSE PtTimeToKill
  IN  [id |-> id, root |-> granting.root, service |-> service,
       limit |-> granting.deadline,
       deadline |-> Earlier(granting.deadline, time + life),
       uses |-> 0, services |-> {}]

\* ProxyGrantingTicketFactory.create(serviceTicket, authentication): a child
\* of the TGT copy the service ticket embeds.
NewPgt(id, st, time) ==
  LET limit == Earlier(st.limit, time + MaxTimeToLive)
  IN  [id |-> id, root |-> st.root, service |-> st.service, limit |-> limit,
       deadline |-> Earlier(limit, time + TimeToKill),
       uses |-> 0, services |-> {}]

\* Whose remember-me flag a ticket's Redis TTL depends on: the authentication
\* a PGT carries is the one of the proxying service, which has none.
IsRememberMeTicket(tkt) == tkt.id \in RememberMe

\* Mutation of GetTimeout: no case for remember-me.
GetTimeoutIgnoresRememberMe(tkt) ==
  IF tkt.id \in Granting THEN MaxTimeToLive ELSE StTimeToKill

\* RedisTicketRegistry.getTimeout: the Redis TTL of a ticket, counted again
\* from every write of it.
GetTimeout(tkt) ==
  IF tkt.id \in Granting
  THEN IF IsRememberMeTicket(tkt) THEN RememberMeTtl ELSE MaxTimeToLive
  ELSE StTimeToKill
=============================================================================
