------------------------ MODULE CentralAuthentication -----------------------
(***************************************************************************)
(* CentralAuthenticationServiceImpl: request threads of every node, working*)
(* on the shared RedisTicketRegistry.  Each action is at most one Redis    *)
(* command, with the code that runs before the next one.  Nothing locks a  *)
(* ticket across two commands (the `synchronized' blocks of the code hold  *)
(* a copy nobody else has), so all interleavings of these actions exist.   *)
(*                                                                         *)
(* A request that is refused, or a read that fails outside deleteTicket,   *)
(* changes nothing: those are stuttering steps.                            *)
(***************************************************************************)
EXTENDS RedisTicketRegistry

CONSTANTS
  Thread,           \* request threads
  Cleaner,          \* ticket registry cleaner jobs, one per node
  Registered,       \* services the services manager finds and enables
  SsoService,       \* those of them that may use an existing session
  ProxyService,     \* those of them whose proxy policy allows proxying
  MaxAccepts        \* bound on the validations of one ticket

Actor == Thread \cup Cleaner

ASSUME ServicesAssumption ==
  /\ Registered \subseteq Service
  /\ SsoService \subseteq Registered
  /\ ProxyService \subseteq Registered
  /\ MaxAccepts \in Nat

VARIABLES
  thread,   \* what each actor is doing and the ticket copies in its hands
  ledger,   \* id -> the ticket as it was created (what the audit log keeps)
  accepts,  \* ticket -> service -> how often it was validated for it
  revoked,  \* the keys a DEL command has been executed for
  notified  \* the service tickets whose service was sent a logout request

casVars == <<thread, ledger, accepts, revoked, notified>>
vars == <<registryVars, casVars>>

(***************************************************************************)
(* new:    the ticket the thread is about to add                           *)
(* back:   the granting ticket it writes back after that                   *)
(* target: the ticket deleteTicket works on, todo its children             *)
(* scan:   keys a cleaner's SCAN still has to visit                        *)
(***************************************************************************)
Ops == {"none", "login", "grant", "proxy", "pgt", "validate", "destroy", "clean"}
Pcs == {"idle", "add", "putBack", "delete", "delChildren", "delSelf", "scan"}

ThreadRecord == [op     : Ops,
                 pc     : Pcs,
                 new    : Ticket \cup {NoTicket},
                 back   : Ticket \cup {NoTicket},
                 target : TicketId \cup {NoTicket},
                 todo   : SUBSET TicketId,
                 scan   : SUBSET TicketId]

\* A thread has in its hands what its next step needs.
ThreadState ==
  {th \in ThreadRecord :
     /\ th.pc = "add" => th.new # NoTicket
     /\ th.pc = "putBack" => th.back # NoTicket
     /\ th.pc \in {"delete", "delChildren", "delSelf"} => th.target # NoTicket}

Waiting == [op |-> "none", pc |-> "idle", new |-> NoTicket, back |-> NoTicket,
            target |-> NoTicket, todo |-> {}, scan |-> {}]

Init ==
  /\ RegistryInit
  /\ thread = [a \in Actor |-> Waiting]
  /\ ledger = [id \in TicketId |-> NoTicket]
  /\ accepts = [id \in Validable |-> [s \in Service |-> 0]]
  /\ revoked = {}
  /\ notified = {}

TypeOK ==
  /\ RegistryTypeOK
  /\ thread \in [Actor -> ThreadState]
  /\ ledger \in [TicketId -> Ticket \cup {NoTicket}]
  /\ accepts \in [Validable -> [Service -> 0..MaxAccepts]]
  /\ revoked \subseteq TicketId
  /\ notified \subseteq St

Fresh(id) == ledger[id] = NoTicket

\* The thread turns to adding `new', then to writing `back' unless it is NoTicket.
BeginAdd(t, op, new, back) ==
  thread' = [thread EXCEPT ![t] =
    [Waiting EXCEPT !.op = op, !.pc = "add", !.new = new, !.back = back]]

\* The thread calls deleteTicket; a cleaner's scan goes on after it.
BeginDelete(a, op, id) ==
  thread' = [thread EXCEPT ![a] =
    [Waiting EXCEPT !.op = op, !.pc = "delete", !.target = id,
                    !.scan = thread[a].scan \ {id}]]

\* What the actor does when a call it made is over.
Resumed(a) ==
  IF thread[a].scan = {} THEN Waiting
  ELSE [Waiting EXCEPT !.op = "clean", !.pc = "scan", !.scan = thread[a].scan]

-----------------------------------------------------------------------------
(***************************************************************************)
(* The requests.                                                           *)
(***************************************************************************)

\* The id of a TGT leaves the login's thread with its cookie, after the last
\* write of the ticket: until then no request can name it.
Known(id) ==
  \A t \in Thread : thread[t].op = "login" =>
    \A tkt \in {thread[t].new, thread[t].back} \ {NoTicket} : tkt.id # id

\* createTicketGrantingTicket.  SPALoginController adds the ticket again.
CreateTicketGrantingTicket(t, id, again) ==
  /\ thread[t] = Waiting
  /\ Fresh(id)
  /\ LET tgt == NewTgt(id, now)
     IN /\ ledger' = [ledger EXCEPT ![id] = tgt]
        /\ BeginAdd(t, "login", tgt, IF again THEN tgt ELSE NoTicket)
  /\ UNCHANGED <<registryVars, accepts, revoked, notified>>

\* AbstractCentralAuthenticationService.getTicket found a granting ticket
\* that has expired: it deletes it and the request fails.
DropExpired(t, op, id) ==
  /\ thread[t] = Waiting
  /\ Known(id)
  /\ redis[id] # NoTicket
  /\ IsExpired(redis[id], now)
  /\ BeginDelete(t, op, id)
  /\ UNCHANGED <<registryVars, ledger, accepts, revoked, notified>>

MayGrant(tgt, service) ==
  /\ service \in Registered
  /\ tgt.uses > 0 => service \in SsoService

\* grantServiceTicket, up to the first write: the ticket is created from the
\* copy of the TGT that was read, and that copy is what is written back.
GrantServiceTicket(t, id, st, service) ==
  /\ thread[t] = Waiting
  /\ Known(id)
  /\ Fresh(st)
  /\ redis[id] # NoTicket
  /\ ~IsExpired(redis[id], now)
  /\ MayGrant(redis[id], service)
  /\ LET tgt == AfterGrant(redis[id], st, service, now)
         new == NewServiceTicket(st, tgt, service, now)
     IN /\ ledger' = [ledger EXCEPT ![st] = new]
        /\ BeginAdd(t, "grant", new, tgt)
  /\ UNCHANGED <<registryVars, accepts, revoked, notified>>

\* grantProxyTicket: as above for a PGT, which is not written back.
GrantProxyTicket(t, id, pt, service) ==
  /\ thread[t] = Waiting
  /\ Fresh(pt)
  /\ redis[id] # NoTicket
  /\ ~IsExpired(redis[id], now)
  /\ service \in SsoService
  /\ LET pgt == AfterGrant(redis[id], pt, service, now)
         new == NewServiceTicket(pt, pgt, service, now)
     IN /\ ledger' = [ledger EXCEPT ![pt] = new]
        /\ BeginAdd(t, "proxy", new, NoTicket)
  /\ UNCHANGED <<registryVars, accepts, revoked, notified>>

\* createProxyGrantingTicket: an expired service ticket is refused, not deleted.
CreateProxyGrantingTicket(t, id, pgt) ==
  /\ thread[t] = Waiting
  /\ Fresh(pgt)
  /\ redis[id] # NoTicket
  /\ ~IsExpired(redis[id], now)
  /\ redis[id].service \in ProxyService
  /\ LET new == NewPgt(pgt, redis[id], now)
     IN /\ ledger' = [ledger EXCEPT ![pgt] = new]
        /\ BeginAdd(t, "pgt", new, NoTicket)
  /\ UNCHANGED <<registryVars, accepts, revoked, notified>>

\* Mutation of ValidateServiceTicket: no isValidFor.
ValidateServiceTicketForAny(t, id, service) ==
  /\ thread[t] = Waiting
  /\ service \in Registered
  /\ redis[id] # NoTicket
  /\ ~IsExpired(redis[id], now)
  /\ accepts[id][service] < MaxAccepts
  /\ accepts' = [accepts EXCEPT ![id][service] = @ + 1]
  /\ BeginDelete(t, "validate", id)
  /\ UNCHANGED <<registryVars, ledger, revoked, notified>>

\* validateServiceTicket: the use is counted on the copy that was read; only
\* if that copy is expired then does the `finally' clause touch the registry.
ValidateServiceTicket(t, id, service) ==
  /\ thread[t] = Waiting
  /\ service \in Registered
  /\ redis[id] # NoTicket
  /\ LET st   == redis[id]
         dead == IsExpired(st, now)
         used == IF dead THEN st ELSE [st EXCEPT !.uses = @ + 1]
     IN /\ IF ~dead /\ st.service = service
           THEN /\ accepts[id][service] < MaxAccepts
                /\ accepts' = [accepts EXCEPT ![id][service] = @ + 1]
           ELSE UNCHANGED accepts
        /\ IF IsExpired(used, now)
           THEN BeginDelete(t, "validate", id)
           ELSE UNCHANGED thread
  /\ UNCHANGED <<registryVars, ledger, revoked, notified>>

\* Mutation of PerformLogout: it stops after the first service.
PerformLogoutOfOne(tgt) ==
  notified' = notified \cup IF tgt.services = {} THEN {}
                            ELSE {(CHOOSE p \in tgt.services : TRUE)[1]}

\* LogoutManager.performLogout on a copy: a request for each tracked session.
PerformLogout(tgt) == notified' = notified \cup {p[1] : p \in tgt.services}

\* destroyTicketGrantingTicket, up to deleteTicket.
DestroyTicketGrantingTicket(t, id) ==
  /\ thread[t] = Waiting
  /\ Known(id)
  /\ redis[id] # NoTicket
  /\ ~IsExpired(redis[id], now)
  /\ PerformLogout(redis[id])
  /\ BeginDelete(t, "destroy", id)
  /\ UNCHANGED <<registryVars, ledger, accepts, revoked>>

-----------------------------------------------------------------------------
(***************************************************************************)
(* The registry calls the requests go on to make.                          *)
(***************************************************************************)

\* Mutation of AddNew: it always turns to a TGT to write back.
AddNewAlwaysPutsBack(t) ==
  /\ thread[t].pc = "add"
  /\ AddTicket(thread[t].new) \/ CommandFails
  /\ thread' = [thread EXCEPT ![t].pc = "putBack", ![t].new = NoTicket]
  /\ UNCHANGED <<ledger, accepts, revoked, notified>>

\* addTicket, whose failure is swallowed: the caller goes on either way.
AddNew(t) ==
  /\ thread[t].pc = "add"
  /\ AddTicket(thread[t].new) \/ CommandFails
  /\ thread' = [thread EXCEPT ![t] =
       IF @.back = NoTicket THEN Waiting
       ELSE [@ EXCEPT !.pc = "putBack", !.new = NoTicket]]
  /\ UNCHANGED <<ledger, accepts, revoked, notified>>

\* addTicket of the granting ticket: a plain SET, whatever is there by now.
PutBack(t) ==
  /\ thread[t].pc = "putBack"
  /\ AddTicket(thread[t].back) \/ CommandFails
  /\ thread' = [thread EXCEPT ![t] = Waiting]
  /\ UNCHANGED <<ledger, accepts, revoked, notified>>

\* Mutation of DeleteTicket: the children come last.
DeleteTicketChildrenLast(a) ==
  /\ thread[a].pc = "delete"
  /\ LET tkt  == redis[thread[a].target]
         todo == IF tkt = NoTicket THEN {} ELSE {p[1] : p \in tkt.services}
     IN /\ DeleteSingleTicket(thread[a].target)
        /\ revoked' = revoked \cup {thread[a].target}
        /\ thread' = [thread EXCEPT ![a] =
             IF todo = {} THEN Resumed(a) ELSE [@ EXCEPT !.pc = "delChildren", !.todo = todo]]
  /\ UNCHANGED <<ledger, accepts, notified>>

\* AbstractTicketRegistry.deleteTicket reads the ticket again for its children.
DeleteTicket(a) ==
  /\ thread[a].pc = "delete"
  /\ \E tkt \in {redis[thread[a].target], NoTicket} :
       /\ GetTicket(thread[a].target, tkt)
       /\ LET todo == IF tkt = NoTicket THEN {} ELSE {p[1] : p \in tkt.services}
          IN thread' = [thread EXCEPT ![a] =
               IF tkt = NoTicket THEN Resumed(a)
               ELSE [@ EXCEPT !.pc = IF todo = {} THEN "delSelf" ELSE "delChildren",
                              !.todo = todo]]
  /\ UNCHANGED <<ledger, accepts, revoked, notified>>

\* ... deletes each service ticket the copy tracks ...
DeleteChild(a) ==
  /\ thread[a].pc = "delChildren"
  /\ \E id \in thread[a].todo :
       /\ \/ DeleteSingleTicket(id) /\ revoked' = revoked \cup {id}
          \/ CommandFails /\ UNCHANGED revoked
       /\ thread' = [thread EXCEPT
            ![a].todo = @ \ {id},
            ![a].pc = IF thread[a].todo = {id} THEN "delSelf" ELSE "delChildren"]
  /\ UNCHANGED <<ledger, accepts, notified>>

\* ... and then the ticket itself.
DeleteSelf(a) ==
  /\ thread[a].pc = "delSelf"
  /\ \/ /\ DeleteSingleTicket(thread[a].target)
        /\ revoked' = revoked \cup {thread[a].target}
     \/ CommandFails /\ UNCHANGED revoked
  /\ thread' = [thread EXCEPT ![a] = Resumed(a)]
  /\ UNCHANGED <<ledger, accepts, notified>>

DeleteSteps(a) == DeleteTicket(a) \/ DeleteChild(a) \/ DeleteSelf(a)

\* The node dies between two commands (or, for a cleaner, an exception ends
\* the scan): what it had in its hands is lost, what Redis stores is not.
Crash(a) ==
  /\ thread[a] # Waiting
  /\ CommandFails
  /\ thread' = [thread EXCEPT ![a] = Waiting]
  /\ UNCHANGED <<ledger, accepts, revoked, notified>>

Request(t) ==
  \/ \E id \in Tgt, again \in BOOLEAN : CreateTicketGrantingTicket(t, id, again)
  \/ \E id \in Tgt, st \in St, s \in Service : GrantServiceTicket(t, id, st, s)
  \/ \E id \in Pgt, pt \in Pt, s \in Service : GrantProxyTicket(t, id, pt, s)
  \/ \E id \in Validable, pgt \in Pgt : CreateProxyGrantingTicket(t, id, pgt)
  \/ \E id \in Validable, s \in Service : ValidateServiceTicket(t, id, s)
  \/ \E id \in Tgt : DestroyTicketGrantingTicket(t, id)
  \/ \E id \in Tgt : DropExpired(t, "grant", id) \/ DropExpired(t, "destroy", id)
  \/ \E id \in Pgt : DropExpired(t, "proxy", id)

ThreadSteps(t) == AddNew(t) \/ PutBack(t) \/ DeleteSteps(t)
=============================================================================
