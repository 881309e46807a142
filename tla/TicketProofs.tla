----------------------------- MODULE TicketProofs ---------------------------
(***************************************************************************)
(* Theorems about the ticket service, for every set of tickets, services,  *)
(* threads and cleaners and every value of the timeouts.                   *)
(***************************************************************************)
EXTENDS SettledTickets, TLAPS

USE TimesAssumption, IdsAssumption, NoTicketAssumption, BoundsAssumption, ServicesAssumption

-----------------------------------------------------------------------------
(***************************************************************************)
(* The operators tickets are made with.                                    *)
(***************************************************************************)

\* Earlier returns one of two times and is not after the other.
LEMMA EarlierIsBound ==
  ASSUME NEW a \in Nat, NEW b \in Nat
  PROVE  Earlier(a, b) \in Nat /\ Earlier(a, b) <= a /\ Earlier(a, b) <= b
BY DEF Earlier

\* The TGT a login creates is a ticket of its own session.
LEMMA NewTgtIsTicket ==
  ASSUME NEW id \in Tgt, NEW time \in Nat
  PROVE  /\ NewTgt(id, time) \in Ticket
         /\ NewTgt(id, time).id = id
         /\ NewTgt(id, time).root = id
         /\ NewTgt(id, time).deadline <= NewTgt(id, time).limit
<1> DEFINE limit == IF id \in RememberMe THEN Forever ELSE time + MaxTimeToLive
<1>1. limit \in Nat /\ time + Idle(id) \in Nat
  BY DEF Idle
<1>2. /\ Earlier(limit, time + Idle(id)) \in Nat
      /\ Earlier(limit, time + Idle(id)) <= limit
  BY <1>1, EarlierIsBound
<1> HIDE DEF limit
<1>3. NewTgt(id, time) = [id |-> id, root |-> id, service |-> NoService, limit |-> limit,
       deadline |-> Earlier(limit, time + Idle(id)), uses |-> 0, services |-> {}]
  BY DEF NewTgt, limit
<1> QED
  BY <1>1, <1>2, <1>3 DEF Ticket, TicketId

\* Granting a ticket leaves the granting copy a ticket of the same session
\* with the same limit.
LEMMA AfterGrantIsTicket ==
  ASSUME NEW tgt \in Ticket, NEW id \in TicketId, NEW service \in Service, NEW time \in Nat
  PROVE  /\ AfterGrant(tgt, id, service, time) \in Ticket
         /\ AfterGrant(tgt, id, service, time).id = tgt.id
         /\ AfterGrant(tgt, id, service, time).root = tgt.root
         /\ AfterGrant(tgt, id, service, time).limit = tgt.limit
         /\ AfterGrant(tgt, id, service, time).deadline <= tgt.limit
<1> DEFINE kept == IF TrackOnlyLatest THEN {p \in tgt.services : p[2] # service}
                                      ELSE tgt.services
           tracked == IF id \in St THEN kept \cup {<<id, service>>} ELSE tgt.services
<1>1. tracked \in SUBSET (St \X Service)
  BY DEF Ticket
<1>2. time + Idle(tgt.root) \in Nat /\ tgt.limit \in Nat /\ tgt.uses + 1 \in Nat
  BY DEF Idle, Ticket
<1>3. /\ Earlier(tgt.limit, time + Idle(tgt.root)) \in Nat
      /\ Earlier(tgt.limit, time + Idle(tgt.root)) <= tgt.limit
  BY <1>2, EarlierIsBound
<1>4. AfterGrant(tgt, id, service, time) =
        [tgt EXCEPT !.uses = tgt.uses + 1,
                    !.deadline = Earlier(tgt.limit, time + Idle(tgt.root)),
                    !.services = tracked]
  BY DEF AfterGrant, Ticket
<1> HIDE DEF tracked
<1> QED
  BY <1>1, <1>2, <1>3, <1>4 DEF Ticket

\* A granted ticket belongs to the session of its granting ticket, whose
\* copy it embeds limits it.
LEMMA NewServiceTicketIsTicket ==
  ASSUME NEW id \in Validable, NEW granting \in Ticket, NEW service \in Service, NEW time \in Nat
  PROVE  /\ NewServiceTicket(id, granting, service, time) \in Ticket
         /\ NewServiceTicket(id, granting, service, time).id = id
         /\ NewServiceTicket(id, granting, service, time).root = granting.root
         /\ NewServiceTicket(id, granting, service, time).limit = granting.deadline
         /\ NewServiceTicket(id, granting, service, time).deadline <= granting.deadline
<1> DEFINE life == IF id \in St THEN StTimeToKill ELSE PtTimeToKill
<1>1. granting.deadline \in Nat /\ time + life \in Nat
  BY DEF Ticket
<1>2. /\ Earlier(granting.deadline, time + life) \in Nat
      /\ Earlier(granting.deadline, time + life) <= granting.deadline
  BY <1>1, EarlierIsBound
<1> HIDE DEF life
<1>3. NewServiceTicket(id, granting, service, time) =
        [id |-> id, root |-> granting.root, service |-> service,
         limit |-> granting.deadline,
         deadline |-> Earlier(granting.deadline, time + life),
         uses |-> 0, services |-> {}]
  BY DEF NewServiceTicket, life
<1> QED
  BY <1>1, <1>2, <1>3 DEF Ticket, TicketId, Validable

\* The same for a PGT and the TGT copy its service ticket embeds.
LEMMA NewPgtIsTicket ==
  ASSUME NEW id \in Pgt, NEW st \in Ticket, NEW time \in Nat
  PROVE  /\ NewPgt(id, st, time) \in Ticket
         /\ NewPgt(id, st, time).id = id
         /\ NewPgt(id, st, time).root = st.root
         /\ NewPgt(id, st, time).limit <= st.limit
         /\ NewPgt(id, st, time).deadline <= NewPgt(id, st, time).limit
<1> DEFINE limit == Earlier(st.limit, time + MaxTimeToLive)
<1>1. /\ limit \in Nat /\ limit <= st.limit
      /\ time + TimeToKill \in Nat
  BY EarlierIsBound DEF Ticket
<1> HIDE DEF limit
<1>2. /\ Earlier(limit, time + TimeToKill) \in Nat
      /\ Earlier(limit, time + TimeToKill) <= limit
  BY <1>1, EarlierIsBound
<1>3. NewPgt(id, st, time) =
        [id |-> id, root |-> st.root, service |-> st.service, limit |-> limit,
         deadline |-> Earlier(limit, time + TimeToKill), uses |-> 0, services |-> {}]
  BY DEF NewPgt, limit
<1> QED
  BY <1>1, <1>2, <1>3 DEF Ticket, TicketId
-----------------------------------------------------------------------------
(***************************************************************************)
(* Type correctness.                                                       *)
(***************************************************************************)

\* What the registry's commands preserve.
LEMMA AddTicketType ==
  ASSUME RegistryTypeOK, NEW tkt \in Ticket, AddTicket(tkt)
  PROVE  RegistryTypeOK'
<1>1. GetTimeout(tkt) \in Nat
  BY DEF GetTimeout
<1>2. now \in Nat /\ now + GetTimeout(tkt) \in Nat
  BY <1>1 DEF RegistryTypeOK
<1> HIDE DEF GetTimeout
<1> QED
  BY <1>2 DEF RegistryTypeOK, AddTicket

LEMMA DeleteSingleTicketType ==
  ASSUME RegistryTypeOK, NEW id \in TicketId, DeleteSingleTicket(id)
  PROVE  RegistryTypeOK'
BY DEF RegistryTypeOK, DeleteSingleTicket

LEMMA CommandFailsType ==
  ASSUME RegistryTypeOK, CommandFails
  PROVE  RegistryTypeOK'
BY DEF RegistryTypeOK, CommandFails

LEMMA TickType ==
  ASSUME RegistryTypeOK, Tick
  PROVE  RegistryTypeOK'
BY DEF RegistryTypeOK, Tick

LEMMA UnchangedRegistryType ==
  ASSUME RegistryTypeOK, UNCHANGED registryVars
  PROVE  RegistryTypeOK'
BY DEF RegistryTypeOK, registryVars

\* An actor's state stays one when it begins or resumes something.
LEMMA BeginAddType ==
  ASSUME TypeOK, NEW t \in Actor, NEW op \in Ops, NEW new \in Ticket,
         NEW back \in Ticket \cup {NoTicket}, BeginAdd(t, op, new, back)
  PROVE  thread' \in [Actor -> ThreadState]
BY DEF TypeOK, BeginAdd, ThreadState, ThreadRecord, Waiting, Pcs, Ops

LEMMA BeginDeleteType ==
  ASSUME TypeOK, NEW a \in Actor, NEW op \in Ops, NEW id \in TicketId,
         BeginDelete(a, op, id)
  PROVE  thread' \in [Actor -> ThreadState]
BY DEF TypeOK, BeginDelete, ThreadState, ThreadRecord, Waiting, Pcs, Ops

LEMMA WaitingType == Waiting \in ThreadState
BY DEF ThreadState, ThreadRecord, Waiting, Pcs, Ops

LEMMA ResumedType ==
  ASSUME TypeOK, NEW a \in Actor
  PROVE  Resumed(a) \in ThreadState
BY DEF TypeOK, Resumed, ThreadState, ThreadRecord, Waiting, Pcs, Ops

\* Creating a ticket enters it in the ledger.
LEMMA LedgerType ==
  ASSUME TypeOK, NEW id \in TicketId, NEW tkt \in Ticket,
         ledger' = [ledger EXCEPT ![id] = tkt]
  PROVE  ledger' \in [TicketId -> Ticket \cup {NoTicket}]
BY DEF TypeOK

\* Every action of the requests, of the registry calls they make and of the
\* cleaners keeps every variable in its type.
LEMMA TypeOKStep == TypeOK /\ [Next]_vars => TypeOK'
<1> SUFFICES ASSUME TypeOK, [Next]_vars PROVE TypeOK'
  OBVIOUS
<1>t. \A a \in Actor : thread[a] \in ThreadState
  BY DEF TypeOK
<1>r. RegistryTypeOK /\ now \in Nat
  BY DEF TypeOK, RegistryTypeOK
<1>1. ASSUME NEW t \in Thread, NEW id \in Tgt, NEW again \in BOOLEAN,
             CreateTicketGrantingTicket(t, id, again)
      PROVE  TypeOK'
  <2> DEFINE tgt == NewTgt(id, now)
  <2>1. tgt \in Ticket /\ t \in Actor /\ id \in TicketId /\ "login" \in Ops
    BY <1>r, NewTgtIsTicket DEF Actor, TicketId, Ops
  <2> HIDE DEF tgt
  <2>2. /\ ledger' = [ledger EXCEPT ![id] = tgt]
        /\ BeginAdd(t, "login", tgt, IF again THEN tgt ELSE NoTicket)
        /\ UNCHANGED <<registryVars, accepts, revoked, notified>>
    BY <1>1 DEF CreateTicketGrantingTicket, tgt
  <2>3. thread' \in [Actor -> ThreadState]
    BY <2>1, <2>2, BeginAddType
  <2>4. ledger' \in [TicketId -> Ticket \cup {NoTicket}]
    BY <2>1, <2>2, LedgerType
  <2> QED
    BY <1>r, <2>2, <2>3, <2>4, UnchangedRegistryType DEF TypeOK
<1>2. ASSUME NEW t \in Thread, NEW id \in Granting, NEW op \in Ops, DropExpired(t, op, id)
      PROVE  TypeOK'
  <2>1. t \in Actor /\ id \in TicketId
    BY DEF Actor, TicketId, Granting
  <2>2. thread' \in [Actor -> ThreadState]
    BY <1>2, <2>1, BeginDeleteType DEF DropExpired
  <2> QED
    BY <1>2, <1>r, <2>2, UnchangedRegistryType DEF TypeOK, DropExpired
<1>3. ASSUME NEW t \in Thread, NEW id \in Tgt, NEW st \in St, NEW s \in Service,
             GrantServiceTicket(t, id, st, s)
      PROVE  TypeOK'
  <2> DEFINE tgt == AfterGrant(redis[id], st, s, now)
             new == NewServiceTicket(st, tgt, s, now)
  <2>1. /\ t \in Actor /\ st \in TicketId /\ st \in Validable /\ "grant" \in Ops
        /\ redis[id] \in Ticket
    BY <1>3, <1>r DEF Actor, TicketId, Validable, Ops, GrantServiceTicket, RegistryTypeOK
  <2>2. tgt \in Ticket
    BY <2>1, <1>r, AfterGrantIsTicket
  <2>3. new \in Ticket
    <3> HIDE DEF tgt
    <3> QED BY <2>1, <2>2, <1>r, NewServiceTicketIsTicket
  <2>4. /\ ledger' = [ledger EXCEPT ![st] = new]
        /\ BeginAdd(t, "grant", new, tgt)
        /\ UNCHANGED <<registryVars, accepts, revoked, notified>>
    BY <1>3 DEF GrantServiceTicket
  <2> HIDE DEF tgt, new
  <2>5. thread' \in [Actor -> ThreadState]
    BY <2>1, <2>2, <2>3, <2>4, BeginAddType
  <2>6. ledger' \in [TicketId -> Ticket \cup {NoTicket}]
    BY <2>1, <2>3, <2>4, LedgerType
  <2> QED
    BY <1>r, <2>4, <2>5, <2>6, UnchangedRegistryType DEF TypeOK
<1>4. ASSUME NEW t \in Thread, NEW id \in Pgt, NEW pt \in Pt, NEW s \in Service,
             GrantProxyTicket(t, id, pt, s)
      PROVE  TypeOK'
  <2> DEFINE pgt == AfterGrant(redis[id], pt, s, now)
             new == NewServiceTicket(pt, pgt, s, now)
  <2>1. /\ t \in Actor /\ pt \in TicketId /\ pt \in Validable /\ "proxy" \in Ops
        /\ redis[id] \in Ticket
    BY <1>4, <1>r DEF Actor, TicketId, Validable, Ops, GrantProxyTicket, RegistryTypeOK
  <2>2. pgt \in Ticket
    BY <2>1, <1>r, AfterGrantIsTicket
  <2>3. new \in Ticket
    <3> HIDE DEF pgt
    <3> QED BY <2>1, <2>2, <1>r, NewServiceTicketIsTicket
  <2>4. /\ ledger' = [ledger EXCEPT ![pt] = new]
        /\ BeginAdd(t, "proxy", new, NoTicket)
        /\ UNCHANGED <<registryVars, accepts, revoked, notified>>
    BY <1>4 DEF GrantProxyTicket
  <2> HIDE DEF pgt, new
  <2>5. thread' \in [Actor -> ThreadState]
    BY <2>1, <2>3, <2>4, BeginAddType
  <2>6. ledger' \in [TicketId -> Ticket \cup {NoTicket}]
    BY <2>1, <2>3, <2>4, LedgerType
  <2> QED
    BY <1>r, <2>4, <2>5, <2>6, UnchangedRegistryType DEF TypeOK
<1>5. ASSUME NEW t \in Thread, NEW id \in Validable, NEW pgt \in Pgt,
             CreateProxyGrantingTicket(t, id, pgt)
      PROVE  TypeOK'
  <2> DEFINE new == NewPgt(pgt, redis[id], now)
  <2>1. /\ t \in Actor /\ pgt \in TicketId /\ "pgt" \in Ops
        /\ redis[id] \in Ticket
    BY <1>5, <1>r DEF Actor, TicketId, Validable, Ops, CreateProxyGrantingTicket, RegistryTypeOK
  <2>2. new \in Ticket
    BY <2>1, <1>r, NewPgtIsTicket
  <2>3. /\ ledger' = [ledger EXCEPT ![pgt] = new]
        /\ BeginAdd(t, "pgt", new, NoTicket)
        /\ UNCHANGED <<registryVars, accepts, revoked, notified>>
    BY <1>5 DEF CreateProxyGrantingTicket
  <2> HIDE DEF new
  <2>4. thread' \in [Actor -> ThreadState]
    BY <2>1, <2>2, <2>3, BeginAddType
  <2>5. ledger' \in [TicketId -> Ticket \cup {NoTicket}]
    BY <2>1, <2>2, <2>3, LedgerType
  <2> QED
    BY <1>r, <2>3, <2>4, <2>5, UnchangedRegistryType DEF TypeOK
<1>6. ASSUME NEW t \in Thread, NEW id \in Validable, NEW s \in Service,
             ValidateServiceTicket(t, id, s)
      PROVE  TypeOK'
  <2>1. t \in Actor /\ id \in TicketId /\ "validate" \in Ops
    BY DEF Actor, TicketId, Validable, Ops
  <2>2. thread' \in [Actor -> ThreadState]
    <3>1. CASE UNCHANGED thread
      BY <3>1 DEF TypeOK
    <3>2. CASE BeginDelete(t, "validate", id)
      BY <3>2, <2>1, BeginDeleteType
    <3> QED
      BY <3>1, <3>2, <1>6 DEF ValidateServiceTicket
  <2>3. accepts' \in [Validable -> [Service -> 0..MaxAccepts]]
    <3>1. CASE UNCHANGED accepts
      BY <3>1 DEF TypeOK
    <3>2. CASE /\ accepts[id][s] < MaxAccepts
               /\ accepts' = [accepts EXCEPT ![id][s] = @ + 1]
      BY <3>2 DEF TypeOK
    <3> QED
      BY <3>1, <3>2, <1>6 DEF ValidateServiceTicket
  <2> QED
    BY <1>6, <1>r, <2>2, <2>3, UnchangedRegistryType DEF TypeOK, ValidateServiceTicket
<1>7. ASSUME NEW a \in Actor, NEW id \in TicketId, redis[id] # NoTicket, PerformLogout(redis[id])
      PROVE  notified' \subseteq St
  <2>1. redis[id].services \in SUBSET (St \X Service)
    BY <1>7, <1>r DEF RegistryTypeOK, Ticket
  <2> QED
    BY <1>7, <2>1 DEF PerformLogout, TypeOK
<1>8. ASSUME NEW t \in Thread, NEW id \in Tgt, DestroyTicketGrantingTicket(t, id)
      PROVE  TypeOK'
  <2>1. t \in Actor /\ id \in TicketId /\ "destroy" \in Ops
    BY DEF Actor, TicketId, Ops
  <2>2. thread' \in [Actor -> ThreadState]
    BY <1>8, <2>1, BeginDeleteType DEF DestroyTicketGrantingTicket
  <2>3. notified' \subseteq St
    BY <1>7, <1>8, <2>1 DEF DestroyTicketGrantingTicket
  <2> QED
    BY <1>8, <1>r, <2>2, <2>3, UnchangedRegistryType DEF TypeOK, DestroyTicketGrantingTicket
<1>9. ASSUME NEW t \in Actor, AddNew(t)
      PROVE  TypeOK'
  <2>1. thread[t].new \in Ticket
    BY <1>9, <1>t DEF AddNew, ThreadState, ThreadRecord
  <2>2. RegistryTypeOK'
    BY <1>9, <1>r, <2>1, AddTicketType, CommandFailsType DEF AddNew
  <2>3. thread' \in [Actor -> ThreadState]
    <3> DEFINE rest == [thread[t] EXCEPT !.pc = "putBack", !.new = NoTicket]
    <3>2. ASSUME thread[t].back # NoTicket PROVE rest \in ThreadState
      BY <1>t, <3>2 DEF ThreadState, ThreadRecord, Pcs
    <3> HIDE DEF rest
    <3>3. thread' = [thread EXCEPT ![t] = IF thread[t].back = NoTicket THEN Waiting ELSE rest]
      BY <1>9 DEF AddNew, rest, TypeOK
    <3> QED
      BY <3>2, <3>3, WaitingType DEF TypeOK
  <2> QED
    BY <1>9, <2>2, <2>3 DEF TypeOK, AddNew
<1>10. ASSUME NEW t \in Actor, PutBack(t)
       PROVE  TypeOK'
  <2>1. thread[t].back \in Ticket
    BY <1>10, <1>t DEF PutBack, ThreadState, ThreadRecord
  <2>2. RegistryTypeOK'
    BY <1>10, <1>r, <2>1, AddTicketType, CommandFailsType DEF PutBack
  <2>3. thread' \in [Actor -> ThreadState]
    BY <1>10, WaitingType DEF PutBack, TypeOK
  <2> QED
    BY <1>10, <2>2, <2>3 DEF TypeOK, PutBack
<1>11. ASSUME NEW a \in Actor, DeleteTicket(a)
       PROVE  TypeOK'
  <2>1. /\ thread[a].target \in TicketId
        /\ thread[a].pc = "delete"
    BY <1>11, <1>t DEF DeleteTicket, ThreadState, ThreadRecord
  <2>2. PICK tkt \in {redis[thread[a].target], NoTicket} :
          /\ GetTicket(thread[a].target, tkt)
          /\ LET todo == IF tkt = NoTicket THEN {} ELSE {p[1] : p \in tkt.services}
             IN thread' = [thread EXCEPT ![a] =
                  IF tkt = NoTicket THEN Resumed(a)
                  ELSE [@ EXCEPT !.pc = IF todo = {} THEN "delSelf" ELSE "delChildren",
                                 !.todo = todo]]
    BY <1>11 DEF DeleteTicket
  <2>3. RegistryTypeOK'
    BY <2>2, <1>r, CommandFailsType, UnchangedRegistryType DEF GetTicket
  <2> DEFINE todo == IF tkt = NoTicket THEN {} ELSE {p[1] : p \in tkt.services}
             rest == [thread[a] EXCEPT !.pc = IF todo = {} THEN "delSelf" ELSE "delChildren",
                                       !.todo = todo]
  <2>4. todo \in SUBSET TicketId
    BY <2>1, <1>r DEF RegistryTypeOK, Ticket, TicketId
  <2>5. rest \in ThreadState
    <3> HIDE DEF todo
    <3> QED BY <1>t, <2>1, <2>4 DEF ThreadState, ThreadRecord, Pcs
  <2>6. thread' = [thread EXCEPT ![a] = IF tkt = NoTicket THEN Resumed(a) ELSE rest]
    BY <2>2 DEF TypeOK
  <2> HIDE DEF rest
  <2>7. thread' \in [Actor -> ThreadState]
    BY <2>5, <2>6, ResumedType DEF TypeOK
  <2> QED
    BY <1>11, <2>3, <2>7 DEF TypeOK, DeleteTicket
<1>12. ASSUME NEW a \in Actor, DeleteChild(a)
       PROVE  TypeOK'
  <2>1. PICK id \in thread[a].todo :
          /\ \/ DeleteSingleTicket(id) /\ revoked' = revoked \cup {id}
             \/ CommandFails /\ UNCHANGED revoked
          /\ thread' = [thread EXCEPT
               ![a].todo = @ \ {id},
               ![a].pc = IF thread[a].todo = {id} THEN "delSelf" ELSE "delChildren"]
    BY <1>12 DEF DeleteChild
  <2>2. id \in TicketId /\ thread[a].pc = "delChildren"
    BY <1>12, <1>t DEF ThreadState, ThreadRecord, DeleteChild
  <2>3. RegistryTypeOK' /\ revoked' \subseteq TicketId
    BY <2>1, <2>2, <1>r, DeleteSingleTicketType, CommandFailsType DEF TypeOK
  <2> DEFINE rest == [thread[a] EXCEPT !.todo = thread[a].todo \ {id},
                        !.pc = IF thread[a].todo = {id} THEN "delSelf" ELSE "delChildren"]
  <2>4. rest \in ThreadState
    BY <1>t, <2>2 DEF ThreadState, ThreadRecord, Pcs
  <2>5. thread' = [thread EXCEPT ![a] = rest]
    BY <2>1, <1>t DEF TypeOK, ThreadState, ThreadRecord
  <2> HIDE DEF rest
  <2>6. thread' \in [Actor -> ThreadState]
    BY <2>4, <2>5 DEF TypeOK
  <2> QED
    BY <1>12, <2>3, <2>6 DEF TypeOK, DeleteChild
<1>13. ASSUME NEW a \in Actor, DeleteSelf(a)
       PROVE  TypeOK'
  <2>1. thread[a].target \in TicketId
    BY <1>13, <1>t DEF DeleteSelf, ThreadState, ThreadRecord
  <2>2. RegistryTypeOK' /\ revoked' \subseteq TicketId
    BY <1>13, <2>1, <1>r, DeleteSingleTicketType, CommandFailsType DEF TypeOK, DeleteSelf
  <2>3. thread' \in [Actor -> ThreadState]
    BY <1>13, ResumedType DEF DeleteSelf, TypeOK
  <2> QED
    BY <1>13, <2>2, <2>3 DEF TypeOK, DeleteSelf
<1>14. ASSUME NEW c \in Cleaner, StartScan(c)
       PROVE  TypeOK'
  <2>1. c \in Actor /\ Stored \subseteq TicketId
    BY DEF Actor, Stored
  <2>2. thread' \in [Actor -> ThreadState]
    BY <1>14, <2>1 DEF StartScan, TypeOK, ThreadState, ThreadRecord, Waiting, Pcs, Ops
  <2> QED
    BY <1>14, <1>r, <2>2, UnchangedRegistryType DEF TypeOK, StartScan
<1>15. ASSUME NEW c \in Cleaner, VisitKey(c)
       PROVE  TypeOK'
  <2>1. c \in Actor /\ "clean" \in Ops
    BY DEF Actor, Ops
  <2>2. PICK id \in thread[c].scan :
         IF redis[id] # NoTicket /\ IsExpired(redis[id], now)
         THEN /\ BeginDelete(c, "clean", id)
              /\ IF id \in Granting THEN PerformLogout(redis[id])
                                    ELSE UNCHANGED notified
         ELSE /\ thread' = [thread EXCEPT ![c] =
                   IF thread[c].scan = {id} THEN Waiting
                   ELSE [thread[c] EXCEPT !.scan = thread[c].scan \ {id}]]
              /\ UNCHANGED notified
    BY <1>15 DEF VisitKey
  <2>3. id \in TicketId
    BY <2>1, <1>t DEF ThreadState, ThreadRecord
  <2>4. notified' \subseteq St
    BY <2>1, <2>2, <2>3, <1>7 DEF TypeOK
  <2> DEFINE rest == [thread[c] EXCEPT !.scan = thread[c].scan \ {id}]
  <2>5. rest \in ThreadState
    BY <1>t, <2>1 DEF ThreadState, ThreadRecord
  <2>6. \/ BeginDelete(c, "clean", id)
        \/ thread' = [thread EXCEPT ![c] = IF thread[c].scan = {id} THEN Waiting ELSE rest]
    BY <2>1, <2>2, <1>t DEF TypeOK, ThreadState, ThreadRecord
  <2> HIDE DEF rest
  <2>7. thread' \in [Actor -> ThreadState]
    BY <2>1, <2>3, <2>5, <2>6, BeginDeleteType, WaitingType DEF TypeOK
  <2> QED
    BY <1>15, <1>r, <2>4, <2>7, UnchangedRegistryType DEF TypeOK, VisitKey
<1>16. ASSUME NEW a \in Actor, Crash(a)
       PROVE  TypeOK'
  BY <1>16, <1>r, CommandFailsType, WaitingType DEF Crash, TypeOK
<1>17. ASSUME Tick, UNCHANGED casVars
       PROVE  TypeOK'
  BY <1>17, <1>r, TickType DEF casVars, TypeOK
<1>18. ASSUME UNCHANGED vars
       PROVE  TypeOK'
  BY <1>18, <1>r, UnchangedRegistryType DEF vars, casVars, TypeOK
<1>19. ASSUME NEW t \in Thread, Request(t)
       PROVE  TypeOK'
  BY <1>19, <1>1, <1>2, <1>3, <1>4, <1>5, <1>6, <1>8 DEF Request, Granting, Ops
<1>20. ASSUME NEW t \in Thread, ThreadSteps(t)
       PROVE  TypeOK'
  BY <1>20, <1>9, <1>10, <1>11, <1>12, <1>13 DEF ThreadSteps, DeleteSteps, Actor
<1>21. ASSUME NEW c \in Cleaner, CleanerSteps(c)
       PROVE  TypeOK'
  BY <1>21, <1>11, <1>12, <1>13, <1>14, <1>15 DEF CleanerSteps, DeleteSteps, Actor
<1> QED
  BY <1>16, <1>17, <1>18, <1>19, <1>20, <1>21 DEF Next

LEMMA TypeOKInit == Init => TypeOK
<1> SUFFICES ASSUME Init PROVE TypeOK
  OBVIOUS
<1>1. RegistryTypeOK
  BY DEF Init, RegistryInit, RegistryTypeOK
<1> QED
  BY <1>1, WaitingType DEF Init, TypeOK

\* Type correctness: whatever the threads, cleaners and failures do, Redis
\* holds tickets, and every actor has in its hands what its next step needs.
THEOREM TypeCorrect == Spec => []TypeOK
BY TypeOKInit, TypeOKStep, PTL DEF Spec

-----------------------------------------------------------------------------
(***************************************************************************)
(* The hard limit of a session, whatever stale copy of its TGT a thread    *)
(* writes back.  HardLimit is inductive relative to TypeOK: a step makes   *)
(* at most two new copies of tickets (CopiesOfThread, RequestKeepsLimit),  *)
(* each derived from one it read, and the limit only gets shorter.         *)
(***************************************************************************)
HIDE TimesAssumption
HIDE ServicesAssumption
HIDE BoundsAssumption
HIDE IdsAssumption

\* The ledger only grows: no step changes the entry of a ticket that exists.
LEMMA LedgerGrows ==
  TypeOK /\ [Next]_vars => \A id \in TicketId : Mem(id) => ledger'[id] = ledger[id]
<1> SUFFICES ASSUME TypeOK, [Next]_vars
             PROVE  \A id \in TicketId : Mem(id) => ledger'[id] = ledger[id]
  OBVIOUS
<1>1. ASSUME NEW new \in TicketId, Fresh(new), NEW tkt, ledger' = [ledger EXCEPT ![new] = tkt]
      PROVE  \A id \in TicketId : Mem(id) => ledger'[id] = ledger[id]
  BY <1>1 DEF Fresh, Mem, TypeOK
<1>2. ASSUME NEW t \in Thread, Request(t)
      PROVE  \/ UNCHANGED ledger
             \/ \E new \in TicketId, tkt \in {ledger'[i] : i \in TicketId} :
                  Fresh(new) /\ ledger' = [ledger EXCEPT ![new] = tkt]
  <2>1. ASSUME NEW new \in TicketId, Fresh(new), NEW tkt, ledger' = [ledger EXCEPT ![new] = tkt]
        PROVE  \E n \in TicketId, k \in {ledger'[i] : i \in TicketId} :
                  Fresh(n) /\ ledger' = [ledger EXCEPT ![n] = k]
    <3>1. ledger'[new] = tkt
      BY <2>1 DEF TypeOK
    <3> QED BY <2>1, <3>1
  <2>2. CASE \E id \in Tgt, again \in BOOLEAN : CreateTicketGrantingTicket(t, id, again)
    BY <2>1, <2>2 DEF CreateTicketGrantingTicket, TicketId
  <2>3. CASE \E id \in Tgt, st \in St, s \in Service : GrantServiceTicket(t, id, st, s)
    BY <2>1, <2>3 DEF GrantServiceTicket, TicketId
  <2>4. CASE \E id \in Pgt, pt \in Pt, s \in Service : GrantProxyTicket(t, id, pt, s)
    BY <2>1, <2>4 DEF GrantProxyTicket, TicketId
  <2>5. CASE \E id \in Validable, pgt \in Pgt : CreateProxyGrantingTicket(t, id, pgt)
    BY <2>1, <2>5 DEF CreateProxyGrantingTicket, TicketId
  <2>6. CASE \E id \in Validable, s \in Service : ValidateServiceTicket(t, id, s)
    BY <2>6 DEF ValidateServiceTicket
  <2>7. CASE \/ \E id \in Tgt : \/ DestroyTicketGrantingTicket(t, id)
                              \/ DropExpired(t, "grant", id) \/ DropExpired(t, "destroy", id)
             \/ \E id \in Pgt : DropExpired(t, "proxy", id)
    BY <2>7 DEF DestroyTicketGrantingTicket, DropExpired
  <2> QED
    BY <1>2, <2>2, <2>3, <2>4, <2>5, <2>6, <2>7 DEF Request
<1>3. CASE \E t \in Thread : Request(t)
  BY <1>1, <1>2, <1>3
<1>4. CASE ~\E t \in Thread : Request(t)
  BY <1>4 DEF Next, vars, casVars, ThreadSteps, CleanerSteps, DeleteSteps, AddNew, PutBack,
     DeleteTicket, DeleteChild, DeleteSelf, StartScan, VisitKey, Crash
<1> QED
  BY <1>3, <1>4

\* A copy that was within its session's limit stays so, and needs to be shown
\* so only when it is new.
LEMMA HardLimitByNewCopies ==
  ASSUME TypeOK, TypeOK', HardLimit, [Next]_vars,
         \A tkt \in Copies' \ {NoTicket} : tkt \in Copies \/ InSession(tkt)'
  PROVE  HardLimit'
<1> SUFFICES ASSUME NEW tkt \in Copies' \ {NoTicket}, tkt \in Copies PROVE InSession(tkt)'
  BY DEF HardLimit
<1>1. InSession(tkt) /\ tkt \in Ticket
  BY DEF HardLimit, Copies, TypeOK, RegistryTypeOK, ThreadState, ThreadRecord
<1>2. tkt.root \in TicketId
  BY <1>1 DEF Ticket, TicketId
<1> QED
  BY <1>1, <1>2, LedgerGrows DEF InSession, Mem

\* The copies there are after a step that only takes one actor's state on.
LEMMA CopiesOfThread ==
  ASSUME TypeOK, NEW a \in Actor, NEW th, thread' = [thread EXCEPT ![a] = th],
         UNCHANGED redis
  PROVE  Copies' \subseteq Copies \cup {th.new, th.back}
BY DEF Copies, TypeOK

\* No step but the creation of a ticket makes a copy there was not before.
LEMMA NoNewCopies ==
  ASSUME TypeOK, [Next]_vars, ~\E t \in Thread : Request(t)
  PROVE  Copies' \subseteq Copies \cup {NoTicket}
<1>1. \A a \in Actor : Resumed(a).new = NoTicket /\ Resumed(a).back = NoTicket
  BY DEF Resumed, Waiting
<1>2. Waiting.new = NoTicket /\ Waiting.back = NoTicket
  BY DEF Waiting
<1>3. \A a \in Actor : thread[a] \in ThreadRecord /\ thread[a].new \in Copies
                         /\ thread[a].back \in Copies
  BY DEF TypeOK, ThreadState, Copies
<1>4. ASSUME NEW a \in Actor, NEW tkt \in Copies, AddTicket(tkt) \/ CommandFails,
             NEW th, thread' = [thread EXCEPT ![a] = th], {th.new, th.back} \subseteq Copies \cup {NoTicket}
      PROVE  Copies' \subseteq Copies \cup {NoTicket}
  <2>1. \A id \in TicketId : redis'[id] \in Copies
    BY <1>4 DEF AddTicket, CommandFails, Copies, TypeOK, RegistryTypeOK
  <2>2. \A b \in Actor : {thread'[b].new, thread'[b].back} \subseteq Copies \cup {NoTicket}
    BY <1>3, <1>4 DEF TypeOK
  <2> QED
    BY <2>1, <2>2 DEF Copies
<1>5. ASSUME NEW a \in Actor, NEW id \in TicketId, DeleteSingleTicket(id) \/ CommandFails,
             NEW th, thread' = [thread EXCEPT ![a] = th], {th.new, th.back} \subseteq Copies \cup {NoTicket}
      PROVE  Copies' \subseteq Copies \cup {NoTicket}
  <2>1. \A i \in TicketId : redis'[i] \in Copies \cup {NoTicket}
    BY <1>5 DEF DeleteSingleTicket, CommandFails, Copies, TypeOK, RegistryTypeOK
  <2>2. \A b \in Actor : {thread'[b].new, thread'[b].back} \subseteq Copies \cup {NoTicket}
    BY <1>3, <1>5 DEF TypeOK
  <2> QED
    BY <2>1, <2>2 DEF Copies
<1>6. ASSUME NEW a \in Actor, AddNew(a)
      PROVE  Copies' \subseteq Copies \cup {NoTicket}
  <2> DEFINE th == IF thread[a].back = NoTicket THEN Waiting
                   ELSE [thread[a] EXCEPT !.pc = "putBack", !.new = NoTicket]
  <2>1. {th.new, th.back} \subseteq Copies \cup {NoTicket}
    BY <1>2, <1>3 DEF ThreadRecord
  <2>2. thread' = [thread EXCEPT ![a] = th] /\ (AddTicket(thread[a].new) \/ CommandFails)
    BY <1>6 DEF AddNew, TypeOK
  <2> HIDE DEF th
  <2> QED
    BY <1>3, <1>4, <2>1, <2>2
<1>7. ASSUME NEW a \in Actor, PutBack(a)
      PROVE  Copies' \subseteq Copies \cup {NoTicket}
  BY <1>2, <1>3, <1>4, <1>7 DEF PutBack
<1>8. ASSUME NEW a \in Actor, DeleteTicket(a)
      PROVE  Copies' \subseteq Copies \cup {NoTicket}
  <2>1. UNCHANGED redis
    BY <1>8 DEF DeleteTicket, GetTicket, registryVars, CommandFails
  <2>2. PICK tkt, todo :
          thread' = [thread EXCEPT ![a] =
             IF tkt = NoTicket THEN Resumed(a)
             ELSE [thread[a] EXCEPT !.pc = IF todo = {} THEN "delSelf" ELSE "delChildren",
                                    !.todo = todo]]
    BY <1>8 DEF DeleteTicket, TypeOK
  <2> DEFINE th == IF tkt = NoTicket THEN Resumed(a)
                   ELSE [thread[a] EXCEPT !.pc = IF todo = {} THEN "delSelf" ELSE "delChildren",
                                          !.todo = todo]
  <2>3. {th.new, th.back} \subseteq Copies \cup {NoTicket}
    BY <1>1, <1>3 DEF ThreadRecord
  <2>4. thread' = [thread EXCEPT ![a] = th]
    BY <2>2
  <2> HIDE DEF th
  <2> QED
    BY <2>1, <2>3, <2>4, CopiesOfThread
<1>9. ASSUME NEW a \in Actor, DeleteChild(a)
      PROVE  Copies' \subseteq Copies \cup {NoTicket}
  <2>1. PICK id \in thread[a].todo :
          /\ DeleteSingleTicket(id) \/ CommandFails
          /\ thread' = [thread EXCEPT
               ![a].todo = @ \ {id},
               ![a].pc = IF thread[a].todo = {id} THEN "delSelf" ELSE "delChildren"]
    BY <1>9 DEF DeleteChild
  <2> DEFINE th == [thread[a] EXCEPT !.todo = thread[a].todo \ {id},
                     !.pc = IF thread[a].todo = {id} THEN "delSelf" ELSE "delChildren"]
  <2>2. id \in TicketId
    BY <1>3 DEF ThreadRecord
  <2>3. {th.new, th.back} \subseteq Copies \cup {NoTicket}
    BY <1>3 DEF ThreadRecord
  <2>4. thread' = [thread EXCEPT ![a] = th]
    BY <1>3, <2>1 DEF TypeOK, ThreadRecord
  <2> HIDE DEF th
  <2> QED
    BY <1>5, <2>1, <2>2, <2>3, <2>4
<1>10. ASSUME NEW a \in Actor, DeleteSelf(a)
       PROVE  Copies' \subseteq Copies \cup {NoTicket}
  <2>1. thread[a].target \in TicketId
    BY <1>10 DEF DeleteSelf, TypeOK, ThreadState, ThreadRecord
  <2> QED
    BY <1>1, <1>5, <1>10, <2>1 DEF DeleteSelf
<1>11. ASSUME NEW c \in Cleaner, StartScan(c)
       PROVE  Copies' \subseteq Copies \cup {NoTicket}
  <2> DEFINE th == [Waiting EXCEPT !.op = "clean", !.pc = "scan", !.scan = Stored]
  <2>1. th.new = NoTicket /\ th.back = NoTicket
    BY DEF Waiting
  <2>2. thread' = [thread EXCEPT ![c] = th] /\ UNCHANGED redis /\ c \in Actor
    BY <1>11 DEF StartScan, registryVars, Actor
  <2> HIDE DEF th
  <2> QED
    BY <2>1, <2>2, CopiesOfThread
<1>12. ASSUME NEW c \in Cleaner, VisitKey(c)
       PROVE  Copies' \subseteq Copies \cup {NoTicket}
  <2>1. c \in Actor /\ UNCHANGED redis
    BY <1>12 DEF VisitKey, registryVars, Actor
  <2>2. PICK id : \/ BeginDelete(c, "clean", id)
                  \/ thread' = [thread EXCEPT ![c] = Waiting]
                  \/ thread' = [thread EXCEPT ![c] =
                       [thread[c] EXCEPT !.scan = thread[c].scan \ {id}]]
    BY <1>12 DEF VisitKey
  <2>3. CASE BeginDelete(c, "clean", id)
    <3> DEFINE th == [Waiting EXCEPT !.op = "clean", !.pc = "delete", !.target = id,
                                     !.scan = thread[c].scan \ {id}]
    <3>1. th.new = NoTicket /\ th.back = NoTicket
      BY DEF Waiting
    <3>2. thread' = [thread EXCEPT ![c] = th]
      BY <2>3 DEF BeginDelete
    <3> HIDE DEF th
    <3> QED
      BY <2>1, <3>1, <3>2, CopiesOfThread
  <2>4. CASE thread' = [thread EXCEPT ![c] = Waiting]
    BY <1>2, <2>1, <2>4, CopiesOfThread
  <2>5. CASE thread' = [thread EXCEPT ![c] =
                [thread[c] EXCEPT !.scan = thread[c].scan \ {id}]]
    <3> DEFINE th == [thread[c] EXCEPT !.scan = thread[c].scan \ {id}]
    <3>1. th.new \in Copies /\ th.back \in Copies
      BY <1>3, <2>1 DEF ThreadRecord
    <3> HIDE DEF th
    <3>2. thread' = [thread EXCEPT ![c] = th]
      BY <2>5 DEF th
    <3> QED
      BY <2>1, <3>1, <3>2, CopiesOfThread
  <2> QED
    BY <2>2, <2>3, <2>4, <2>5
<1>13. ASSUME NEW a \in Actor, Crash(a)
       PROVE  Copies' \subseteq Copies \cup {NoTicket}
  BY <1>2, <1>13, CopiesOfThread DEF Crash, CommandFails
<1>14. ASSUME Tick, UNCHANGED casVars
       PROVE  Copies' \subseteq Copies \cup {NoTicket}
  <2>1. \A id \in TicketId : redis'[id] \in {redis[id], NoTicket}
    BY <1>14 DEF Tick
  <2> QED
    BY <1>14, <2>1 DEF casVars, Copies
<1>15. ASSUME UNCHANGED vars
       PROVE  Copies' \subseteq Copies \cup {NoTicket}
  BY <1>15 DEF vars, casVars, registryVars, Copies
<1> QED
  BY <1>6, <1>7, <1>8, <1>9, <1>10, <1>11, <1>12, <1>13, <1>14, <1>15
  DEF Next, ThreadSteps, CleanerSteps, DeleteSteps, Actor

\* A request makes copies within the limit of the session they belong to.
LEMMA RequestKeepsLimit ==
  ASSUME TypeOK, HardLimit, NEW t \in Thread, Request(t)
  PROVE  \A tkt \in Copies' \ {NoTicket} : tkt \in Copies \/ InSession(tkt)'
<1>1. t \in Actor /\ now \in Nat
  BY DEF Actor, TypeOK, RegistryTypeOK
<1>2. \A id \in TicketId : redis[id] # NoTicket => redis[id] \in Ticket /\ InSession(redis[id])
  BY DEF TypeOK, RegistryTypeOK, HardLimit, Copies
<1>3. \A op, new, back : BeginAdd(t, op, new, back) /\ UNCHANGED registryVars
                            => Copies' \subseteq Copies \cup {new, back}
  <2> SUFFICES ASSUME NEW op, NEW new, NEW back,
                      BeginAdd(t, op, new, back), UNCHANGED registryVars
               PROVE  Copies' \subseteq Copies \cup {new, back}
    OBVIOUS
  <2> DEFINE th == [Waiting EXCEPT !.op = op, !.pc = "add", !.new = new, !.back = back]
  <2>1. th.new = new /\ th.back = back
    BY DEF Waiting
  <2>2. thread' = [thread EXCEPT ![t] = th] /\ UNCHANGED redis
    BY DEF BeginAdd, registryVars
  <2> HIDE DEF th
  <2> QED BY <1>1, <2>1, <2>2, CopiesOfThread
<1>4. \A op, id : BeginDelete(t, op, id) /\ UNCHANGED registryVars
                    => Copies' \subseteq Copies \cup {NoTicket}
  <2> SUFFICES ASSUME NEW op, NEW id, BeginDelete(t, op, id), UNCHANGED registryVars
               PROVE  Copies' \subseteq Copies \cup {NoTicket}
    OBVIOUS
  <2> DEFINE th == [Waiting EXCEPT !.op = op, !.pc = "delete", !.target = id,
                                   !.scan = thread[t].scan \ {id}]
  <2>1. th.new = NoTicket /\ th.back = NoTicket
    BY DEF Waiting
  <2>2. thread' = [thread EXCEPT ![t] = th] /\ UNCHANGED redis
    BY DEF BeginDelete, registryVars
  <2> HIDE DEF th
  <2> QED BY <1>1, <2>1, <2>2, CopiesOfThread
<1>5. ASSUME NEW id \in TicketId, Fresh(id), NEW tkt \in Ticket, NEW old \in Ticket,
             InSession(old), ledger' = [ledger EXCEPT ![id] = tkt],
             NEW new \in Ticket, new.root = old.root, new.limit <= old.limit,
             new.deadline <= new.limit
      PROVE  InSession(new)'
  <2>1. old.root \in TicketId /\ ledger'[old.root] = ledger[old.root]
    BY <1>5 DEF InSession, Mem, Fresh, TypeOK, Ticket, TicketId
  <2>2. ledger[old.root] \in Ticket
    BY <1>5, <2>1 DEF InSession, Mem, TypeOK
  <2> QED
    BY <1>5, <2>1, <2>2 DEF InSession, Mem, Ticket
<1>6. CASE \E id \in Tgt, again \in BOOLEAN : CreateTicketGrantingTicket(t, id, again)
  <2> PICK id \in Tgt, again \in BOOLEAN : CreateTicketGrantingTicket(t, id, again)
    BY <1>6
  <2>0. PICK tgt : tgt = NewTgt(id, now)
    OBVIOUS
  <2>1. tgt \in Ticket /\ tgt.root = id /\ tgt.deadline <= tgt.limit /\ id \in TicketId
    BY <1>1, <2>0, NewTgtIsTicket DEF TicketId
  <2>2. Copies' \subseteq Copies \cup {tgt, NoTicket} /\ ledger'[id] = tgt
    BY <1>3, <2>0, <2>1 DEF CreateTicketGrantingTicket, TypeOK
  <2>3. InSession(tgt)'
    BY <2>1, <2>2 DEF InSession, Mem, Ticket
  <2> QED
    BY <2>2, <2>3
<1>7. CASE \E id \in Tgt, st \in St, s \in Service : GrantServiceTicket(t, id, st, s)
  <2> PICK id \in Tgt, st \in St, s \in Service : GrantServiceTicket(t, id, st, s)
    BY <1>7
  <2>1. PICK old : old = redis[id]
    OBVIOUS
  <2>2. PICK tgt : tgt = AfterGrant(old, st, s, now)
    OBVIOUS
  <2>3. PICK new : new = NewServiceTicket(st, tgt, s, now)
    OBVIOUS
  <2>4. id \in TicketId /\ st \in TicketId /\ st \in Validable
    BY DEF TicketId, Validable
  <2>5. Fresh(st) /\ old # NoTicket
    BY <2>1 DEF GrantServiceTicket
  <2>6. old \in Ticket
    BY <1>2, <2>1, <2>4, <2>5
  <2>7. InSession(old)
    BY <1>2, <2>1, <2>4, <2>5
  <2>8. /\ tgt \in Ticket /\ tgt.root = old.root
        /\ tgt.limit = old.limit /\ tgt.deadline <= old.limit
    BY <1>1, <2>2, <2>4, <2>6, AfterGrantIsTicket
  <2>9. /\ new \in Ticket /\ new.root = tgt.root
        /\ new.limit = tgt.deadline /\ new.deadline <= tgt.deadline
    BY <1>1, <2>3, <2>4, <2>8, NewServiceTicketIsTicket
  <2>10. Copies' \subseteq Copies \cup {new, tgt} /\ ledger' = [ledger EXCEPT ![st] = new]
    BY <1>3, <2>1, <2>2, <2>3 DEF GrantServiceTicket
  <2>11. /\ tgt.limit <= old.limit /\ tgt.deadline <= tgt.limit
         /\ new.root = old.root /\ new.limit <= old.limit /\ new.deadline <= new.limit
    BY <2>6, <2>8, <2>9 DEF Ticket
  <2>12. InSession(tgt)'
    BY <1>5, <2>4, <2>5, <2>6, <2>7, <2>8, <2>9, <2>10, <2>11
  <2>13. InSession(new)'
    BY <1>5, <2>4, <2>5, <2>6, <2>7, <2>8, <2>9, <2>10, <2>11
  <2> QED
    BY <2>10, <2>12, <2>13
<1>8. CASE \E id \in Pgt, pt \in Pt, s \in Service : GrantProxyTicket(t, id, pt, s)
  <2> PICK id \in Pgt, pt \in Pt, s \in Service : GrantProxyTicket(t, id, pt, s)
    BY <1>8
  <2>1. PICK old : old = redis[id]
    OBVIOUS
  <2>2. PICK pgt : pgt = AfterGrant(old, pt, s, now)
    OBVIOUS
  <2>3. PICK new : new = NewServiceTicket(pt, pgt, s, now)
    OBVIOUS
  <2>4. id \in TicketId /\ pt \in TicketId /\ pt \in Validable
    BY DEF TicketId, Validable
  <2>5. Fresh(pt) /\ old # NoTicket
    BY <2>1 DEF GrantProxyTicket
  <2>6. old \in Ticket
    BY <1>2, <2>1, <2>4, <2>5
  <2>7. InSession(old)
    BY <1>2, <2>1, <2>4, <2>5
  <2>8. /\ pgt \in Ticket /\ pgt.root = old.root
        /\ pgt.limit = old.limit /\ pgt.deadline <= old.limit
    BY <1>1, <2>2, <2>4, <2>6, AfterGrantIsTicket
  <2>9. /\ new \in Ticket /\ new.root = pgt.root
        /\ new.limit = pgt.deadline /\ new.deadline <= pgt.deadline
    BY <1>1, <2>3, <2>4, <2>8, NewServiceTicketIsTicket
  <2>10. Copies' \subseteq Copies \cup {new, NoTicket} /\ ledger' = [ledger EXCEPT ![pt] = new]
    BY <1>3, <2>1, <2>2, <2>3 DEF GrantProxyTicket
  <2>11. /\ pgt.limit <= old.limit /\ pgt.deadline <= pgt.limit
         /\ new.root = old.root /\ new.limit <= old.limit /\ new.deadline <= new.limit
    BY <2>6, <2>8, <2>9 DEF Ticket
  <2>12. InSession(new)'
    BY <1>5, <2>4, <2>5, <2>6, <2>7, <2>8, <2>9, <2>10, <2>11
  <2> QED
    BY <2>10, <2>12
<1>9. CASE \E id \in Validable, pgt \in Pgt : CreateProxyGrantingTicket(t, id, pgt)
  <2> PICK id \in Validable, pgt \in Pgt : CreateProxyGrantingTicket(t, id, pgt)
    BY <1>9
  <2>1. PICK old : old = redis[id]
    OBVIOUS
  <2>2. PICK new : new = NewPgt(pgt, old, now)
    OBVIOUS
  <2>3. id \in TicketId /\ pgt \in TicketId
    BY DEF TicketId, Validable
  <2>4. Fresh(pgt) /\ old # NoTicket
    BY <2>1 DEF CreateProxyGrantingTicket
  <2>5. old \in Ticket
    BY <1>2, <2>1, <2>3, <2>4
  <2>6. InSession(old)
    BY <1>2, <2>1, <2>3, <2>4
  <2>7. /\ new \in Ticket /\ new.root = old.root
        /\ new.limit <= old.limit /\ new.deadline <= new.limit
    BY <1>1, <2>2, <2>5, NewPgtIsTicket
  <2>8. Copies' \subseteq Copies \cup {new, NoTicket} /\ ledger' = [ledger EXCEPT ![pgt] = new]
    BY <1>3, <2>1, <2>2 DEF CreateProxyGrantingTicket
  <2>9. InSession(new)'
    BY <1>5, <2>3, <2>4, <2>5, <2>6, <2>7, <2>8
  <2> QED
    BY <2>8, <2>9
<1>10. CASE \E id \in Validable, s \in Service : ValidateServiceTicket(t, id, s)
  <2>1. CASE UNCHANGED thread
    BY <2>1, <1>10 DEF ValidateServiceTicket, registryVars, Copies
  <2> QED
    BY <2>1, <1>4, <1>10 DEF ValidateServiceTicket
<1>11. CASE \/ \E id \in Tgt : \/ DestroyTicketGrantingTicket(t, id)
                              \/ DropExpired(t, "grant", id) \/ DropExpired(t, "destroy", id)
            \/ \E id \in Pgt : DropExpired(t, "proxy", id)
  BY <1>4, <1>11 DEF DestroyTicketGrantingTicket, DropExpired
<1> QED
  BY <1>6, <1>7, <1>8, <1>9, <1>10, <1>11 DEF Request

\* A session never outlives its hard limit: no stale copy of a TGT, and no
\* ticket granted from one, is valid beyond the limit fixed at the login.
THEOREM SessionsAreLimited == Spec => []HardLimit
<1>1. Init => HardLimit
  BY DEF Init, RegistryInit, HardLimit, Copies, Waiting
<1>2. TypeOK /\ TypeOK' /\ HardLimit /\ [Next]_vars => HardLimit'
  <2> SUFFICES ASSUME TypeOK, TypeOK', HardLimit, [Next]_vars PROVE HardLimit'
    OBVIOUS
  <2>1. CASE \E t \in Thread : Request(t)
    BY <2>1, RequestKeepsLimit, HardLimitByNewCopies
  <2>2. CASE ~\E t \in Thread : Request(t)
    BY <2>2, NoNewCopies, HardLimitByNewCopies
  <2> QED
    BY <2>1, <2>2
<1> QED
  BY <1>1, <1>2, TypeCorrect, PTL DEF Spec

-----------------------------------------------------------------------------
(***************************************************************************)
(* The cluster implements the life of a service ticket, for every set of   *)
(* threads and tickets: a ticket that left Redis never comes back, and it  *)
(* is accepted only while it is there and for the service it was granted.  *)
(*                                                                         *)
(* Every step is one of four (StepIsOne): it creates a ticket, stores one  *)
(* that only its thread had, accepts one, or loses some.  That nothing but *)
(* the creating thread has a ticket not yet stored is the invariant, Held. *)
(***************************************************************************)
USE IdsAssumption

\* What Redis and the threads have of the tickets services may present.
StoredAsGranted ==
  \A id \in Stored :
    /\ redis[id].id = id
    /\ id \in Validable => Mem(id) /\ redis[id].service = ledger[id].service

NewIsGranted ==
  \A a \in Actor : thread[a].new # NoTicket =>
    /\ Mem(thread[a].new.id)
    /\ thread[a].new.id \in Validable =>
         /\ thread[a].new.service = ledger[thread[a].new.id].service
         /\ thread[a].new.id \notin Stored

OneHolder ==
  \A a, b \in Actor :
    thread[a].new # NoTicket /\ thread[b].new # NoTicket /\ thread[a].new.id = thread[b].new.id
      => a = b

BackGrants ==
  \A a \in Actor : thread[a].back # NoTicket => thread[a].back.id \in Granting

Held == StoredAsGranted /\ NewIsGranted /\ OneHolder /\ BackGrants

-----------------------------------------------------------------------------
\* The four kinds of step.
Takes(t, new, back) ==
  \E th : /\ thread' = [thread EXCEPT ![t] = th]
          /\ th.new = new /\ th.back = back

Creates(t, id, new, back) ==
  /\ thread[t].new = NoTicket
  /\ Fresh(id) /\ new \in Ticket /\ new.id = id
  /\ back # NoTicket => back.id \in Granting
  /\ ledger' = [ledger EXCEPT ![id] = new]
  /\ Takes(t, new, back)
  /\ UNCHANGED <<redis, accepts>>

Stores(t) ==
  /\ thread[t].new # NoTicket /\ thread[t].new.id \in Validable
  /\ redis' = [redis EXCEPT ![thread[t].new.id] = thread[t].new]
  /\ \E back \in {thread[t].back, NoTicket} : Takes(t, NoTicket, back)
  /\ UNCHANGED <<ledger, accepts>>

Keeps(old, new) == new = old \/ new = NoTicket

KeepsHands ==
  \A a \in Actor : Keeps(thread[a].new, thread'[a].new) /\ Keeps(thread[a].back, thread'[a].back)

Accepts(id, s) ==
  /\ id \in Stored /\ redis[id].service = s
  /\ accepts' = [accepts EXCEPT ![id][s] = @ + 1]
  /\ KeepsHands /\ \A a \in Actor : thread'[a].new = thread[a].new
  /\ UNCHANGED <<redis, ledger>>

Loses ==
  /\ KeepsHands
  /\ \A id \in TicketId :
       \/ Keeps(redis[id], redis'[id])
       \/ id \in Granting /\ redis'[id] \in Ticket /\ redis'[id].id = id
  /\ UNCHANGED <<ledger, accepts>>

\* One of the four.
OneOfFour ==
  \/ \E t \in Actor, id \in TicketId, new \in Ticket, back \in Ticket \cup {NoTicket} :
       /\ Creates(t, id, new, back)
       /\ id \in Validable => new.service \in Service
  \/ \E t \in Actor : Stores(t)
  \/ \E id \in Validable, s \in Service : Accepts(id, s)
  \/ Loses

-----------------------------------------------------------------------------
(***************************************************************************)
(* Every step is one of the four.                                          *)
(***************************************************************************)
LEMMA HandsOf ==
  ASSUME TypeOK, NEW a \in Actor, NEW th, thread' = [thread EXCEPT ![a] = th],
         Keeps(thread[a].new, th.new), Keeps(thread[a].back, th.back)
  PROVE  KeepsHands
BY DEF KeepsHands, Keeps, TypeOK

LEMMA EmptyHands == Waiting.new = NoTicket /\ Waiting.back = NoTicket
BY DEF Waiting

LEMMA ResumedHands ==
  ASSUME NEW a \in Actor
  PROVE  Resumed(a).new = NoTicket /\ Resumed(a).back = NoTicket
BY DEF Resumed, Waiting

LEMMA BeginDeleteHands ==
  ASSUME TypeOK, NEW a \in Actor, NEW op, NEW id, BeginDelete(a, op, id)
  PROVE  KeepsHands
<1> DEFINE th == [Waiting EXCEPT !.op = op, !.pc = "delete", !.target = id,
                                 !.scan = thread[a].scan \ {id}]
<1>1. th.new = NoTicket /\ th.back = NoTicket
  BY DEF Waiting
<1>2. thread' = [thread EXCEPT ![a] = th]
  BY DEF BeginDelete
<1> HIDE DEF th
<1> QED
  BY <1>1, <1>2, HandsOf DEF Keeps

LEMMA BeginAddTakes ==
  ASSUME NEW t \in Actor, NEW op, NEW new, NEW back, BeginAdd(t, op, new, back)
  PROVE  Takes(t, new, back)
<1> DEFINE th == [Waiting EXCEPT !.op = op, !.pc = "add", !.new = new, !.back = back]
<1>1. th.new = new /\ th.back = back
  BY DEF Waiting
<1>2. thread' = [thread EXCEPT ![t] = th]
  BY DEF BeginAdd
<1> HIDE DEF th
<1> QED
  BY <1>1, <1>2 DEF Takes

\* A write to a key that is not changed in redis is none.
LEMMA SameRedisLoses ==
  ASSUME KeepsHands, UNCHANGED <<redis, ledger, accepts>>
  PROVE  Loses
BY DEF Loses, Keeps

LEMMA RequestIsOne ==
  ASSUME TypeOK, StoredAsGranted, NEW t \in Thread, Request(t)
  PROVE  OneOfFour
<1>1. t \in Actor /\ now \in Nat
  BY DEF Actor, TypeOK, RegistryTypeOK
<1>2. \A id \in TicketId : redis[id] # NoTicket => redis[id] \in Ticket /\ redis[id].id = id
  BY DEF TypeOK, RegistryTypeOK, StoredAsGranted, Stored
<1>3. CASE \E id \in Tgt, again \in BOOLEAN : CreateTicketGrantingTicket(t, id, again)
  <2> PICK id \in Tgt, again \in BOOLEAN : CreateTicketGrantingTicket(t, id, again)
    BY <1>3
  <2>1. PICK tgt : tgt = NewTgt(id, now)
    OBVIOUS
  <2>2. PICK back : back = IF again THEN tgt ELSE NoTicket
    OBVIOUS
  <2>3. tgt \in Ticket /\ tgt.id = id /\ id \in TicketId /\ id \in Granting /\ id \notin Validable
    BY <1>1, <2>1, NewTgtIsTicket DEF TicketId, Granting, Validable
  <2>4. /\ thread[t] = Waiting /\ Fresh(id)
        /\ ledger' = [ledger EXCEPT ![id] = tgt]
        /\ BeginAdd(t, "login", tgt, back)
        /\ UNCHANGED <<registryVars, accepts>>
    BY <2>1, <2>2 DEF CreateTicketGrantingTicket
  <2>5. Takes(t, tgt, back)
    BY <1>1, <2>4, BeginAddTakes
  <2>6. Creates(t, id, tgt, back)
    BY <2>2, <2>3, <2>4, <2>5, EmptyHands DEF Creates, registryVars
  <2> QED
    BY <1>1, <2>2, <2>3, <2>6 DEF OneOfFour
<1>4. CASE \E id \in Tgt, st \in St, s \in Service : GrantServiceTicket(t, id, st, s)
  <2> PICK id \in Tgt, st \in St, s \in Service : GrantServiceTicket(t, id, st, s)
    BY <1>4
  <2>1. PICK old : old = redis[id]
    OBVIOUS
  <2>2. PICK tgt : tgt = AfterGrant(old, st, s, now)
    OBVIOUS
  <2>3. PICK new : new = NewServiceTicket(st, tgt, s, now)
    OBVIOUS
  <2>4. id \in TicketId /\ id \in Granting /\ st \in TicketId /\ st \in Validable
    BY DEF TicketId, Granting, Validable
  <2>5. /\ thread[t] = Waiting /\ Fresh(st) /\ old # NoTicket
        /\ ledger' = [ledger EXCEPT ![st] = new]
        /\ BeginAdd(t, "grant", new, tgt)
        /\ UNCHANGED <<registryVars, accepts>>
    BY <2>1, <2>2, <2>3 DEF GrantServiceTicket
  <2>6. old \in Ticket /\ old.id = id
    BY <1>2, <2>1, <2>4, <2>5
  <2>7. tgt \in Ticket /\ tgt.id = id
    BY <1>1, <2>2, <2>4, <2>6, AfterGrantIsTicket
  <2>8. new \in Ticket /\ new.id = st
    BY <1>1, <2>3, <2>4, <2>7, NewServiceTicketIsTicket
  <2>9. new.service = s
    BY <2>3 DEF NewServiceTicket
  <2>10. Takes(t, new, tgt)
    BY <1>1, <2>5, BeginAddTakes
  <2>11. Creates(t, st, new, tgt)
    BY <2>4, <2>5, <2>7, <2>8, <2>10, EmptyHands DEF Creates, registryVars
  <2> QED
    BY <1>1, <2>4, <2>7, <2>8, <2>9, <2>11 DEF OneOfFour
<1>5. CASE \E id \in Pgt, pt \in Pt, s \in Service : GrantProxyTicket(t, id, pt, s)
  <2> PICK id \in Pgt, pt \in Pt, s \in Service : GrantProxyTicket(t, id, pt, s)
    BY <1>5
  <2>1. PICK old : old = redis[id]
    OBVIOUS
  <2>2. PICK pgt : pgt = AfterGrant(old, pt, s, now)
    OBVIOUS
  <2>3. PICK new : new = NewServiceTicket(pt, pgt, s, now)
    OBVIOUS
  <2>4. id \in TicketId /\ pt \in TicketId /\ pt \in Validable
    BY DEF TicketId, Validable
  <2>5. /\ thread[t] = Waiting /\ Fresh(pt) /\ old # NoTicket
        /\ ledger' = [ledger EXCEPT ![pt] = new]
        /\ BeginAdd(t, "proxy", new, NoTicket)
        /\ UNCHANGED <<registryVars, accepts>>
    BY <2>1, <2>2, <2>3 DEF GrantProxyTicket
  <2>6. old \in Ticket
    BY <1>2, <2>1, <2>4, <2>5
  <2>7. pgt \in Ticket
    BY <1>1, <2>2, <2>4, <2>6, AfterGrantIsTicket
  <2>8. new \in Ticket /\ new.id = pt
    BY <1>1, <2>3, <2>4, <2>7, NewServiceTicketIsTicket
  <2>9. new.service = s
    BY <2>3 DEF NewServiceTicket
  <2>10. Takes(t, new, NoTicket)
    BY <1>1, <2>5, BeginAddTakes
  <2>11. Creates(t, pt, new, NoTicket)
    BY <2>4, <2>5, <2>8, <2>10, EmptyHands DEF Creates, registryVars
  <2> QED
    BY <1>1, <2>4, <2>8, <2>9, <2>11 DEF OneOfFour
<1>6. CASE \E id \in Validable, pgt \in Pgt : CreateProxyGrantingTicket(t, id, pgt)
  <2> PICK id \in Validable, pgt \in Pgt : CreateProxyGrantingTicket(t, id, pgt)
    BY <1>6
  <2>1. PICK old : old = redis[id]
    OBVIOUS
  <2>2. PICK new : new = NewPgt(pgt, old, now)
    OBVIOUS
  <2>3. id \in TicketId /\ pgt \in TicketId /\ pgt \notin Validable
    BY DEF TicketId, Validable
  <2>4. /\ thread[t] = Waiting /\ Fresh(pgt) /\ old # NoTicket
        /\ ledger' = [ledger EXCEPT ![pgt] = new]
        /\ BeginAdd(t, "pgt", new, NoTicket)
        /\ UNCHANGED <<registryVars, accepts>>
    BY <2>1, <2>2 DEF CreateProxyGrantingTicket
  <2>5. old \in Ticket
    BY <1>2, <2>1, <2>3, <2>4
  <2>6. new \in Ticket /\ new.id = pgt
    BY <1>1, <2>2, <2>5, NewPgtIsTicket
  <2>7. Takes(t, new, NoTicket)
    BY <1>1, <2>4, BeginAddTakes
  <2>8. Creates(t, pgt, new, NoTicket)
    BY <2>4, <2>6, <2>7, EmptyHands DEF Creates, registryVars
  <2> QED
    BY <1>1, <2>3, <2>6, <2>8 DEF OneOfFour
<1>7. CASE \E id \in Validable, s \in Service : ValidateServiceTicket(t, id, s)
  <2> PICK id \in Validable, s \in Service : ValidateServiceTicket(t, id, s)
    BY <1>7
  <2>1. id \in TicketId /\ UNCHANGED <<redis, ledger>> /\ id \in Stored
    BY DEF ValidateServiceTicket, registryVars, TicketId, Validable, Stored
  <2>2. KeepsHands
    <3>1. CASE UNCHANGED thread
      BY <3>1 DEF KeepsHands, Keeps
    <3>2. CASE BeginDelete(t, "validate", id)
      BY <1>1, <3>2, BeginDeleteHands
    <3> QED
      BY <3>1, <3>2 DEF ValidateServiceTicket
  <2>3. CASE UNCHANGED accepts
    BY <2>1, <2>2, <2>3, SameRedisLoses DEF OneOfFour
  <2>4. CASE redis[id].service = s /\ accepts' = [accepts EXCEPT ![id][s] = @ + 1]
    <3>1. thread[t].new = NoTicket /\ \A a \in Actor : a # t => thread'[a] = thread[a]
      BY EmptyHands DEF ValidateServiceTicket, BeginDelete, TypeOK
    <3>2. thread'[t].new = thread[t].new
      BY <1>1, <2>2, <3>1 DEF KeepsHands, Keeps
    <3>3. \A a \in Actor : thread'[a].new = thread[a].new
      BY <3>1, <3>2
    <3> QED
      BY <2>1, <2>2, <2>4, <3>3 DEF Accepts, OneOfFour
  <2> QED
    BY <2>3, <2>4 DEF ValidateServiceTicket
<1>8. CASE \/ \E id \in Tgt : \/ DestroyTicketGrantingTicket(t, id)
                              \/ DropExpired(t, "grant", id) \/ DropExpired(t, "destroy", id)
           \/ \E id \in Pgt : DropExpired(t, "proxy", id)
  <2>1. PICK op, id : /\ BeginDelete(t, op, id)
                      /\ UNCHANGED <<registryVars, ledger, accepts>>
    BY <1>8 DEF DestroyTicketGrantingTicket, DropExpired
  <2>2. KeepsHands
    BY <1>1, <2>1, BeginDeleteHands
  <2> QED
    BY <2>1, <2>2, SameRedisLoses DEF OneOfFour, registryVars
<1> QED
  BY <1>3, <1>4, <1>5, <1>6, <1>7, <1>8 DEF Request

LEMMA RegistryStepIsOne ==
  ASSUME TypeOK, BackGrants, [Next]_vars, ~\E t \in Thread : Request(t)
  PROVE  OneOfFour
<1>1. \A a \in Actor : /\ thread[a] \in ThreadRecord
                       /\ thread[a].pc = "add" => thread[a].new # NoTicket
                       /\ thread[a].pc = "putBack" => thread[a].back # NoTicket
                       /\ thread[a].pc \in {"delete", "delChildren", "delSelf"} => thread[a].target # NoTicket
  BY DEF TypeOK, ThreadState
<1>2. \A a \in Actor : Resumed(a).new = NoTicket /\ Resumed(a).back = NoTicket
  BY ResumedHands
<1>3. ASSUME KeepsHands, UNCHANGED <<ledger, accepts>>,
             \/ UNCHANGED redis
             \/ \E id \in TicketId : DeleteSingleTicket(id)
      PROVE  OneOfFour
  <2>1. \A id \in TicketId : Keeps(redis[id], redis'[id])
    BY <1>3 DEF DeleteSingleTicket, Keeps, TypeOK, RegistryTypeOK
  <2> QED
    BY <1>3, <2>1 DEF OneOfFour, Loses
<1>4. ASSUME KeepsHands, UNCHANGED <<ledger, accepts>>,
             NEW tkt \in Ticket, tkt.id \in Granting, AddTicket(tkt)
      PROVE  OneOfFour
  <2>1. tkt.id \in TicketId
    BY <1>4 DEF Ticket
  <2>2. redis' = [redis EXCEPT ![tkt.id] = tkt]
    BY <1>4 DEF AddTicket
  <2>3. redis'[tkt.id] = tkt
    BY <2>1, <2>2 DEF TypeOK, RegistryTypeOK
  <2>4. \A id \in TicketId : id # tkt.id => redis'[id] = redis[id]
    BY <2>1, <2>2 DEF TypeOK, RegistryTypeOK
  <2>5. \A id \in TicketId : \/ Keeps(redis[id], redis'[id])
                             \/ id \in Granting /\ redis'[id] \in Ticket /\ redis'[id].id = id
    BY <1>4, <2>3, <2>4 DEF Keeps
  <2> QED
    BY <1>4, <2>5 DEF OneOfFour, Loses
<1>5. ASSUME NEW t \in Actor, AddNew(t)
      PROVE  OneOfFour
  <2> DEFINE rest == [thread[t] EXCEPT !.pc = "putBack", !.new = NoTicket]
             th == IF thread[t].back = NoTicket THEN Waiting ELSE rest
  <2>1. thread' = [thread EXCEPT ![t] = th]
    BY <1>5 DEF AddNew, TypeOK
  <2>2. th.new = NoTicket /\ th.back \in {thread[t].back, NoTicket}
    <3>1. rest.new = NoTicket /\ rest.back = thread[t].back
      BY <1>1 DEF ThreadRecord
    <3> HIDE DEF rest
    <3> QED BY <3>1, EmptyHands
  <2> HIDE DEF th
  <2>3. KeepsHands
    BY <2>1, <2>2, HandsOf DEF Keeps
  <2>4. thread[t].new \in Ticket /\ thread[t].new.id \in TicketId
    BY <1>1, <1>5 DEF AddNew, ThreadRecord, Ticket
  <2>5. UNCHANGED <<ledger, accepts>>
    BY <1>5 DEF AddNew
  <2>6. CASE CommandFails
    BY <1>3, <2>3, <2>5, <2>6 DEF CommandFails
  <2>7. CASE AddTicket(thread[t].new) /\ thread[t].new.id \in Granting
    BY <1>4, <2>3, <2>4, <2>5, <2>7
  <2>8. CASE AddTicket(thread[t].new) /\ thread[t].new.id \in Validable
    <3>1. Takes(t, NoTicket, th.back)
      BY <2>1, <2>2 DEF Takes
    <3>2. \E back \in {thread[t].back, NoTicket} : Takes(t, NoTicket, back)
      BY <2>2, <3>1
    <3>3. redis' = [redis EXCEPT ![thread[t].new.id] = thread[t].new]
      BY <2>8 DEF AddTicket
    <3>4. thread[t].new # NoTicket
      BY <2>4
    <3> QED
      BY <2>5, <2>8, <3>2, <3>3, <3>4 DEF Stores, OneOfFour
  <2>9. thread[t].new.id \in Granting \cup Validable
    BY <2>4 DEF TicketId, Granting, Validable
  <2> QED
    BY <1>5, <2>6, <2>7, <2>8, <2>9 DEF AddNew
<1>6. ASSUME NEW t \in Actor, PutBack(t)
      PROVE  OneOfFour
  <2>1. thread' = [thread EXCEPT ![t] = Waiting] /\ UNCHANGED <<ledger, accepts>>
    BY <1>6 DEF PutBack
  <2>2. KeepsHands
    BY <2>1, EmptyHands, HandsOf DEF Keeps
  <2>3. thread[t].back \in Ticket /\ thread[t].back.id \in Granting
    BY <1>1, <1>6 DEF PutBack, ThreadRecord, BackGrants
  <2>4. CASE CommandFails
    BY <1>3, <2>1, <2>2, <2>4 DEF CommandFails
  <2>5. CASE AddTicket(thread[t].back)
    BY <1>4, <2>1, <2>2, <2>3, <2>5
  <2> QED
    BY <1>6, <2>4, <2>5 DEF PutBack
<1>7. ASSUME NEW a \in Actor, DeleteTicket(a)
      PROVE  OneOfFour
  <2>1. UNCHANGED <<redis, ledger, accepts>>
    BY <1>7 DEF DeleteTicket, GetTicket, registryVars, CommandFails
  <2>2. PICK tkt, todo :
          thread' = [thread EXCEPT ![a] =
             IF tkt = NoTicket THEN Resumed(a)
             ELSE [thread[a] EXCEPT !.pc = IF todo = {} THEN "delSelf" ELSE "delChildren",
                                    !.todo = todo]]
    BY <1>7 DEF DeleteTicket, TypeOK
  <2> DEFINE th == IF tkt = NoTicket THEN Resumed(a)
                   ELSE [thread[a] EXCEPT !.pc = IF todo = {} THEN "delSelf" ELSE "delChildren",
                                          !.todo = todo]
  <2>3. Keeps(thread[a].new, th.new) /\ Keeps(thread[a].back, th.back)
    BY <1>1, <1>2 DEF ThreadRecord, Keeps
  <2>4. thread' = [thread EXCEPT ![a] = th]
    BY <2>2
  <2> HIDE DEF th
  <2>5. KeepsHands
    BY <2>3, <2>4, HandsOf
  <2> QED
    BY <1>3, <2>1, <2>5
<1>8. ASSUME NEW a \in Actor, DeleteChild(a)
      PROVE  OneOfFour
  <2>1. PICK id \in thread[a].todo :
          /\ DeleteSingleTicket(id) \/ CommandFails
          /\ thread' = [thread EXCEPT
               ![a].todo = @ \ {id},
               ![a].pc = IF thread[a].todo = {id} THEN "delSelf" ELSE "delChildren"]
    BY <1>8 DEF DeleteChild
  <2> DEFINE th == [thread[a] EXCEPT !.todo = thread[a].todo \ {id},
                     !.pc = IF thread[a].todo = {id} THEN "delSelf" ELSE "delChildren"]
  <2>2. id \in TicketId
    BY <1>1 DEF ThreadRecord
  <2>3. Keeps(thread[a].new, th.new) /\ Keeps(thread[a].back, th.back)
    BY <1>1 DEF ThreadRecord, Keeps
  <2>4. thread' = [thread EXCEPT ![a] = th]
    BY <1>1, <2>1 DEF TypeOK, ThreadRecord
  <2> HIDE DEF th
  <2>5. KeepsHands
    BY <2>3, <2>4, HandsOf
  <2> QED
    BY <1>3, <1>8, <2>1, <2>2, <2>5 DEF DeleteChild, CommandFails
<1>9. ASSUME NEW a \in Actor, DeleteSelf(a)
      PROVE  OneOfFour
  <2>1. thread[a].target \in TicketId
    BY <1>1, <1>9 DEF DeleteSelf, ThreadRecord
  <2>2. thread' = [thread EXCEPT ![a] = Resumed(a)]
    BY <1>9 DEF DeleteSelf
  <2>3. KeepsHands
    BY <1>2, <2>2, HandsOf DEF Keeps
  <2> QED
    BY <1>3, <1>9, <2>1, <2>3 DEF DeleteSelf, CommandFails
<1>10. ASSUME NEW c \in Cleaner, StartScan(c)
       PROVE  OneOfFour
  <2> DEFINE th == [Waiting EXCEPT !.op = "clean", !.pc = "scan", !.scan = Stored]
  <2>1. th.new = NoTicket /\ th.back = NoTicket
    BY DEF Waiting
  <2>2. /\ thread' = [thread EXCEPT ![c] = th] /\ c \in Actor
        /\ UNCHANGED <<redis, ledger, accepts>>
    BY <1>10 DEF StartScan, registryVars, Actor
  <2> HIDE DEF th
  <2>3. KeepsHands
    BY <2>1, <2>2, HandsOf DEF Keeps
  <2> QED
    BY <1>3, <2>2, <2>3
<1>11. ASSUME NEW c \in Cleaner, VisitKey(c)
       PROVE  OneOfFour
  <2>1. c \in Actor /\ UNCHANGED <<redis, ledger, accepts>>
    BY <1>11 DEF VisitKey, registryVars, Actor
  <2>2. PICK id : \/ BeginDelete(c, "clean", id)
                  \/ thread' = [thread EXCEPT ![c] = Waiting]
                  \/ thread' = [thread EXCEPT ![c] =
                       [thread[c] EXCEPT !.scan = thread[c].scan \ {id}]]
    BY <1>11 DEF VisitKey
  <2>3. KeepsHands
    <3>1. CASE BeginDelete(c, "clean", id)
      BY <2>1, <3>1, BeginDeleteHands
    <3>2. CASE thread' = [thread EXCEPT ![c] = Waiting]
      BY <2>1, <3>2, EmptyHands, HandsOf DEF Keeps
    <3>3. CASE thread' = [thread EXCEPT ![c] =
                  [thread[c] EXCEPT !.scan = thread[c].scan \ {id}]]
      <4> DEFINE th == [thread[c] EXCEPT !.scan = thread[c].scan \ {id}]
      <4>1. Keeps(thread[c].new, th.new) /\ Keeps(thread[c].back, th.back)
        BY <1>1, <2>1 DEF ThreadRecord, Keeps
      <4> HIDE DEF th
      <4>2. thread' = [thread EXCEPT ![c] = th]
        BY <3>3 DEF th
      <4> QED
        BY <2>1, <4>1, <4>2, HandsOf
    <3> QED
      BY <2>2, <3>1, <3>2, <3>3
  <2> QED
    BY <1>3, <2>1, <2>3
<1>12. ASSUME NEW a \in Actor, Crash(a)
       PROVE  OneOfFour
  <2>1. KeepsHands
    BY <1>12, EmptyHands, HandsOf DEF Crash, Keeps
  <2> QED
    BY <1>3, <1>12, <2>1 DEF Crash, CommandFails
<1>13. ASSUME Tick, UNCHANGED casVars
       PROVE  OneOfFour
  <2>1. \A id \in TicketId : Keeps(redis[id], redis'[id])
    BY <1>13 DEF Tick, Keeps
  <2> QED
    BY <1>13, <2>1 DEF casVars, OneOfFour, Loses, KeepsHands, Keeps
<1>14. ASSUME UNCHANGED vars
       PROVE  OneOfFour
  BY <1>3, <1>14 DEF vars, casVars, registryVars, KeepsHands, Keeps
<1> QED
  BY <1>5, <1>6, <1>7, <1>8, <1>9, <1>10, <1>11, <1>12, <1>13, <1>14
  DEF Next, ThreadSteps, CleanerSteps, DeleteSteps, Actor

LEMMA StepIsOne ==
  TypeOK /\ Held /\ [Next]_vars => OneOfFour
BY RequestIsOne, RegistryStepIsOne DEF Held

-----------------------------------------------------------------------------
(***************************************************************************)
(* Held is inductive.                                                      *)
(***************************************************************************)
LEMMA HeldStep ==
  ASSUME TypeOK, Held, OneOfFour
  PROVE  Held'
<1>1. /\ \A id \in TicketId : redis[id] \in Ticket \cup {NoTicket}
      /\ \A a \in Actor : thread[a].new \in Ticket \cup {NoTicket}
      /\ \A a \in Actor : thread[a].back \in Ticket \cup {NoTicket}
      /\ \A id \in TicketId : ledger[id] \in Ticket \cup {NoTicket}
  BY DEF TypeOK, RegistryTypeOK, ThreadState, ThreadRecord
<1>2. \A tkt \in Ticket : tkt.id \in TicketId /\ tkt # NoTicket
  BY DEF Ticket
<1>3. ASSUME NEW t \in Actor, NEW id \in TicketId, NEW new \in Ticket,
             NEW back \in Ticket \cup {NoTicket}, Creates(t, id, new, back)
      PROVE  Held'
  <2>1. /\ new.id = id /\ Fresh(id) /\ thread[t].new = NoTicket
        /\ UNCHANGED redis
        /\ back # NoTicket => back.id \in Granting
    BY <1>3 DEF Creates
  <2>2. /\ ledger'[id] = new
        /\ \A i \in TicketId : i # id => ledger'[i] = ledger[i]
    BY <1>3 DEF Creates, TypeOK
  <2>3. /\ thread'[t].new = new /\ thread'[t].back = back
        /\ \A a \in Actor : a # t => thread'[a] = thread[a]
    BY <1>3 DEF Creates, Takes, TypeOK
  <2>4. /\ id \in Validable => id \notin Stored
        /\ \A a \in Actor : thread[a].new # NoTicket => thread[a].new.id # id
    BY <2>1 DEF Held, StoredAsGranted, NewIsGranted, Fresh, Mem
  <2>5. StoredAsGranted'
    BY <1>1, <1>2, <2>1, <2>2, <2>4 DEF Held, StoredAsGranted, Mem, Stored
  <2>6. NewIsGranted'
    BY <1>1, <1>2, <2>1, <2>2, <2>3, <2>4 DEF Held, NewIsGranted, Mem, Stored
  <2>7. OneHolder'
    BY <2>1, <2>3, <2>4 DEF Held, OneHolder
  <2>8. BackGrants'
    BY <2>1, <2>3 DEF Held, BackGrants
  <2> QED
    BY <2>5, <2>6, <2>7, <2>8 DEF Held
<1>4. ASSUME NEW t \in Actor, Stores(t)
      PROVE  Held'
  <2>1. PICK new : new = thread[t].new
    OBVIOUS
  <2>2. /\ new # NoTicket /\ new.id \in Validable /\ new \in Ticket /\ new.id \in TicketId
        /\ redis' = [redis EXCEPT ![new.id] = new]
        /\ UNCHANGED ledger
    BY <1>1, <1>2, <1>4, <2>1 DEF Stores
  <2>3. /\ redis'[new.id] = new
        /\ \A i \in TicketId : i # new.id => redis'[i] = redis[i]
    BY <2>2 DEF TypeOK, RegistryTypeOK
  <2>4. /\ thread'[t].new = NoTicket
        /\ thread'[t].back \in {thread[t].back, NoTicket}
        /\ \A a \in Actor : a # t => thread'[a] = thread[a]
    BY <1>4 DEF Stores, Takes, TypeOK
  <2>5. StoredAsGranted'
    BY <1>1, <1>2, <2>1, <2>2, <2>3 DEF Held, StoredAsGranted, NewIsGranted, Mem, Stored
  <2>6. \A a \in Actor : a # t /\ thread[a].new # NoTicket => thread[a].new.id # new.id
    BY <2>1, <2>2 DEF Held, OneHolder
  <2>7. NewIsGranted'
    BY <1>1, <1>2, <2>2, <2>3, <2>4, <2>6 DEF Held, NewIsGranted, Mem, Stored
  <2>8. OneHolder'
    BY <2>4 DEF Held, OneHolder
  <2>9. BackGrants'
    BY <2>4 DEF Held, BackGrants
  <2> QED
    BY <2>5, <2>7, <2>8, <2>9 DEF Held
<1>5. ASSUME KeepsHands, UNCHANGED ledger,
             \A id \in TicketId :
               \/ Keeps(redis[id], redis'[id])
               \/ id \in Granting /\ redis'[id] \in Ticket /\ redis'[id].id = id
      PROVE  Held'
  <2>1. \A id \in Granting : id \notin Validable
    BY DEF Granting, Validable
  <2>2. StoredAsGranted'
    BY <1>5, <2>1 DEF Held, StoredAsGranted, Mem, Stored, Keeps
  <2>3. NewIsGranted'
    BY <1>5, <1>1, <1>2, <2>1 DEF Held, NewIsGranted, Mem, Stored, KeepsHands, Keeps
  <2>4. OneHolder'
    BY <1>5 DEF Held, OneHolder, KeepsHands, Keeps
  <2>5. BackGrants'
    BY <1>5 DEF Held, BackGrants, KeepsHands, Keeps
  <2> QED
    BY <2>2, <2>3, <2>4, <2>5 DEF Held
<1>6. CASE \E id \in Validable, s \in Service : Accepts(id, s)
  BY <1>5, <1>6 DEF Accepts, Keeps
<1>7. CASE Loses
  BY <1>5, <1>7 DEF Loses
<1> QED
  BY <1>3, <1>4, <1>6, <1>7 DEF OneOfFour

LEMMA HeldInit == Init => Held
BY EmptyHands DEF Init, RegistryInit, Held, StoredAsGranted, NewIsGranted, OneHolder, BackGrants, Stored

-----------------------------------------------------------------------------
(***************************************************************************)
(* Each of the four is a step of the life of tickets, or none.             *)
(***************************************************************************)
LEMMA LifeInit == Init => Life!Init
<1> SUFFICES ASSUME Init PROVE Life!Init
  OBVIOUS
<1>1. \A id \in Validable : id \in TicketId /\ ~Mem(id)
  BY DEF Init, Mem, TicketId, Validable
<1> QED
  BY <1>1 DEF Init, Life!Init, lifeOf, serviceOf

LEMMA CreatesIsLife ==
  ASSUME TypeOK, Held, NEW t \in Actor, NEW id \in TicketId, NEW new \in Ticket,
         NEW back \in Ticket \cup {NoTicket}, Creates(t, id, new, back),
         id \in Validable => new.service \in Service
  PROVE  [Life!Next]_(Life!lifeVars)
<1>1. \A i \in Validable : i \in TicketId
  BY DEF TicketId, Validable
<1>2. /\ new.id = id /\ Fresh(id) /\ thread[t].new = NoTicket /\ new # NoTicket
      /\ UNCHANGED <<redis, accepts>>
  BY DEF Creates
<1>3. /\ ledger'[id] = new
      /\ \A i \in TicketId : i # id => ledger'[i] = ledger[i]
  BY DEF Creates, TypeOK
<1>4. /\ thread'[t].new = new
      /\ \A a \in Actor : a # t => thread'[a] = thread[a]
  BY DEF Creates, Takes, TypeOK
<1>5. Stored' = Stored
  BY <1>2 DEF Stored
<1>6. \A i \in Validable : i # id => Mem(i)' = Mem(i) /\ Pending(i)' = Pending(i)
  <2> SUFFICES ASSUME NEW i \in Validable, i # id
               PROVE  (Mem(i)' <=> Mem(i)) /\ (Pending(i)' <=> Pending(i))
    BY DEF Mem, Pending
  <2>1. Mem(i)' <=> Mem(i)
    BY <1>1, <1>3 DEF Mem
  <2>2. Pending(i)' <=> Pending(i)
    BY <1>2, <1>4 DEF Pending
  <2> QED BY <2>1, <2>2
<1>7. \A i \in Validable : i # id => lifeOf'[i] = lifeOf[i] /\ serviceOf'[i] = serviceOf[i]
  BY <1>1, <1>3, <1>5, <1>6 DEF lifeOf, serviceOf
<1>8. CASE id \notin Validable
  <2>1. lifeOf' = lifeOf /\ serviceOf' = serviceOf
    BY <1>7, <1>8 DEF lifeOf, serviceOf
  <2> QED
    BY <1>2, <2>1 DEF Life!lifeVars
<1>9. CASE id \in Validable
  <2>1. id \notin Stored /\ ~Mem(id) /\ Mem(id)' /\ Pending(id)'
    BY <1>2, <1>3, <1>4, <1>9 DEF Held, StoredAsGranted, Fresh, Mem, Pending
  <2>2. /\ lifeOf[id] = "none" /\ lifeOf'[id] = "pending"
        /\ serviceOf'[id] = new.service
    BY <1>3, <1>5, <1>9, <2>1 DEF lifeOf, serviceOf
  <2>3. lifeOf' = [lifeOf EXCEPT ![id] = "pending"]
    BY <1>7, <1>9, <2>2 DEF lifeOf
  <2>4. serviceOf' = [serviceOf EXCEPT ![id] = new.service]
    BY <1>7, <1>9, <2>2 DEF serviceOf
  <2>5. Life!Grant(id, new.service)
    BY <1>2, <2>2, <2>3, <2>4 DEF Life!Grant
  <2> QED
    BY <1>9, <2>5 DEF Life!Next
<1> QED
  BY <1>8, <1>9

LEMMA StoresIsLife ==
  ASSUME TypeOK, Held, NEW t \in Actor, Stores(t)
  PROVE  [Life!Next]_(Life!lifeVars)
<1>1. \A i \in Validable : i \in TicketId
  BY DEF TicketId, Validable
<1>2. PICK new : new = thread[t].new
  OBVIOUS
<1>3. PICK id : id = new.id
  OBVIOUS
<1>4. /\ new # NoTicket /\ id \in Validable
      /\ redis' = [redis EXCEPT ![id] = new]
      /\ UNCHANGED <<ledger, accepts>>
  BY <1>2, <1>3 DEF Stores
<1>5. /\ redis'[id] = new
      /\ \A i \in TicketId : i # id => redis'[i] = redis[i]
  BY <1>1, <1>4 DEF TypeOK, RegistryTypeOK
<1>6. /\ thread'[t].new = NoTicket
      /\ \A a \in Actor : a # t => thread'[a] = thread[a]
  BY DEF Stores, Takes, TypeOK
<1>7. /\ Mem(id) /\ id \notin Stored /\ Pending(id)
  BY <1>2, <1>3, <1>4 DEF Held, NewIsGranted, Pending
<1>8. Mem(id)' /\ id \in Stored'
  BY <1>1, <1>4, <1>5, <1>7 DEF Mem, Stored
<1>9. \A i \in Validable : i # id =>
         (Mem(i)' <=> Mem(i)) /\ (i \in Stored' <=> i \in Stored) /\ (Pending(i)' <=> Pending(i))
  <2> SUFFICES ASSUME NEW i \in Validable, i # id
               PROVE  /\ Mem(i)' <=> Mem(i)
                      /\ i \in Stored' <=> i \in Stored
                      /\ Pending(i)' <=> Pending(i)
    OBVIOUS
  <2>1. Mem(i)' <=> Mem(i)
    BY <1>4 DEF Mem
  <2>2. i \in Stored' <=> i \in Stored
    BY <1>1, <1>5 DEF Stored
  <2>3. Pending(i)' <=> Pending(i)
    BY <1>2, <1>3, <1>6 DEF Pending
  <2> QED BY <2>1, <2>2, <2>3
<1>10. lifeOf[id] = "pending" /\ lifeOf'[id] = "live"
  BY <1>4, <1>7, <1>8 DEF lifeOf
<1>11. lifeOf' = [lifeOf EXCEPT ![id] = "live"]
  BY <1>4, <1>9, <1>10 DEF lifeOf
<1>12. serviceOf' = serviceOf
  BY <1>4 DEF serviceOf, Mem
<1>13. Life!Publish(id)
  BY <1>4, <1>10, <1>11, <1>12 DEF Life!Publish
<1> QED
  BY <1>4, <1>13 DEF Life!Next

LEMMA AcceptsIsLife ==
  ASSUME TypeOK, Held, NEW id \in Validable, NEW s \in Service, Accepts(id, s)
  PROVE  [Life!Next]_(Life!lifeVars)
<1>1. /\ id \in Stored /\ redis[id].service = s
      /\ accepts' = [accepts EXCEPT ![id][s] = @ + 1]
      /\ UNCHANGED <<redis, ledger>>
  BY DEF Accepts
<1>2. Mem(id) /\ ledger[id].service = s
  BY <1>1 DEF Held, StoredAsGranted
<1>3. Stored' = Stored /\ serviceOf' = serviceOf
  BY <1>1 DEF Stored, serviceOf, Mem
<1>4. \A i \in Validable : Mem(i)' <=> Mem(i)
  BY <1>1 DEF Mem
<1>5. \A i \in Validable : Pending(i)' <=> Pending(i)
  BY DEF Accepts, Pending
<1>6. lifeOf' = lifeOf
  BY <1>3, <1>4, <1>5 DEF lifeOf
<1>7. lifeOf[id] = "live" /\ serviceOf[id] = s
  BY <1>1, <1>2 DEF lifeOf, serviceOf
<1>8. Life!Accept(id, s)
  BY <1>1, <1>3, <1>6, <1>7 DEF Life!Accept
<1> QED
  BY <1>8 DEF Life!Next

LEMMA LosesIsLife ==
  ASSUME TypeOK, Held, Loses
  PROVE  [Life!Next]_(Life!lifeVars)
<1>1. \A i \in Validable : i \in TicketId /\ i \notin Granting
  BY DEF TicketId, Validable, Granting
<1>2. serviceOf' = serviceOf /\ UNCHANGED accepts
  BY DEF Loses, serviceOf, Mem
<1>3. \A i \in Validable : Mem(i)' <=> Mem(i)
  BY DEF Loses, Mem
<1>4. \A i \in Validable : i \in Stored' => i \in Stored
  BY <1>1 DEF Loses, Keeps, Stored
<1>5. \A i \in Validable : Pending(i)' => Pending(i)
  BY DEF Loses, KeepsHands, Keeps, Pending
<1>6. \A i \in Validable : Pending(i) => i \notin Stored
  BY DEF Held, NewIsGranted, Pending
<1> DEFINE ended == {i \in Validable : lifeOf'[i] # lifeOf[i]}
<1>7. \A i \in ended : lifeOf[i] \in {"pending", "live"} /\ lifeOf'[i] = "gone"
  BY <1>3, <1>4, <1>5, <1>6 DEF lifeOf
<1>8. lifeOf' = [i \in Validable |-> IF i \in ended THEN "gone" ELSE lifeOf[i]]
  <2>1. \A i \in Validable : lifeOf'[i] = IF i \in ended THEN "gone" ELSE lifeOf[i]
    BY <1>7
  <2> QED
    BY <2>1 DEF lifeOf
<1> HIDE DEF ended
<1>9. ended \in SUBSET Validable
  BY DEF ended
<1>10. Life!End(ended)
  BY <1>2, <1>7, <1>8 DEF Life!End
<1> QED
  BY <1>9, <1>10 DEF Life!Next

LEMMA LifeStep ==
  TypeOK /\ Held /\ [Next]_vars => [Life!Next]_(Life!lifeVars)
BY StepIsOne, CreatesIsLife, StoresIsLife, AcceptsIsLife, LosesIsLife DEF OneOfFour

-----------------------------------------------------------------------------
\* A ticket not yet stored is in the hands of the one thread that created it,
\* and a stored one is what was granted.
THEOREM TicketsAreHeldOnce == Spec => []Held
<1>1. TypeOK /\ Held /\ [Next]_vars => Held'
  BY StepIsOne, HeldStep
<1> QED
  BY <1>1, HeldInit, TypeCorrect, PTL DEF Spec

\* Whatever the interleaving, the crashes and the failed commands, the cluster
\* implements the abstract life of a service ticket: once gone it stays gone,
\* and only a live ticket is accepted, for its service.
THEOREM TicketsLiveOnce == Spec => TicketLife
BY LifeInit, LifeStep, TicketsAreHeldOnce, TypeCorrect, PTL DEF Spec, TicketLife, Life!Spec

-----------------------------------------------------------------------------
(***************************************************************************)
(* The TTL a ticket is written to Redis with outlasts its own policy, as   *)
(* long as every inactivity timeout is at most the TTL that goes with it.  *)
(* A thread may write a copy long after it made it: what its deadline was  *)
(* computed from is then past, so the TTL, counted from the write, only    *)
(* gets longer (Fitting).                                                  *)
(***************************************************************************)
USE TimesAssumption

\* The settings getTimeout relies on and nothing in the code checks.
Configured ==
  /\ TimeToKill <= MaxTimeToLive
  /\ RememberMeIdle <= RememberMeTtl
  /\ PtTimeToKill <= StTimeToKill

\* Written now, a copy would be gone before Redis drops it.
Fitting(tkt) == tkt.deadline <= now + GetTimeout(tkt)

\* A TGT is the root of its own session.
Rooted(tkt) == tkt.id \in Tgt => tkt.root = tkt.id

InHands == {thread[a].new : a \in Actor} \cup {thread[a].back : a \in Actor}

HandsFit == \A tkt \in InHands \ {NoTicket} : Fitting(tkt) /\ Rooted(tkt)
StoredRooted == \A id \in Stored : Rooted(redis[id])

Outlasts == HandsFit /\ StoredRooted /\ RedisOutlastsPolicy

-----------------------------------------------------------------------------
\* The deadline each kind of ticket is made with.
LEMMA NewTgtDeadline ==
  ASSUME NEW id \in Tgt, NEW time \in Nat
  PROVE  NewTgt(id, time).deadline <= time + Idle(id)
<1> DEFINE limit == IF id \in RememberMe THEN Forever ELSE time + MaxTimeToLive
<1>1. limit \in Nat /\ time + Idle(id) \in Nat
  BY DEF Idle
<1>2. Earlier(limit, time + Idle(id)) <= time + Idle(id)
  BY <1>1, EarlierIsBound
<1> HIDE DEF limit
<1> QED
  BY <1>2 DEF NewTgt, limit

LEMMA AfterGrantDeadline ==
  ASSUME NEW tgt \in Ticket, NEW id \in TicketId, NEW service \in Service, NEW time \in Nat
  PROVE  AfterGrant(tgt, id, service, time).deadline <= time + Idle(tgt.root)
<1>1. time + Idle(tgt.root) \in Nat /\ tgt.limit \in Nat
  BY DEF Idle, Ticket
<1>2. Earlier(tgt.limit, time + Idle(tgt.root)) <= time + Idle(tgt.root)
  BY <1>1, EarlierIsBound
<1>3. AfterGrant(tgt, id, service, time).deadline = Earlier(tgt.limit, time + Idle(tgt.root))
  BY DEF AfterGrant, Ticket
<1> QED
  BY <1>2, <1>3

LEMMA NewServiceTicketDeadline ==
  ASSUME NEW id \in Validable, NEW granting \in Ticket, NEW service \in Service, NEW time \in Nat,
         Configured
  PROVE  NewServiceTicket(id, granting, service, time).deadline <= time + StTimeToKill
<1> DEFINE life == IF id \in St THEN StTimeToKill ELSE PtTimeToKill
<1>1. granting.deadline \in Nat /\ time + life \in Nat /\ life <= StTimeToKill /\ life \in Nat
  BY DEF Ticket, Configured
<1>2. Earlier(granting.deadline, time + life) <= time + life
  BY <1>1, EarlierIsBound
<1>2a. Earlier(granting.deadline, time + life) \in Nat
  BY <1>1, EarlierIsBound
<1>3. NewServiceTicket(id, granting, service, time).deadline
        = Earlier(granting.deadline, time + life)
  BY DEF NewServiceTicket
<1> HIDE DEF life
<1> QED
  BY <1>1, <1>2, <1>2a, <1>3

LEMMA NewPgtDeadline ==
  ASSUME NEW id \in Pgt, NEW st \in Ticket, NEW time \in Nat
  PROVE  NewPgt(id, st, time).deadline <= time + TimeToKill
<1> DEFINE limit == Earlier(st.limit, time + MaxTimeToLive)
<1>1. limit \in Nat /\ time + TimeToKill \in Nat
  BY EarlierIsBound DEF Ticket
<1>2. Earlier(limit, time + TimeToKill) <= time + TimeToKill
  BY <1>1, EarlierIsBound
<1> HIDE DEF limit
<1> QED
  BY <1>2 DEF NewPgt, limit

-----------------------------------------------------------------------------
\* What each kind of ticket needs to fit.
LEMMA TgtFits ==
  ASSUME Configured, now \in Nat, NEW tkt \in Ticket, tkt.id \in Tgt, tkt.root = tkt.id,
         tkt.deadline <= now + Idle(tkt.id)
  PROVE  Fitting(tkt) /\ Rooted(tkt)
<1>1. Idle(tkt.id) <= GetTimeout(tkt) /\ Idle(tkt.id) \in Nat /\ GetTimeout(tkt) \in Nat
  BY DEF Configured, GetTimeout, Idle, Granting, IsRememberMeTicket
<1> QED
  BY <1>1 DEF Fitting, Rooted, Ticket

LEMMA PgtFits ==
  ASSUME Configured, now \in Nat, NEW tkt \in Ticket, tkt.id \in Pgt,
         tkt.deadline <= now + TimeToKill
  PROVE  Fitting(tkt) /\ Rooted(tkt)
<1>1. GetTimeout(tkt) = MaxTimeToLive /\ tkt.id \notin Tgt
  BY DEF GetTimeout, Granting, IsRememberMeTicket
<1> QED
  BY <1>1 DEF Fitting, Rooted, Ticket, Configured

LEMMA ServiceTicketFits ==
  ASSUME now \in Nat, NEW tkt \in Ticket, tkt.id \in Validable,
         tkt.deadline <= now + StTimeToKill
  PROVE  Fitting(tkt) /\ Rooted(tkt)
<1>1. GetTimeout(tkt) = StTimeToKill /\ tkt.id \notin Tgt
  BY DEF GetTimeout, Granting, Validable
<1> QED
  BY <1>1 DEF Fitting, Rooted

LEMMA LaterStillFits ==
  ASSUME TypeOK, TypeOK', now <= now', NEW tkt \in Ticket, Fitting(tkt)
  PROVE  tkt.deadline <= now' + GetTimeout(tkt)
<1>1. GetTimeout(tkt) \in Nat /\ tkt.deadline \in Nat /\ now \in Nat /\ now' \in Nat
  BY DEF GetTimeout, TypeOK, RegistryTypeOK, Ticket
<1> QED
  BY <1>1 DEF Fitting

-----------------------------------------------------------------------------
HIDE TimesAssumption

\* The copies a request makes fit.
LEMMA RequestFits ==
  ASSUME Configured, TypeOK, TypeOK', Held, Outlasts, NEW t \in Thread, Request(t)
  PROVE  Outlasts'
<1>1. t \in Actor /\ now \in Nat
  BY DEF Actor, TypeOK, RegistryTypeOK
<1>2. \A id \in TicketId : redis[id] # NoTicket =>
         redis[id] \in Ticket /\ redis[id].id = id /\ Rooted(redis[id])
  BY DEF TypeOK, RegistryTypeOK, Held, StoredAsGranted, Stored, Outlasts, StoredRooted
<1>3. UNCHANGED registryVars
  BY DEF Request, CreateTicketGrantingTicket, GrantServiceTicket, GrantProxyTicket,
         CreateProxyGrantingTicket, ValidateServiceTicket, DestroyTicketGrantingTicket, DropExpired
<1>4. StoredRooted' /\ RedisOutlastsPolicy'
  BY <1>3 DEF Outlasts, StoredRooted, RedisOutlastsPolicy, Stored, registryVars, Rooted
<1>5. ASSUME NEW new, NEW back, Takes(t, new, back),
             \A tkt \in {new, back} \ {NoTicket} : Fitting(tkt) /\ Rooted(tkt)
      PROVE  Outlasts'
  <2>1. InHands' \subseteq InHands \cup {new, back}
    BY <1>1, <1>5 DEF Takes, InHands, TypeOK
  <2>2. HandsFit'
    BY <1>3, <1>5, <2>1 DEF Outlasts, HandsFit, Fitting, Rooted, registryVars
  <2> QED
    BY <1>4, <2>2 DEF Outlasts
<1>6. ASSUME KeepsHands PROVE Outlasts'
  <2>1. InHands' \subseteq InHands \cup {NoTicket}
    BY <1>6 DEF KeepsHands, Keeps, InHands
  <2>2. HandsFit'
    BY <1>3, <2>1 DEF Outlasts, HandsFit, Fitting, Rooted, registryVars
  <2> QED
    BY <1>4, <2>2 DEF Outlasts
<1>7. CASE \E id \in Tgt, again \in BOOLEAN : CreateTicketGrantingTicket(t, id, again)
  <2> PICK id \in Tgt, again \in BOOLEAN : CreateTicketGrantingTicket(t, id, again)
    BY <1>7
  <2>1. PICK tgt : tgt = NewTgt(id, now)
    OBVIOUS
  <2>2. PICK back : back = IF again THEN tgt ELSE NoTicket
    OBVIOUS
  <2>3. tgt \in Ticket /\ tgt.id = id /\ tgt.root = id /\ tgt.deadline <= now + Idle(id)
    BY <1>1, <2>1, NewTgtIsTicket, NewTgtDeadline
  <2>4. Fitting(tgt) /\ Rooted(tgt)
    BY <1>1, <2>3, TgtFits
  <2>5. BeginAdd(t, "login", tgt, back)
    BY <2>1, <2>2 DEF CreateTicketGrantingTicket
  <2>6. Takes(t, tgt, back)
    BY <1>1, <2>5, BeginAddTakes
  <2> QED
    BY <1>5, <2>2, <2>4, <2>6
<1>8. CASE \E id \in Tgt, st \in St, s \in Service : GrantServiceTicket(t, id, st, s)
  <2> PICK id \in Tgt, st \in St, s \in Service : GrantServiceTicket(t, id, st, s)
    BY <1>8
  <2>1. PICK old : old = redis[id]
    OBVIOUS
  <2>2. PICK tgt : tgt = AfterGrant(old, st, s, now)
    OBVIOUS
  <2>3. PICK new : new = NewServiceTicket(st, tgt, s, now)
    OBVIOUS
  <2>4. id \in TicketId /\ st \in TicketId /\ st \in Validable
    BY DEF TicketId, Validable
  <2>5. old # NoTicket /\ BeginAdd(t, "grant", new, tgt)
    BY <2>1, <2>2, <2>3 DEF GrantServiceTicket
  <2>6. old \in Ticket /\ old.id = id /\ old.root = id
    BY <1>2, <2>1, <2>4, <2>5 DEF Rooted
  <2>7. tgt \in Ticket /\ tgt.id = id /\ tgt.root = id /\ tgt.deadline <= now + Idle(id)
    BY <1>1, <2>2, <2>4, <2>6, AfterGrantIsTicket, AfterGrantDeadline
  <2>8. new \in Ticket /\ new.id = st /\ new.deadline <= now + StTimeToKill
    BY <1>1, <2>3, <2>4, <2>7, NewServiceTicketIsTicket, NewServiceTicketDeadline
  <2>9. Fitting(tgt) /\ Rooted(tgt)
    BY <1>1, <2>7, TgtFits
  <2>10. Fitting(new) /\ Rooted(new)
    BY <1>1, <2>4, <2>8, ServiceTicketFits
  <2>11. Takes(t, new, tgt)
    BY <1>1, <2>5, BeginAddTakes
  <2> QED
    BY <1>5, <2>9, <2>10, <2>11
<1>9. CASE \E id \in Pgt, pt \in Pt, s \in Service : GrantProxyTicket(t, id, pt, s)
  <2> PICK id \in Pgt, pt \in Pt, s \in Service : GrantProxyTicket(t, id, pt, s)
    BY <1>9
  <2>1. PICK old : old = redis[id]
    OBVIOUS
  <2>2. PICK pgt : pgt = AfterGrant(old, pt, s, now)
    OBVIOUS
  <2>3. PICK new : new = NewServiceTicket(pt, pgt, s, now)
    OBVIOUS
  <2>4. id \in TicketId /\ pt \in TicketId /\ pt \in Validable
    BY DEF TicketId, Validable
  <2>5. old # NoTicket /\ BeginAdd(t, "proxy", new, NoTicket)
    BY <2>1, <2>2, <2>3 DEF GrantProxyTicket
  <2>6. old \in Ticket
    BY <1>2, <2>1, <2>4, <2>5
  <2>7. pgt \in Ticket
    BY <1>1, <2>2, <2>4, <2>6, AfterGrantIsTicket
  <2>8. new \in Ticket /\ new.id = pt /\ new.deadline <= now + StTimeToKill
    BY <1>1, <2>3, <2>4, <2>7, NewServiceTicketIsTicket, NewServiceTicketDeadline
  <2>9. Fitting(new) /\ Rooted(new)
    BY <1>1, <2>4, <2>8, ServiceTicketFits
  <2>10. Takes(t, new, NoTicket)
    BY <1>1, <2>5, BeginAddTakes
  <2> QED
    BY <1>5, <2>9, <2>10
<1>10. CASE \E id \in Validable, pgt \in Pgt : CreateProxyGrantingTicket(t, id, pgt)
  <2> PICK id \in Validable, pgt \in Pgt : CreateProxyGrantingTicket(t, id, pgt)
    BY <1>10
  <2>1. PICK old : old = redis[id]
    OBVIOUS
  <2>2. PICK new : new = NewPgt(pgt, old, now)
    OBVIOUS
  <2>3. id \in TicketId
    BY DEF TicketId, Validable
  <2>4. old # NoTicket /\ BeginAdd(t, "pgt", new, NoTicket)
    BY <2>1, <2>2 DEF CreateProxyGrantingTicket
  <2>5. old \in Ticket
    BY <1>2, <2>1, <2>3, <2>4
  <2>6. new \in Ticket /\ new.id = pgt /\ new.deadline <= now + TimeToKill
    BY <1>1, <2>2, <2>5, NewPgtIsTicket, NewPgtDeadline
  <2>7. Fitting(new) /\ Rooted(new)
    BY <1>1, <2>6, PgtFits
  <2>8. Takes(t, new, NoTicket)
    BY <1>1, <2>4, BeginAddTakes
  <2> QED
    BY <1>5, <2>7, <2>8
<1>11. CASE \E id \in Validable, s \in Service : ValidateServiceTicket(t, id, s)
  <2>1. CASE UNCHANGED thread
    BY <1>6, <2>1 DEF KeepsHands, Keeps
  <2>2. CASE \E id \in Validable : BeginDelete(t, "validate", id)
    BY <1>1, <1>6, <2>2, BeginDeleteHands
  <2> QED
    BY <1>11, <2>1, <2>2 DEF ValidateServiceTicket
<1>12. CASE \/ \E id \in Tgt : \/ DestroyTicketGrantingTicket(t, id)
                               \/ DropExpired(t, "grant", id) \/ DropExpired(t, "destroy", id)
            \/ \E id \in Pgt : DropExpired(t, "proxy", id)
  <2>1. PICK op, id : BeginDelete(t, op, id)
    BY <1>12 DEF DestroyTicketGrantingTicket, DropExpired
  <2> QED
    BY <1>1, <1>6, <2>1, BeginDeleteHands
<1> QED
  BY <1>7, <1>8, <1>9, <1>10, <1>11, <1>12 DEF Request

\* What a step that is no request does to Redis.
Commands ==
  \/ UNCHANGED <<now, redis, ttl>>
  \/ \E tkt \in InHands \ {NoTicket} : AddTicket(tkt)
  \/ \E id \in TicketId : DeleteSingleTicket(id)
  \/ Tick

LEMMA RegistryCommands ==
  ASSUME TypeOK, [Next]_vars, ~\E t \in Thread : Request(t)
  PROVE  Commands
<1>1. \A a \in Actor : /\ thread[a].todo \subseteq TicketId
                       /\ thread[a].pc = "delSelf" => thread[a].target \in TicketId
                       /\ thread[a].pc = "add" => thread[a].new \in InHands \ {NoTicket}
                       /\ thread[a].pc = "putBack" => thread[a].back \in InHands \ {NoTicket}
  BY DEF TypeOK, ThreadState, ThreadRecord, InHands
<1>2. CASE \E t \in Thread : AddNew(t)
  BY <1>1, <1>2 DEF AddNew, CommandFails, Commands, Actor
<1>3. CASE \E t \in Thread : PutBack(t)
  BY <1>1, <1>3 DEF PutBack, CommandFails, Commands, Actor
<1>4. ASSUME NEW a \in Actor, DeleteSteps(a)
      PROVE  Commands
  <2>1. CASE DeleteTicket(a)
    BY <2>1 DEF DeleteTicket, GetTicket, CommandFails, registryVars, Commands
  <2>2. CASE DeleteChild(a)
    BY <1>1, <2>2 DEF DeleteChild, CommandFails, Commands
  <2>3. CASE DeleteSelf(a)
    BY <1>1, <2>3 DEF DeleteSelf, CommandFails, Commands
  <2> QED
    BY <1>4, <2>1, <2>2, <2>3 DEF DeleteSteps
<1>5. CASE \E c \in Cleaner : StartScan(c) \/ VisitKey(c)
  BY <1>5 DEF StartScan, VisitKey, registryVars, Commands
<1>6. CASE \E a \in Actor : Crash(a)
  BY <1>6 DEF Crash, CommandFails, Commands
<1>7. CASE Tick
  BY <1>7 DEF Commands
<1>8. CASE UNCHANGED vars
  BY <1>8 DEF vars, registryVars, Commands
<1> QED
  BY <1>2, <1>3, <1>4, <1>5, <1>6, <1>7, <1>8 DEF Next, ThreadSteps, CleanerSteps, Actor

\* What the threads have keeps fitting as time passes.
LEMMA HandsStillFit ==
  ASSUME TypeOK, TypeOK', HandsFit, now <= now',
         \A a \in Actor : /\ thread'[a].new \in InHands \cup {NoTicket}
                          /\ thread'[a].back \in InHands \cup {NoTicket}
  PROVE  HandsFit'
<1> SUFFICES ASSUME NEW tkt \in InHands \ {NoTicket}
             PROVE  Fitting(tkt)' /\ Rooted(tkt)'
  BY DEF HandsFit, InHands
<1>1. tkt \in Ticket
  BY DEF InHands, TypeOK, ThreadState, ThreadRecord
<1>2. Fitting(tkt) /\ Rooted(tkt)
  BY DEF HandsFit
<1>3. tkt.deadline <= now' + GetTimeout(tkt)
  BY <1>1, <1>2, LaterStillFits
<1> QED
  BY <1>2, <1>3 DEF Fitting, Rooted, GetTimeout, IsRememberMeTicket

\* A write of a fitting copy, a deletion or the passing of time leaves what
\* Redis stores with a TTL that outlasts it.
LEMMA CommandsKeepTtl ==
  ASSUME TypeOK, Held, HandsFit, StoredRooted, RedisOutlastsPolicy, Commands
  PROVE  StoredRooted' /\ RedisOutlastsPolicy' /\ now <= now'
<1>1. /\ now \in Nat
      /\ redis \in [TicketId -> Ticket \cup {NoTicket}] /\ ttl \in [TicketId -> Nat]
  BY DEF TypeOK, RegistryTypeOK
<1>2. CASE UNCHANGED <<now, redis, ttl>>
  BY <1>1, <1>2 DEF StoredRooted, RedisOutlastsPolicy, Stored, Rooted
<1>3. CASE \E tkt \in InHands \ {NoTicket} : AddTicket(tkt)
  <2>1. PICK tkt \in InHands \ {NoTicket} : AddTicket(tkt)
    BY <1>3
  <2>2. tkt \in Ticket /\ tkt.id \in TicketId /\ Fitting(tkt) /\ Rooted(tkt)
    BY DEF InHands, TypeOK, ThreadState, ThreadRecord, HandsFit, Ticket
  <2>3. PICK until : until = now + GetTimeout(tkt)
    OBVIOUS
  <2>4. /\ redis'[tkt.id] = tkt /\ ttl'[tkt.id] = until /\ now' = now
        /\ \A id \in TicketId : id # tkt.id => redis'[id] = redis[id] /\ ttl'[id] = ttl[id]
    BY <1>1, <2>1, <2>2, <2>3 DEF AddTicket
  <2>5. tkt.deadline <= until
    BY <2>2, <2>3 DEF Fitting
  <2>6. StoredRooted'
    BY <2>2, <2>4 DEF StoredRooted, Stored, Rooted
  <2>7. RedisOutlastsPolicy'
    BY <2>4, <2>5 DEF RedisOutlastsPolicy, Stored
  <2> QED
    BY <1>1, <2>4, <2>6, <2>7
<1>4. CASE \E id \in TicketId : DeleteSingleTicket(id)
  <2>1. now' = now /\ \A id \in TicketId :
          redis'[id] = NoTicket \/ (redis'[id] = redis[id] /\ ttl'[id] = ttl[id])
    BY <1>1, <1>4 DEF DeleteSingleTicket
  <2> QED
    BY <1>1, <2>1 DEF StoredRooted, RedisOutlastsPolicy, Stored, Rooted
<1>5. CASE Tick
  <2>1. now' = now + 1 /\ \A id \in TicketId :
          redis'[id] = NoTicket \/ (redis'[id] = redis[id] /\ ttl'[id] = ttl[id])
    BY <1>1, <1>5 DEF Tick
  <2> QED
    BY <1>1, <2>1 DEF StoredRooted, RedisOutlastsPolicy, Stored, Rooted
<1> QED
  BY <1>2, <1>3, <1>4, <1>5 DEF Commands

\* Only a request creates a ticket; every other step keeps what it has or lets go.
LEMMA RegistryStepHands ==
  ASSUME TypeOK, Held, [Next]_vars, ~\E t \in Thread : Request(t)
  PROVE  KeepsHands
<1>1. UNCHANGED ledger
  BY DEF Next, vars, casVars, ThreadSteps, CleanerSteps, DeleteSteps, AddNew, PutBack,
     DeleteTicket, DeleteChild, DeleteSelf, StartScan, VisitKey, Crash
<1>2. OneOfFour
  BY RegistryStepIsOne DEF Held
<1>3. ASSUME NEW t \in Actor, NEW id \in TicketId, NEW new \in Ticket, NEW back, Creates(t, id, new, back)
      PROVE  FALSE
  <2>1. ledger[id] = NoTicket /\ ledger'[id] = new
    BY <1>3 DEF Creates, Fresh, TypeOK
  <2> QED
    BY <1>1, <2>1
<1>4. ASSUME NEW t \in Actor, Stores(t)
      PROVE  KeepsHands
  BY <1>4 DEF Stores, Takes, KeepsHands, Keeps, TypeOK
<1> QED
  BY <1>2, <1>3, <1>4 DEF OneOfFour, Accepts, Loses

LEMMA OutlastsStep ==
  ASSUME Configured, TypeOK, TypeOK', Held, Outlasts, [Next]_vars
  PROVE  Outlasts'
<1>1. CASE \E t \in Thread : Request(t)
  BY <1>1, RequestFits
<1>2. CASE ~\E t \in Thread : Request(t)
  <2>1. StoredRooted' /\ RedisOutlastsPolicy' /\ now <= now'
    BY <1>2, RegistryCommands, CommandsKeepTtl DEF Outlasts
  <2>2. \A a \in Actor : /\ thread'[a].new \in InHands \cup {NoTicket}
                        /\ thread'[a].back \in InHands \cup {NoTicket}
    BY <1>2, RegistryStepHands DEF KeepsHands, Keeps, InHands
  <2> QED
    BY <2>1, <2>2, HandsStillFit DEF Outlasts
<1> QED
  BY <1>1, <1>2

LEMMA OutlastsInit == Init => Outlasts
BY EmptyHands DEF Init, RegistryInit, Outlasts, HandsFit, StoredRooted, RedisOutlastsPolicy, InHands, Stored

\* As long as each inactivity timeout is at most the TTL beside it, Redis never
\* drops a ticket that could still be used, however late a copy was written.
THEOREM RedisKeepsWhatIsUsable == Configured => (Spec => []RedisOutlastsPolicy)
<1> SUFFICES ASSUME Configured PROVE Spec => []RedisOutlastsPolicy
  OBVIOUS
<1>1. TypeOK /\ TypeOK' /\ Held /\ Outlasts /\ [Next]_vars => Outlasts'
  BY OutlastsStep
<1>2. Outlasts => RedisOutlastsPolicy
  BY DEF Outlasts
<1> QED
  BY <1>1, <1>2, OutlastsInit, TicketsAreHeldOnce, TypeCorrect, PTL DEF Spec

-----------------------------------------------------------------------------
HIDE TimesAssumption
HIDE IdsAssumption

(***************************************************************************)
(* Single sign-on and single sign-out, for every number of threads and     *)
(* cleaners, failures and crashes.                                         *)
(*                                                                         *)
(* Every copy of a TGT, in Redis or in a thread's hands, knows its session *)
(* (Knows): it has counted a use once a ticket was written back, and it    *)
(* tracks every settled ticket.  A write-back keeps this because a ticket  *)
(* settles only when nobody else has a copy that lacks it, and because a   *)
(* copy that has counted no use is a login's, whose id nobody knows yet    *)
(* (HandsCount).  deleteTicket therefore lists every settled ticket        *)
(* (ChildrenFirst), and none settles while it works.                       *)
(***************************************************************************)

Knows(k) ==
  /\ k.root = k.id
  /\ \A p \in k.services : /\ Mem(p[1]) /\ SessionOf(p[1]) = k.id
                           /\ ledger[p[1]].service = p[2]
  /\ \A st \in written : SessionOf(st) = k.id => k.uses > 0
  /\ \A st \in settled : SessionOf(st) = k.id => st \in Tracked(k)

StoredKnow == \A g \in Tgt : redis[g] # NoTicket => Knows(redis[g])

HandsKnow ==
  \A a \in Actor :
    /\ thread[a].back # NoTicket => thread[a].back.id \in Tgt /\ Knows(thread[a].back)
    /\ thread[a].new # NoTicket /\ thread[a].new.id \in Tgt => Knows(thread[a].new)

\* The copy k is of a session whose login is not over: no ticket is from it.
Unused(a, k) ==
  /\ a \in Thread /\ thread[a].op = "login"
  /\ \A st \in St : Mem(st) => SessionOf(st) # k.id

HandsCount ==
  \A a \in Actor :
    /\ thread[a].back # NoTicket => thread[a].back.uses > 0 \/ Unused(a, thread[a].back)
    /\ thread[a].new # NoTicket /\ thread[a].new.id \in Tgt => Unused(a, thread[a].new)

\* What the history names exists, and a settled ticket is in nobody's hands.
HistoryExists ==
  /\ \A st \in written \cup settled : st \in St /\ Mem(st)
  /\ \A st \in settled : \A a \in Actor : thread[a].new # NoTicket => thread[a].new.id # st

\* The settled tickets of g that are in Redis.
Remaining(g) == {st \in settled \cap Stored : SessionOf(st) = g}

ChildrenOf(a) ==
  /\ thread[a].todo \subseteq St
  /\ thread[a].target \in Tgt =>
       /\ Mem(thread[a].target)
       /\ thread[a].pc = "delChildren" => Remaining(thread[a].target) \subseteq thread[a].todo
       /\ thread[a].pc = "delSelf" => Remaining(thread[a].target) = {}

ChildrenFirst == \A a \in Actor : ChildrenOf(a)

\* A ticket is granted in a session there is, and a deleted one existed.
SessionsExist == \A id \in TicketId : Mem(id) => Mem(ledger[id].root)
RevokedExisted == \A g \in Tgt \cap revoked : Mem(g)

Answers ==
  /\ StoredKnow /\ HandsKnow /\ HandsCount
  /\ HistoryExists /\ ChildrenFirst /\ SessionsExist /\ RevokedExisted

-----------------------------------------------------------------------------
(***************************************************************************)
(* The kinds of step.                                                      *)
(***************************************************************************)
Others(a) == \A b \in Actor \ {a} : thread'[b] = thread[b]

\* A ticket is created.
Born(t, op, new, back) ==
  /\ Others(t) /\ thread[t].pc = "idle"
  /\ new \in Ticket /\ Fresh(new.id) /\ ledger' = [ledger EXCEPT ![new.id] = new]
  /\ thread'[t].op = op /\ thread'[t].new = new /\ thread'[t].back = back
  /\ thread'[t].pc = "add" /\ thread'[t].target = NoTicket /\ thread'[t].todo = {}
  /\ UNCHANGED <<redis, revoked, faults>>

LEMMA BeginAddBorn ==
  ASSUME TypeOK, NEW t \in Actor, NEW op, NEW new \in Ticket, NEW back,
         thread[t] = Waiting, Fresh(new.id), ledger' = [ledger EXCEPT ![new.id] = new],
         BeginAdd(t, op, new, back), UNCHANGED <<registryVars, revoked>>
  PROVE  Born(t, op, new, back)
<1> DEFINE th == [Waiting EXCEPT !.op = op, !.pc = "add", !.new = new, !.back = back]
<1>1. /\ th.op = op /\ th.new = new /\ th.back = back /\ th.pc = "add"
      /\ th.target = NoTicket /\ th.todo = {}
  BY DEF Waiting
<1>2. thread' = [thread EXCEPT ![t] = th]
  BY DEF BeginAdd
<1> HIDE DEF th
<1>3. thread'[t] = th /\ Others(t)
  BY <1>2 DEF TypeOK, Others
<1>4. thread[t].pc = "idle"
  BY DEF Waiting
<1> QED
  BY <1>1, <1>3, <1>4 DEF Born, registryVars

\* A login makes a TGT that has granted nothing.
LoginBorn(t) ==
  \E new, back : /\ Born(t, "login", new, back) /\ new.id \in Tgt
                 /\ new.root = new.id /\ new.services = {}
                 /\ back \in {new, NoTicket}

LEMMA LoginIsBorn ==
  ASSUME TypeOK, NEW t \in Actor, NEW id \in Tgt, NEW again \in BOOLEAN,
         CreateTicketGrantingTicket(t, id, again)
  PROVE  LoginBorn(t)
<1>1. PICK tgt : tgt = NewTgt(id, now)
  OBVIOUS
<1>2. PICK back : back = IF again THEN tgt ELSE NoTicket
  OBVIOUS
<1>3. tgt \in Ticket /\ tgt.id = id /\ tgt.root = id
  BY <1>1, NewTgtIsTicket DEF TypeOK, RegistryTypeOK
<1>4. tgt.services = {}
  BY <1>1 DEF NewTgt
<1>5. /\ thread[t] = Waiting /\ Fresh(tgt.id) /\ ledger' = [ledger EXCEPT ![tgt.id] = tgt]
      /\ BeginAdd(t, "login", tgt, back) /\ UNCHANGED <<registryVars, revoked>>
  BY <1>1, <1>2, <1>3 DEF CreateTicketGrantingTicket
<1>6. Born(t, "login", tgt, back)
  BY <1>3, <1>5, BeginAddBorn
<1> QED
  BY <1>2, <1>3, <1>4, <1>6 DEF LoginBorn

\* What granting does to the copy of the TGT: it counts a use and tracks the
\* new ticket, in the place of the same service's under TrackOnlyLatest.
LEMMA GrantTracks ==
  ASSUME NEW tgt \in Ticket, NEW st \in St, NEW s \in Service, NEW time \in Nat
  PROVE  /\ AfterGrant(tgt, st, s, time).uses > 0
         /\ <<st, s>> \in AfterGrant(tgt, st, s, time).services
         /\ AfterGrant(tgt, st, s, time).services \subseteq tgt.services \cup {<<st, s>>}
         /\ \A p \in tgt.services : p \in AfterGrant(tgt, st, s, time).services
                                    \/ (TrackOnlyLatest /\ p[2] = s)
<1> DEFINE kept == IF TrackOnlyLatest THEN {p \in tgt.services : p[2] # s} ELSE tgt.services
           n == AfterGrant(tgt, st, s, time)
<1>1. n.uses = tgt.uses + 1 /\ n.services = kept \cup {<<st, s>>}
  BY DEF AfterGrant, Ticket
<1>2. tgt.uses \in Nat
  BY DEF Ticket
<1> HIDE DEF n
<1>3. n.uses > 0
  BY <1>1, <1>2
<1>4. <<st, s>> \in n.services /\ n.services \subseteq tgt.services \cup {<<st, s>>}
  BY <1>1
<1>5. \A p \in tgt.services : p \in n.services \/ (TrackOnlyLatest /\ p[2] = s)
  BY <1>1
<1> QED
  BY <1>3, <1>4, <1>5 DEF n

\* Granting leaves the thread the copy of the TGT that tracks the new ticket.
GrantBorn(t) ==
  \E g \in Tgt : \E new, back :
    /\ Born(t, "grant", new, back) /\ Known(g) /\ new.id \in St /\ new.root = back.root
    /\ redis[g] # NoTicket /\ redis[g] \in Ticket
    /\ back \in Ticket /\ back.id = g /\ back.root = redis[g].root /\ back.uses > 0
    /\ <<new.id, new.service>> \in back.services
    /\ back.services \subseteq redis[g].services \cup {<<new.id, new.service>>}
    /\ \A p \in redis[g].services : p \in back.services \/ (TrackOnlyLatest /\ p[2] = new.service)
    /\ new.service \notin SsoService => redis[g].uses = 0

LEMMA GrantIsBorn ==
  ASSUME TypeOK, Held, NEW t \in Actor, NEW id \in Tgt, NEW st \in St, NEW s \in Service,
         GrantServiceTicket(t, id, st, s)
  PROVE  GrantBorn(t)
<1>1. PICK old : old = redis[id]
  OBVIOUS
<1>2. PICK tgt : tgt = AfterGrant(old, st, s, now)
  OBVIOUS
<1>3. PICK new : new = NewServiceTicket(st, tgt, s, now)
  OBVIOUS
<1>4. /\ thread[t] = Waiting /\ Known(id) /\ Fresh(st) /\ old # NoTicket /\ MayGrant(old, s)
      /\ ledger' = [ledger EXCEPT ![st] = new]
      /\ BeginAdd(t, "grant", new, tgt) /\ UNCHANGED <<registryVars, revoked>>
  BY <1>1, <1>2, <1>3 DEF GrantServiceTicket
<1>5. now \in Nat /\ id \in TicketId /\ st \in TicketId /\ st \in Validable
  BY DEF TypeOK, RegistryTypeOK, TicketId, Validable
<1>6. old \in Ticket /\ old.id = id
  BY <1>1, <1>4, <1>5 DEF TypeOK, RegistryTypeOK, Held, StoredAsGranted, Stored
<1>7. tgt \in Ticket /\ tgt.id = id /\ tgt.root = old.root
  BY <1>2, <1>5, <1>6, AfterGrantIsTicket
<1>8. /\ tgt.uses > 0 /\ <<st, s>> \in tgt.services
      /\ tgt.services \subseteq old.services \cup {<<st, s>>}
      /\ \A p \in old.services : p \in tgt.services \/ (TrackOnlyLatest /\ p[2] = s)
  BY <1>2, <1>5, <1>6, GrantTracks
<1>9. new \in Ticket /\ new.id = st /\ new.root = tgt.root
  BY <1>3, <1>5, <1>7, NewServiceTicketIsTicket
<1>10. new.service = s
  BY <1>3 DEF NewServiceTicket
<1>11. old.uses \in Nat
  BY <1>6 DEF Ticket
<1>12. s \notin SsoService => old.uses = 0
  BY <1>4, <1>11 DEF MayGrant
<1>13. Born(t, "grant", new, tgt)
  BY <1>4, <1>9, BeginAddBorn
<1> QED
  BY <1>1, <1>4, <1>6, <1>7, <1>8, <1>9, <1>10, <1>12, <1>13 DEF GrantBorn

\* A proxy ticket or a PGT comes without a copy to write back.
ProxyBorn(t) == \E op, new : Born(t, op, new, NoTicket) /\ new.id \in Pt \cup Pgt

LEMMA ProxyIsBorn ==
  ASSUME TypeOK, NEW t \in Actor,
         \/ \E id \in Pgt, pt \in Pt, s \in Service : GrantProxyTicket(t, id, pt, s)
         \/ \E id \in Validable, pgt \in Pgt : CreateProxyGrantingTicket(t, id, pgt)
  PROVE  ProxyBorn(t)
<1>1. now \in Nat /\ \A id \in TicketId : redis[id] # NoTicket => redis[id] \in Ticket
  BY DEF TypeOK, RegistryTypeOK
<1>2. ASSUME NEW id \in Pgt, NEW pt \in Pt, NEW s \in Service, GrantProxyTicket(t, id, pt, s)
      PROVE  ProxyBorn(t)
  <2>1. PICK pgt : pgt = AfterGrant(redis[id], pt, s, now)
    OBVIOUS
  <2>2. PICK new : new = NewServiceTicket(pt, pgt, s, now)
    OBVIOUS
  <2>3. /\ thread[t] = Waiting /\ Fresh(pt) /\ redis[id] # NoTicket
        /\ ledger' = [ledger EXCEPT ![pt] = new]
        /\ BeginAdd(t, "proxy", new, NoTicket) /\ UNCHANGED <<registryVars, revoked>>
    BY <1>2, <2>1, <2>2 DEF GrantProxyTicket
  <2>4. id \in TicketId /\ pt \in TicketId /\ pt \in Validable
    BY DEF TicketId, Validable
  <2>5. pgt \in Ticket
    BY <1>1, <2>1, <2>3, <2>4, AfterGrantIsTicket
  <2>6. new \in Ticket /\ new.id = pt
    BY <1>1, <2>2, <2>4, <2>5, NewServiceTicketIsTicket
  <2>7. Born(t, "proxy", new, NoTicket)
    BY <2>3, <2>6, BeginAddBorn
  <2> QED
    BY <2>6, <2>7 DEF ProxyBorn
<1>3. ASSUME NEW id \in Validable, NEW pgt \in Pgt, CreateProxyGrantingTicket(t, id, pgt)
      PROVE  ProxyBorn(t)
  <2>1. PICK new : new = NewPgt(pgt, redis[id], now)
    OBVIOUS
  <2>2. /\ thread[t] = Waiting /\ Fresh(pgt) /\ redis[id] # NoTicket
        /\ ledger' = [ledger EXCEPT ![pgt] = new]
        /\ BeginAdd(t, "pgt", new, NoTicket) /\ UNCHANGED <<registryVars, revoked>>
    BY <1>3, <2>1 DEF CreateProxyGrantingTicket
  <2>3. id \in TicketId
    BY DEF TicketId, Validable
  <2>4. new \in Ticket /\ new.id = pgt
    BY <1>1, <2>1, <2>2, <2>3, NewPgtIsTicket
  <2>5. Born(t, "pgt", new, NoTicket)
    BY <2>2, <2>4, BeginAddBorn
  <2> QED
    BY <2>4, <2>5 DEF ProxyBorn
<1> QED
  BY <1>2, <1>3

\* deleteTicket is called: whoever ends a session has told its services.
DeleteBegun(a) ==
  /\ Others(a)
  /\ thread[a].pc \in {"idle", "scan"}
  /\ thread'[a].new = NoTicket /\ thread'[a].back = NoTicket
  /\ thread'[a].pc = "delete" /\ thread'[a].todo = {}
  /\ thread'[a].target \in TicketId /\ redis[thread'[a].target] # NoTicket
  /\ \A g \in Tgt : EndsSession(a, g) => Tracked(redis[g]) \subseteq notified'
  /\ UNCHANGED <<redis, ledger, revoked, faults>>

LEMMA BeginDeleteBegun ==
  ASSUME TypeOK, NEW a \in Actor, NEW op, NEW id \in TicketId, redis[id] # NoTicket,
         thread[a].pc \in {"idle", "scan"}, BeginDelete(a, op, id),
         UNCHANGED <<redis, ledger, revoked, faults>>,
         \/ op \notin {"destroy", "clean"}
         \/ op = "destroy" /\ IsExpired(redis[id], now)
         \/ id \in Tgt => Tracked(redis[id]) \subseteq notified'
  PROVE  DeleteBegun(a)
<1> DEFINE th == [Waiting EXCEPT !.op = op, !.pc = "delete", !.target = id,
                                 !.scan = thread[a].scan \ {id}]
<1>1. /\ th.op = op /\ th.pc = "delete" /\ th.target = id
      /\ th.new = NoTicket /\ th.back = NoTicket /\ th.todo = {}
  BY DEF Waiting
<1>2. thread' = [thread EXCEPT ![a] = th]
  BY DEF BeginDelete
<1> HIDE DEF th
<1>3. thread'[a] = th /\ Others(a)
  BY <1>2 DEF TypeOK, Others
<1>4. ASSUME NEW g \in Tgt, EndsSession(a, g) PROVE Tracked(redis[g]) \subseteq notified'
  <2>1. g = id /\ ((op = "destroy" /\ ~IsExpired(redis[id], now)) \/ op = "clean")
    BY <1>1, <1>3, <1>4 DEF EndsSession
  <2> QED
    BY <2>1
<1> QED
  BY <1>1, <1>3, <1>4 DEF DeleteBegun

\* a lets go of some of what it has, and is not in the midst of a deletion.
Releases(a) ==
  /\ Others(a)
  /\ Keeps(thread[a].new, thread'[a].new) /\ Keeps(thread[a].back, thread'[a].back)
  /\ thread'[a].new # NoTicket \/ thread'[a].back # NoTicket => thread'[a].op = thread[a].op
  /\ Keeps(thread[a].target, thread'[a].target) /\ thread'[a].todo \subseteq thread[a].todo
  /\ thread'[a].pc \notin {"delete", "delChildren", "delSelf"}

LEMMA WaitingFields ==
  /\ Waiting.new = NoTicket /\ Waiting.back = NoTicket /\ Waiting.target = NoTicket
  /\ Waiting.pc = "idle" /\ Waiting.todo = {}
BY DEF Waiting

LEMMA ResumedReleases ==
  ASSUME TypeOK, NEW a \in Actor, thread' = [thread EXCEPT ![a] = Resumed(a)]
  PROVE  Releases(a)
<1>1. thread'[a] = Resumed(a) /\ Others(a)
  BY DEF TypeOK, Others
<1>2. PICK th : th = [Waiting EXCEPT !.op = "clean", !.pc = "scan", !.scan = thread[a].scan]
  OBVIOUS
<1>3. th.new = NoTicket /\ th.back = NoTicket /\ th.target = NoTicket /\ th.pc = "scan" /\ th.todo = {}
  BY <1>2 DEF Waiting
<1>4. Resumed(a) \in {Waiting, th}
  BY <1>2 DEF Resumed
<1> QED
  BY <1>1, <1>3, <1>4, WaitingFields DEF Releases, Keeps

LEMMA WaitingReleases ==
  ASSUME TypeOK, NEW a \in Actor, thread' = [thread EXCEPT ![a] = Waiting]
  PROVE  Releases(a)
<1>1. thread'[a] = Waiting /\ Others(a)
  BY DEF TypeOK, Others
<1> QED
  BY <1>1, WaitingFields DEF Releases, Keeps

\* It does so and nothing else: a failed command, a crash, a key of a scan.
LetsGo(a) ==
  /\ Releases(a) /\ ~WritesBack(a)
  /\ UNCHANGED <<redis, ledger, revoked>>

\* The new ticket is written.
NewAdded(t) ==
  /\ Releases(t) /\ thread[t].pc = "add" /\ thread'[t].new = NoTicket
  /\ thread[t].new \in Ticket
  /\ redis' = [redis EXCEPT ![thread[t].new.id] = thread[t].new]
  /\ UNCHANGED <<ledger, revoked, faults>>

LEMMA AddNewAdds ==
  ASSUME TypeOK, NEW t \in Actor, AddNew(t)
  PROVE  NewAdded(t) \/ LetsGo(t)
<1>1. thread[t] \in ThreadRecord /\ thread[t].new # NoTicket /\ thread[t].pc = "add"
  BY DEF TypeOK, ThreadState, AddNew
<1>2. thread[t].new \in Ticket
  BY <1>1 DEF ThreadRecord
<1>3. PICK th : th = [thread[t] EXCEPT !.pc = "putBack", !.new = NoTicket]
  OBVIOUS
<1>4. /\ th.new = NoTicket /\ th.back = thread[t].back /\ th.pc = "putBack"
      /\ th.op = thread[t].op /\ th.target = thread[t].target /\ th.todo = thread[t].todo
  BY <1>1, <1>3 DEF ThreadRecord
<1>5. thread' = [thread EXCEPT ![t] = IF thread[t].back = NoTicket THEN Waiting ELSE th]
  BY <1>3 DEF AddNew, TypeOK
<1>6. Releases(t) /\ thread'[t].new = NoTicket
  <2>1. CASE thread[t].back = NoTicket
    BY <1>5, <2>1, WaitingReleases, WaitingFields DEF TypeOK
  <2>2. CASE thread[t].back # NoTicket
    <3>1. thread'[t] = th /\ Others(t)
      BY <1>5, <2>2 DEF TypeOK, Others
    <3> QED
      BY <1>4, <3>1 DEF Releases, Keeps
  <2> QED
    BY <2>1, <2>2
<1>7. ~WritesBack(t)
  BY <1>1 DEF WritesBack
<1>8. UNCHANGED <<ledger, revoked>>
  BY DEF AddNew
<1>9. CASE AddTicket(thread[t].new)
  BY <1>1, <1>2, <1>6, <1>8, <1>9 DEF AddTicket, NewAdded
<1>10. CASE CommandFails
  BY <1>6, <1>7, <1>8, <1>10 DEF CommandFails, LetsGo
<1> QED
  BY <1>9, <1>10 DEF AddNew

\* A failed command uses up one of the failures.
LEMMA FailureCounts ==
  ASSUME TypeOK, CommandFails
  PROVE  faults' # faults
BY BoundsAssumption DEF CommandFails, TypeOK, RegistryTypeOK

\* The TGT is written back.
TgtPutBack(t) ==
  /\ Releases(t) /\ thread[t].pc = "putBack"
  /\ thread'[t].new = NoTicket /\ thread'[t].back = NoTicket
  /\ thread[t].back \in Ticket
  /\ redis' = [redis EXCEPT ![thread[t].back.id] = thread[t].back]
  /\ UNCHANGED <<ledger, revoked, faults>>

LEMMA PutBackPuts ==
  ASSUME TypeOK, NEW t \in Actor, PutBack(t)
  PROVE  TgtPutBack(t) \/ LetsGo(t)
<1>1. thread[t].back \in Ticket /\ thread[t].pc = "putBack"
  BY DEF TypeOK, ThreadState, ThreadRecord, PutBack
<1>2. thread'[t] = Waiting /\ Releases(t) /\ UNCHANGED <<ledger, revoked>>
  BY WaitingReleases DEF PutBack, TypeOK
<1>3. CASE AddTicket(thread[t].back)
  BY <1>1, <1>2, <1>3, WaitingFields DEF AddTicket, TgtPutBack
<1>4. CASE CommandFails
  BY <1>2, <1>4, FailureCounts DEF CommandFails, LetsGo, WritesBack
<1> QED
  BY <1>3, <1>4 DEF PutBack

\* deleteTicket goes on with the same ticket.
GoesOn(a) ==
  /\ Others(a)
  /\ thread'[a].new = thread[a].new /\ thread'[a].back = thread[a].back
  /\ thread'[a].target = thread[a].target /\ thread'[a].op = thread[a].op

\* The ticket is read again, and with it the children it tracks.
ChildrenListed(a) ==
  /\ GoesOn(a) /\ thread[a].pc = "delete"
  /\ redis[thread[a].target] \in Ticket
  /\ thread'[a].todo = Tracked(redis[thread[a].target])
  /\ thread'[a].pc = IF thread'[a].todo = {} THEN "delSelf" ELSE "delChildren"
  /\ UNCHANGED <<redis, ledger, revoked, faults>>

LEMMA DeleteTicketLists ==
  ASSUME TypeOK, NEW a \in Actor, DeleteTicket(a)
  PROVE  ChildrenListed(a) \/ LetsGo(a)
<1>1. thread[a] \in ThreadRecord /\ thread[a].target \in TicketId /\ thread[a].pc = "delete"
  BY DEF TypeOK, ThreadState, ThreadRecord, DeleteTicket
<1>2. PICK tkt \in {redis[thread[a].target], NoTicket} :
        /\ GetTicket(thread[a].target, tkt)
        /\ LET todo == IF tkt = NoTicket THEN {} ELSE {p[1] : p \in tkt.services}
           IN thread' = [thread EXCEPT ![a] =
                IF tkt = NoTicket THEN Resumed(a)
                ELSE [@ EXCEPT !.pc = IF todo = {} THEN "delSelf" ELSE "delChildren",
                               !.todo = todo]]
  BY DEF DeleteTicket
<1>3. UNCHANGED <<redis, ledger, revoked>> /\ ~WritesBack(a)
  BY <1>1, <1>2 DEF DeleteTicket, GetTicket, CommandFails, registryVars, WritesBack
<1>4. CASE tkt = NoTicket
  <2>1. thread' = [thread EXCEPT ![a] = Resumed(a)]
    BY <1>2, <1>4
  <2> QED
    BY <1>3, <2>1, ResumedReleases DEF LetsGo
<1>5. CASE tkt # NoTicket
  <2>1. PICK todo : todo = Tracked(tkt)
    OBVIOUS
  <2>2. PICK pc : pc = IF todo = {} THEN "delSelf" ELSE "delChildren"
    OBVIOUS
  <2>3. PICK th : th = [thread[a] EXCEPT !.pc = pc, !.todo = todo]
    OBVIOUS
  <2>4. thread'[a] = th /\ Others(a)
    BY <1>2, <1>5, <2>1, <2>2, <2>3 DEF TypeOK, Tracked, Others
  <2>5. /\ th.new = thread[a].new /\ th.back = thread[a].back /\ th.target = thread[a].target
        /\ th.op = thread[a].op /\ th.pc = pc /\ th.todo = todo
    BY <1>1, <2>3 DEF ThreadRecord
  <2>6. tkt \in Ticket /\ tkt = redis[thread[a].target] /\ UNCHANGED faults
    BY <1>1, <1>2, <1>5 DEF TypeOK, RegistryTypeOK, GetTicket, registryVars
  <2> QED
    BY <1>1, <1>3, <2>1, <2>2, <2>4, <2>5, <2>6 DEF ChildrenListed, GoesOn
<1> QED
  BY <1>4, <1>5

\* One child is deleted, or its DEL fails; with the last of them the ticket is next.
ChildDone(a) ==
  /\ GoesOn(a) /\ thread[a].pc = "delChildren" /\ UNCHANGED ledger
  /\ \E id \in thread[a].todo :
       /\ \/ redis' = [redis EXCEPT ![id] = NoTicket] /\ revoked' = revoked \cup {id} /\ UNCHANGED faults
          \/ UNCHANGED <<redis, revoked>> /\ faults' # faults
       /\ thread'[a].todo = thread[a].todo \ {id}
       /\ thread'[a].pc = IF thread[a].todo = {id} THEN "delSelf" ELSE "delChildren"

LEMMA DeleteChildDone ==
  ASSUME TypeOK, NEW a \in Actor, DeleteChild(a)
  PROVE  ChildDone(a)
<1>1. thread[a] \in ThreadRecord /\ thread[a].pc = "delChildren" /\ UNCHANGED ledger
  BY DEF TypeOK, ThreadState, DeleteChild
<1>2. PICK id \in thread[a].todo :
        /\ \/ DeleteSingleTicket(id) /\ revoked' = revoked \cup {id}
           \/ CommandFails /\ UNCHANGED revoked
        /\ thread' = [thread EXCEPT
             ![a].todo = @ \ {id},
             ![a].pc = IF thread[a].todo = {id} THEN "delSelf" ELSE "delChildren"]
  BY DEF DeleteChild
<1>3. PICK pc : pc = IF thread[a].todo = {id} THEN "delSelf" ELSE "delChildren"
  OBVIOUS
<1>4. PICK th : th = [thread[a] EXCEPT !.todo = thread[a].todo \ {id}, !.pc = pc]
  OBVIOUS
<1>5. thread'[a] = th /\ Others(a)
  BY <1>1, <1>2, <1>3, <1>4 DEF TypeOK, ThreadRecord, Others
<1>6. /\ th.new = thread[a].new /\ th.back = thread[a].back /\ th.target = thread[a].target
      /\ th.op = thread[a].op /\ th.pc = pc /\ th.todo = thread[a].todo \ {id}
  BY <1>1, <1>4 DEF ThreadRecord
<1>7. \/ redis' = [redis EXCEPT ![id] = NoTicket] /\ revoked' = revoked \cup {id} /\ UNCHANGED faults
      \/ UNCHANGED <<redis, revoked>> /\ faults' # faults
  BY <1>2, FailureCounts DEF DeleteSingleTicket, CommandFails
<1> QED
  BY <1>1, <1>3, <1>5, <1>6, <1>7 DEF ChildDone, GoesOn

\* The ticket itself is deleted.
SelfDeleted(a) ==
  /\ Releases(a) /\ thread[a].pc = "delSelf"
  /\ redis' = [redis EXCEPT ![thread[a].target] = NoTicket]
  /\ revoked' = revoked \cup {thread[a].target}
  /\ UNCHANGED <<ledger, faults>>

LEMMA DeleteSelfDeletes ==
  ASSUME TypeOK, NEW a \in Actor, DeleteSelf(a)
  PROVE  SelfDeleted(a) \/ LetsGo(a)
<1>1. Releases(a) /\ thread[a].pc = "delSelf" /\ UNCHANGED ledger
  BY ResumedReleases DEF DeleteSelf
<1>2. ~WritesBack(a)
  BY <1>1 DEF WritesBack
<1> QED
  BY <1>1, <1>2 DEF DeleteSelf, DeleteSingleTicket, CommandFails, SelfDeleted, LetsGo

\* No thread moves; Redis may drop keys.
KeysDropped ==
  /\ \A id \in TicketId : Keeps(redis[id], redis'[id])
  /\ UNCHANGED <<thread, ledger, revoked, faults>>

Kind(a) ==
  \/ a \in Thread /\ LoginBorn(a)
  \/ a \in Thread /\ GrantBorn(a)
  \/ ProxyBorn(a)
  \/ DeleteBegun(a)
  \/ LetsGo(a)
  \/ NewAdded(a)
  \/ a \in Thread /\ TgtPutBack(a)
  \/ ChildrenListed(a)
  \/ ChildDone(a)
  \/ SelfDeleted(a)

\* A request is one of these.
LEMMA RequestKinds ==
  ASSUME TypeOK, Held, NEW t \in Thread, Request(t)
  PROVE  Kind(t) \/ KeysDropped
<1>1. t \in Actor
  BY DEF Actor
<1>2. CASE \E id \in Tgt, again \in BOOLEAN : CreateTicketGrantingTicket(t, id, again)
  BY <1>1, <1>2, LoginIsBorn DEF Kind
<1>3. CASE \E id \in Tgt, st \in St, s \in Service : GrantServiceTicket(t, id, st, s)
  BY <1>1, <1>3, GrantIsBorn DEF Kind
<1>4. CASE \/ \E id \in Pgt, pt \in Pt, s \in Service : GrantProxyTicket(t, id, pt, s)
           \/ \E id \in Validable, pgt \in Pgt : CreateProxyGrantingTicket(t, id, pgt)
  BY <1>1, <1>4, ProxyIsBorn DEF Kind
<1>5. ASSUME thread[t] = Waiting PROVE thread[t].pc \in {"idle", "scan"}
  BY <1>5 DEF Waiting
<1>6. ASSUME NEW id \in Validable, NEW s \in Service, ValidateServiceTicket(t, id, s)
      PROVE  DeleteBegun(t) \/ KeysDropped
  <2>1. /\ thread[t] = Waiting /\ redis[id] # NoTicket /\ id \in TicketId
        /\ UNCHANGED <<redis, ledger, revoked, faults>>
        /\ BeginDelete(t, "validate", id) \/ UNCHANGED thread
    BY <1>6 DEF ValidateServiceTicket, registryVars, TicketId, Validable
  <2> QED
    BY <1>1, <1>5, <2>1, BeginDeleteBegun DEF KeysDropped, Keeps
<1>7. ASSUME NEW id \in Tgt, DestroyTicketGrantingTicket(t, id)
      PROVE  DeleteBegun(t)
  <2>1. /\ thread[t] = Waiting /\ redis[id] # NoTicket /\ id \in TicketId
        /\ UNCHANGED <<redis, ledger, revoked, faults>>
        /\ BeginDelete(t, "destroy", id)
        /\ Tracked(redis[id]) \subseteq notified'
    BY <1>7 DEF DestroyTicketGrantingTicket, PerformLogout, registryVars, TicketId, Tracked
  <2> QED
    BY <1>1, <1>5, <2>1, BeginDeleteBegun
<1>8. ASSUME NEW op \in {"grant", "destroy", "proxy"}, NEW id \in TicketId, DropExpired(t, op, id)
      PROVE  DeleteBegun(t)
  <2>1. /\ thread[t] = Waiting /\ redis[id] # NoTicket /\ IsExpired(redis[id], now)
        /\ UNCHANGED <<redis, ledger, revoked, faults>>
        /\ BeginDelete(t, op, id)
    BY <1>8 DEF DropExpired, registryVars
  <2>2. op \notin {"destroy", "clean"} \/ op = "destroy"
    OBVIOUS
  <2> QED
    BY <1>1, <1>5, <2>1, <2>2, BeginDeleteBegun
<1> QED
  BY <1>2, <1>3, <1>4, <1>6, <1>7, <1>8 DEF Request, TicketId, Kind

\* A cleaner's step outside deleteTicket begins one or goes on with the scan.
LEMMA ScanKinds ==
  ASSUME TypeOK, NEW c \in Cleaner, StartScan(c) \/ VisitKey(c)
  PROVE  Kind(c)
<1>1. c \in Actor /\ thread[c] \in ThreadRecord
  BY DEF Actor, TypeOK, ThreadState
<1>2. CASE StartScan(c)
  <2>1. PICK th : th = [Waiting EXCEPT !.op = "clean", !.pc = "scan", !.scan = Stored]
    OBVIOUS
  <2>2. th.new = NoTicket /\ th.back = NoTicket /\ th.target = NoTicket /\ th.pc = "scan" /\ th.todo = {}
    BY <2>1 DEF Waiting
  <2>3. thread'[c] = th /\ Others(c)
    BY <1>1, <1>2, <2>1 DEF StartScan, TypeOK, Others
  <2>4. thread[c].pc # "putBack"
    BY <1>2 DEF StartScan, Waiting
  <2> QED
    BY <1>2, <2>2, <2>3, <2>4 DEF StartScan, registryVars, Releases, Keeps, LetsGo, WritesBack, Kind
<1>3. CASE VisitKey(c)
  <2>1. PICK id \in thread[c].scan :
         IF redis[id] # NoTicket /\ IsExpired(redis[id], now)
         THEN /\ BeginDelete(c, "clean", id)
              /\ IF id \in Granting THEN PerformLogout(redis[id])
                                    ELSE UNCHANGED notified
         ELSE /\ thread' = [thread EXCEPT ![c] =
                   IF thread[c].scan = {id} THEN Waiting
                   ELSE [thread[c] EXCEPT !.scan = thread[c].scan \ {id}]]
              /\ UNCHANGED notified
    BY <1>3 DEF VisitKey
  <2>2. /\ id \in TicketId /\ thread[c].pc = "scan"
        /\ UNCHANGED <<redis, ledger, revoked, faults>>
    BY <1>1, <1>3 DEF ThreadRecord, VisitKey, registryVars
  <2>3. CASE redis[id] # NoTicket /\ IsExpired(redis[id], now)
    <3>1. id \in Tgt => Tracked(redis[id]) \subseteq notified'
      BY <2>1, <2>3 DEF Granting, PerformLogout, Tracked
    <3> QED
      BY <1>1, <2>1, <2>2, <2>3, <3>1, BeginDeleteBegun DEF Kind
  <2>4. CASE ~(redis[id] # NoTicket /\ IsExpired(redis[id], now))
    <3>1. PICK th : th = [thread[c] EXCEPT !.scan = thread[c].scan \ {id}]
      OBVIOUS
    <3>2. /\ th.new = thread[c].new /\ th.back = thread[c].back /\ th.target = thread[c].target
          /\ th.pc = "scan" /\ th.todo = thread[c].todo /\ th.op = thread[c].op
      BY <1>1, <2>2, <3>1 DEF ThreadRecord
    <3>3. thread' = [thread EXCEPT ![c] = IF thread[c].scan = {id} THEN Waiting ELSE th]
      BY <2>1, <2>4, <3>1
    <3>4. thread'[c] \in {th, Waiting} /\ Others(c)
      BY <1>1, <3>3 DEF TypeOK, Others
    <3>5. Releases(c)
      BY <3>2, <3>4, WaitingFields DEF Releases, Keeps
    <3>6. ~WritesBack(c)
      BY <2>2 DEF WritesBack
    <3> QED
      BY <2>2, <3>5, <3>6 DEF LetsGo, Kind
  <2> QED
    BY <2>3, <2>4
<1> QED
  BY <1>2, <1>3

LEMMA StepKinds ==
  ASSUME TypeOK, Held, Next
  PROVE  KeysDropped \/ \E a \in Actor : Kind(a)
<1>1. CASE \E t \in Thread : Request(t)
  BY <1>1, RequestKinds DEF Actor
<1>2. CASE \E t \in Thread : AddNew(t)
  BY <1>2, AddNewAdds DEF Actor, Kind
<1>3. CASE \E t \in Thread : PutBack(t)
  BY <1>3, PutBackPuts DEF Actor, Kind
<1>4. CASE \E a \in Actor : DeleteSteps(a)
  BY <1>4, DeleteTicketLists, DeleteChildDone, DeleteSelfDeletes DEF DeleteSteps, Kind
<1>5. CASE \E c \in Cleaner : StartScan(c) \/ VisitKey(c)
  BY <1>5, ScanKinds DEF Actor
<1>6. CASE \E a \in Actor : Crash(a)
  <2> PICK a \in Actor : Crash(a)
    BY <1>6
  <2>1. Releases(a) /\ UNCHANGED <<redis, ledger, revoked>> /\ faults' # faults
    BY WaitingReleases, FailureCounts DEF Crash, CommandFails
  <2> QED
    BY <2>1 DEF WritesBack, LetsGo, Kind
<1>7. CASE Tick /\ UNCHANGED casVars
  <2>1. redis' = [id \in TicketId |-> IF ttl[id] <= now + 1 THEN NoTicket ELSE redis[id]]
    BY <1>7 DEF Tick
  <2> QED
    BY <1>7, <2>1 DEF Tick, casVars, KeysDropped, Keeps
<1> QED
  BY <1>1, <1>2, <1>3, <1>4, <1>5, <1>6, <1>7 DEF Next, ThreadSteps, CleanerSteps, Actor

-----------------------------------------------------------------------------
(***************************************************************************)
(* What a step does to the history.                                        *)
(***************************************************************************)
LEMMA NothingWritten ==
  ASSUME Remember, \A t \in Thread : ~WritesBack(t)
  PROVE  /\ written' = written
         /\ settled' = {st \in settled : ~Superseded(st) /\ ~Missed(st)}
<1>1. {u \in Thread : WritesBack(u)} = {}
  OBVIOUS
<1>2. {st \in St : Settles(st)} = {}
  BY DEF Settles
<1>3. {Tracked(thread[t].back) : t \in {u \in Thread : WritesBack(u)}} = {}
  BY <1>1
<1> QED
  BY <1>2, <1>3 DEF Remember

\* Only a write-back adds to it.
LEMMA KindWrites ==
  ASSUME NEW a \in Actor, Kind(a), ~(a \in Thread /\ TgtPutBack(a)), NEW t \in Thread
  PROVE  ~WritesBack(t)
<1>1. CASE t # a
  <2>1. Others(a)
    BY DEF Kind, LoginBorn, GrantBorn, ProxyBorn, Born, DeleteBegun, LetsGo, NewAdded,
       ChildrenListed, ChildDone, SelfDeleted, GoesOn, Releases
  <2> QED
    BY <1>1, <2>1 DEF Others, WritesBack, Actor
<1>2. CASE t = a
  <2>1. LetsGo(a) \/ thread[a].pc # "putBack"
    BY DEF Kind, LoginBorn, GrantBorn, ProxyBorn, Born, DeleteBegun, NewAdded,
       ChildrenListed, ChildDone, SelfDeleted
  <2> QED
    BY <1>2, <2>1 DEF LetsGo, WritesBack
<1> QED
  BY <1>1, <1>2

-----------------------------------------------------------------------------
(***************************************************************************)
(* Every kind of step keeps Answers.                                       *)
(***************************************************************************)
Grows == \A id \in TicketId : Mem(id) => ledger'[id] = ledger[id]

LEMMA CopyTypes ==
  ASSUME TypeOK, Held
  PROVE  /\ \A g \in Tgt : redis[g] # NoTicket => redis[g] \in Ticket /\ redis[g].id = g
         /\ \A a \in Actor : thread[a].new \in Ticket \cup {NoTicket}
         /\ \A a \in Actor : thread[a].back \in Ticket \cup {NoTicket}
<1>1. \A g \in Tgt : g \in TicketId
  BY DEF TicketId
<1> QED
  BY <1>1 DEF TypeOK, RegistryTypeOK, ThreadState, ThreadRecord, Held, StoredAsGranted, Stored

LEMMA TrackedAreSt ==
  ASSUME NEW k \in Ticket
  PROVE  /\ Tracked(k) \subseteq St
         /\ \A p \in k.services : p[1] \in St
BY DEF Tracked, Ticket

LEMMA StAreIds == St \subseteq TicketId /\ Tgt \subseteq TicketId
BY DEF TicketId

\* What was known stays so while the history does not grow.
LEMMA KnowsKept ==
  ASSUME HistoryExists, Grows, written' \subseteq written, settled' \subseteq settled,
         NEW k \in Ticket, Knows(k)
  PROVE  Knows(k)'
<1>1. \A st \in St : Mem(st) => Mem(st)' /\ ledger'[st] = ledger[st]
  BY StAreIds DEF Grows, Mem
<1>2. \A p \in k.services : Mem(p[1])' /\ SessionOf(p[1])' = k.id /\ ledger'[p[1]].service = p[2]
  BY <1>1, TrackedAreSt DEF Knows, SessionOf
<1>3. \A st \in written' : SessionOf(st)' = k.id => k.uses > 0
  BY <1>1 DEF Knows, SessionOf, HistoryExists
<1>4. \A st \in settled' : SessionOf(st)' = k.id => st \in Tracked(k)
  BY <1>1 DEF Knows, SessionOf, HistoryExists
<1>5. k.root = k.id
  BY DEF Knows
<1> QED
  BY <1>2, <1>3, <1>4, <1>5 DEF Knows, Tracked

\* Copies that are dropped, or written where they belong.
LEMMA LessKeeps ==
  ASSUME TypeOK, TypeOK', Held, Answers, UNCHANGED ledger,
         written' = written, settled' \subseteq settled,
         \A g \in Tgt : \/ Keeps(redis[g], redis'[g])
                        \/ \E a \in Actor : redis'[g] = thread[a].new /\ thread[a].new.id = g,
         \A a \in Actor :
           /\ Keeps(thread[a].new, thread'[a].new) /\ Keeps(thread[a].back, thread'[a].back)
           /\ thread'[a].new # NoTicket \/ thread'[a].back # NoTicket => thread'[a].op = thread[a].op
  PROVE  StoredKnow' /\ HandsKnow' /\ HandsCount' /\ HistoryExists' /\ SessionsExist'
<1>1. \A k \in Ticket : Knows(k) => Knows(k)'
  BY KnowsKept DEF Answers, Grows
<1>2. \A id \in TicketId : Mem(id)' <=> Mem(id)
  BY DEF Mem
<1>3. StoredKnow'
  <2> SUFFICES ASSUME NEW g \in Tgt, redis'[g] # NoTicket PROVE Knows(redis[g])'
    BY DEF StoredKnow
  <2>1. PICK k : k = redis'[g]
    OBVIOUS
  <2>2. k \in Ticket /\ Knows(k)
    BY <2>1, CopyTypes DEF Keeps, Answers, StoredKnow, HandsKnow
  <2>3. Knows(k)'
    BY <1>1, <2>2
  <2> QED
    BY <2>1, <2>3 DEF Knows, Tracked
<1>4. HandsKnow'
  <2> SUFFICES ASSUME NEW a \in Actor
               PROVE  /\ thread'[a].back # NoTicket => thread'[a].back.id \in Tgt /\ Knows(thread[a].back)'
                      /\ thread'[a].new # NoTicket /\ thread'[a].new.id \in Tgt => Knows(thread[a].new)'
    BY DEF HandsKnow
  <2>1. PICK back, new : back = thread'[a].back /\ new = thread'[a].new
    OBVIOUS
  <2>2. back # NoTicket => back \in Ticket /\ back.id \in Tgt /\ Knows(back)
    BY <2>1, CopyTypes DEF Keeps, Answers, HandsKnow
  <2>3. new # NoTicket /\ new.id \in Tgt => new \in Ticket /\ Knows(new)
    BY <2>1, CopyTypes DEF Keeps, Answers, HandsKnow
  <2>4. (back # NoTicket => Knows(back)') /\ (new # NoTicket /\ new.id \in Tgt => Knows(new)')
    BY <1>1, <2>2, <2>3
  <2> QED
    BY <2>1, <2>2, <2>4 DEF Knows, Tracked
<1>5. HandsCount'
  BY DEF Answers, HandsCount, Unused, Keeps, Mem, SessionOf
<1>6. HistoryExists'
  BY DEF Answers, HistoryExists, Keeps, Mem
<1>7. SessionsExist'
  BY DEF Answers, SessionsExist, Mem
<1> QED
  BY <1>3, <1>4, <1>5, <1>6, <1>7

\* No settled ticket of any session is added to Redis.
NoneRemains ==
  /\ settled' \subseteq settled
  /\ \A st \in settled : redis'[st] # NoTicket => redis[st] # NoTicket

LEMMA RemainingShrinks ==
  ASSUME HistoryExists, Grows, NoneRemains, NEW g
  PROVE  Remaining(g)' \subseteq Remaining(g)
<1>1. \A st \in settled : st \in TicketId /\ ledger'[st] = ledger[st]
  BY StAreIds DEF HistoryExists, Grows
<1> QED
  BY <1>1 DEF Remaining, NoneRemains, SessionOf, Stored

\* An actor that does not move.
LEMMA ChildrenStay ==
  ASSUME HistoryExists, Grows, NoneRemains, NEW a \in Actor, ChildrenOf(a), thread'[a] = thread[a]
  PROVE  ChildrenOf(a)'
<1>1. PICK th : th = thread[a]
  OBVIOUS
<1>2. Remaining(th.target)' \subseteq Remaining(th.target)
  BY RemainingShrinks
<1>3. th.target \in Tgt /\ Mem(th.target) => Mem(th.target)'
  BY StAreIds DEF Grows, Mem
<1> QED
  BY <1>1, <1>2, <1>3 DEF ChildrenOf

\* An actor that is not in the midst of a deletion.
LEMMA ChildrenReleased ==
  ASSUME Grows, NEW a \in Actor, ChildrenOf(a), Releases(a)
  PROVE  ChildrenOf(a)'
<1>1. thread'[a].target \in Tgt => thread'[a].target = thread[a].target
  BY StAreIds DEF Releases, Keeps
<1>2. \A g \in Tgt : Mem(g) => Mem(g)'
  BY StAreIds DEF Grows, Mem
<1>3. PICK th : th = thread'[a]
  OBVIOUS
<1>4. th.todo \subseteq St /\ th.pc \notin {"delete", "delChildren", "delSelf"}
  BY <1>3 DEF ChildrenOf, Releases
<1>5. th.target \in Tgt => Mem(th.target)'
  BY <1>1, <1>2, <1>3 DEF ChildrenOf
<1> QED
  BY <1>3, <1>4, <1>5 DEF ChildrenOf

LEMMA SameLedgerGrows == ASSUME UNCHANGED ledger PROVE Grows
BY DEF Grows

\* The steps that write no TGT back and create no ticket.
LEMMA ReleaseKeeps ==
  ASSUME TypeOK, TypeOK', Held, Answers, NEW a \in Actor,
         LetsGo(a) \/ NewAdded(a) \/ SelfDeleted(a),
         written' = written, settled' \subseteq settled
  PROVE  Answers'
<1>1. Releases(a) /\ UNCHANGED ledger /\ Grows
  BY SameLedgerGrows DEF LetsGo, NewAdded, SelfDeleted
<1>2. \A b \in Actor :
        /\ Keeps(thread[b].new, thread'[b].new) /\ Keeps(thread[b].back, thread'[b].back)
        /\ thread'[b].new # NoTicket \/ thread'[b].back # NoTicket => thread'[b].op = thread[b].op
  BY <1>1 DEF Releases, Others, Keeps
<1>3. \A g \in Tgt : \/ Keeps(redis[g], redis'[g])
                     \/ \E b \in Actor : redis'[g] = thread[b].new /\ thread[b].new.id = g
  BY StAreIds DEF LetsGo, NewAdded, SelfDeleted, Keeps, TypeOK, RegistryTypeOK
<1>4. StoredKnow' /\ HandsKnow' /\ HandsCount' /\ HistoryExists' /\ SessionsExist'
  BY <1>1, <1>2, <1>3, LessKeeps
<1>5. NoneRemains
  <2>1. \A st \in settled : st \in TicketId /\ \A b \in Actor : thread[b].new # NoTicket => thread[b].new.id # st
    BY StAreIds DEF Answers, HistoryExists
  <2>2. NewAdded(a) => thread[a].new # NoTicket
    BY DEF NewAdded
  <2> QED
    BY <2>1, <2>2 DEF NoneRemains, LetsGo, NewAdded, SelfDeleted, TypeOK, RegistryTypeOK
<1>6. ChildrenFirst'
  <2> SUFFICES ASSUME NEW b \in Actor PROVE ChildrenOf(b)'
    BY DEF ChildrenFirst
  <2>1. ChildrenOf(b)
    BY DEF Answers, ChildrenFirst
  <2>2. b # a => thread'[b] = thread[b]
    BY <1>1 DEF Releases, Others
  <2> QED
    BY <1>1, <1>5, <2>1, <2>2, ChildrenStay, ChildrenReleased DEF Answers
<1>7. RevokedExisted'
  <2>1. \A g \in Tgt \cap revoked' : g \in revoked \/ (SelfDeleted(a) /\ g = thread[a].target)
    BY DEF LetsGo, NewAdded, SelfDeleted
  <2>2. thread[a].target \in Tgt => Mem(thread[a].target)
    BY DEF Answers, ChildrenFirst, ChildrenOf
  <2> QED
    BY <1>1, <2>1, <2>2 DEF Answers, RevokedExisted, Mem
<1> QED
  BY <1>4, <1>6, <1>7 DEF Answers

\* deleteTicket begins, or lists the children of the TGT: every settled ticket.
LEMMA ListedKeeps ==
  ASSUME TypeOK, TypeOK', HardLimit, Held, Answers, NEW a \in Actor, DeleteBegun(a) \/ ChildrenListed(a),
         written' = written, settled' \subseteq settled
  PROVE  Answers'
<1>1. Others(a) /\ UNCHANGED <<redis, ledger, revoked>> /\ Grows
  BY SameLedgerGrows DEF DeleteBegun, ChildrenListed, GoesOn
<1>2. \A b \in Actor :
        /\ Keeps(thread[b].new, thread'[b].new) /\ Keeps(thread[b].back, thread'[b].back)
        /\ thread'[b].new # NoTicket \/ thread'[b].back # NoTicket => thread'[b].op = thread[b].op
  BY <1>1 DEF DeleteBegun, ChildrenListed, GoesOn, Others, Keeps
<1>3. StoredKnow' /\ HandsKnow' /\ HandsCount' /\ HistoryExists' /\ SessionsExist'
  BY <1>1, <1>2, LessKeeps DEF Keeps
<1>4. NoneRemains
  BY <1>1 DEF NoneRemains
<1>5. ASSUME NEW g \in Tgt, redis[g] # NoTicket PROVE Mem(g) /\ Remaining(g) \subseteq Tracked(redis[g])
  <2>1. Knows(redis[g]) /\ redis[g].id = g
    BY <1>5, CopyTypes DEF Answers, StoredKnow
  <2>2. Remaining(g) \subseteq Tracked(redis[g])
    BY <2>1 DEF Knows, Remaining
  <2>3. redis[g] \in Copies /\ redis[g].root = g
    BY <2>1, StAreIds DEF Copies, Knows
  <2> QED
    BY <1>5, <2>2, <2>3 DEF HardLimit, InSession
<1>6. ChildrenOf(a)'
  <2>1. PICK th : th = thread'[a]
    OBVIOUS
  <2>2. CASE DeleteBegun(a)
    <3>1. th.todo = {} /\ th.pc = "delete"
      BY <2>1, <2>2 DEF DeleteBegun
    <3>2. th.target \in Tgt => Mem(th.target)'
      BY <1>1, <1>5, <2>1, <2>2 DEF DeleteBegun, Mem
    <3> QED
      BY <2>1, <3>1, <3>2 DEF ChildrenOf
  <2>3. CASE ChildrenListed(a)
    <3>1. PICK k : k = redis[thread[a].target]
      OBVIOUS
    <3>2. /\ th.target = thread[a].target /\ th.todo = Tracked(k)
          /\ th.pc = IF th.todo = {} THEN "delSelf" ELSE "delChildren"
          /\ k \in Ticket
      BY <2>1, <2>3, <3>1 DEF ChildrenListed, GoesOn
    <3>3. th.todo \subseteq St /\ k # NoTicket
      BY <3>2, TrackedAreSt
    <3>4. th.target \in Tgt => Mem(th.target)' /\ Remaining(th.target) \subseteq th.todo
      BY <1>1, <1>5, <3>1, <3>2, <3>3 DEF Mem
    <3>5. Remaining(th.target)' \subseteq Remaining(th.target)
      BY <1>1, <1>4, RemainingShrinks DEF Answers
    <3> QED
      BY <2>1, <3>2, <3>3, <3>4, <3>5 DEF ChildrenOf
  <2> QED
    BY <2>2, <2>3
<1>7. ChildrenFirst'
  BY <1>1, <1>4, <1>6, ChildrenStay DEF Answers, ChildrenFirst, Others
<1>8. RevokedExisted'
  BY <1>1 DEF Answers, RevokedExisted, Mem
<1> QED
  BY <1>3, <1>7, <1>8 DEF Answers

\* A child is deleted; one whose DEL fails is no longer settled.
LEMMA ChildDoneKeeps ==
  ASSUME TypeOK, TypeOK', Held, Answers, NEW a \in Actor, ChildDone(a),
         written' = written, settled' = {st \in settled : ~Superseded(st) /\ ~Missed(st)}
  PROVE  Answers'
<1>1. Others(a) /\ UNCHANGED ledger /\ Grows /\ settled' \subseteq settled
  BY SameLedgerGrows DEF ChildDone, GoesOn
<1>2. PICK id \in thread[a].todo :
       /\ \/ redis' = [redis EXCEPT ![id] = NoTicket] /\ revoked' = revoked \cup {id} /\ UNCHANGED faults
          \/ UNCHANGED <<redis, revoked>> /\ faults' # faults
       /\ thread'[a].todo = thread[a].todo \ {id}
       /\ thread'[a].pc = IF thread[a].todo = {id} THEN "delSelf" ELSE "delChildren"
  BY DEF ChildDone
<1>3. ChildrenOf(a) /\ id \in St /\ id \notin Tgt /\ id \in TicketId
  BY <1>2, StAreIds, IdsAssumption DEF Answers, ChildrenFirst, ChildrenOf
<1>4. \A b \in Actor :
        /\ Keeps(thread[b].new, thread'[b].new) /\ Keeps(thread[b].back, thread'[b].back)
        /\ thread'[b].new # NoTicket \/ thread'[b].back # NoTicket => thread'[b].op = thread[b].op
  BY <1>1 DEF ChildDone, GoesOn, Others, Keeps
<1>5. \A i \in TicketId : Keeps(redis[i], redis'[i])
  BY <1>2, <1>3 DEF Keeps, TypeOK, RegistryTypeOK
<1>6. StoredKnow' /\ HandsKnow' /\ HandsCount' /\ HistoryExists' /\ SessionsExist'
  BY <1>1, <1>4, <1>5, StAreIds, LessKeeps
<1>7. NoneRemains
  BY <1>1, <1>5, StAreIds DEF NoneRemains, Keeps, Answers, HistoryExists
<1>8. id \notin settled' \/ redis'[id] = NoTicket
  <2>1. CASE redis' = [redis EXCEPT ![id] = NoTicket]
    BY <1>3, <2>1 DEF TypeOK, RegistryTypeOK
  <2>2. CASE faults' # faults
    <3>1. thread[a].pc = "delChildren" /\ thread'[a].pc # "idle" /\ id \in thread[a].todo \ thread'[a].todo
      BY <1>2 DEF ChildDone
    <3> QED
      BY <2>2, <3>1 DEF Missed
  <2> QED
    BY <1>2, <2>1, <2>2
<1>9. ChildrenOf(a)'
  <2>1. PICK old, th : old = thread[a] /\ th = thread'[a]
    OBVIOUS
  <2>2. /\ th.target = old.target /\ old.pc = "delChildren" /\ th.todo = old.todo \ {id}
        /\ th.pc = IF old.todo = {id} THEN "delSelf" ELSE "delChildren"
    BY <1>2, <2>1 DEF ChildDone, GoesOn
  <2>3. Remaining(th.target)' \subseteq Remaining(th.target) \ {id}
    BY <1>1, <1>7, <1>8, RemainingShrinks DEF Answers, Remaining, Stored
  <2>4. /\ old.todo \subseteq St
        /\ th.target \in Tgt => Mem(th.target)' /\ Remaining(th.target) \subseteq old.todo
    BY <1>1, <1>3, <2>1, <2>2 DEF ChildrenOf, Mem
  <2>5. th.todo \subseteq St /\ (th.pc = "delSelf" => th.todo = {}) /\ th.pc # "delete"
    BY <2>2, <2>4
  <2>6. th.target \in Tgt => Mem(th.target)' /\ Remaining(th.target)' \subseteq th.todo
    BY <2>2, <2>3, <2>4
  <2> QED
    BY <2>1, <2>5, <2>6 DEF ChildrenOf
<1>10. ChildrenFirst'
  BY <1>1, <1>7, <1>9, ChildrenStay DEF Answers, ChildrenFirst, Others
<1>11. RevokedExisted'
  BY <1>1, <1>2, <1>3 DEF Answers, RevokedExisted, Mem
<1> QED
  BY <1>6, <1>10, <1>11 DEF Answers

\* Keys are dropped, or nothing happens.
LEMMA DroppedKeeps ==
  ASSUME TypeOK, TypeOK', Held, Answers, KeysDropped, written' = written, settled' \subseteq settled
  PROVE  Answers'
<1>1. UNCHANGED <<ledger, revoked>> /\ Grows /\ \A a \in Actor : thread'[a] = thread[a]
  BY SameLedgerGrows DEF KeysDropped
<1>2. StoredKnow' /\ HandsKnow' /\ HandsCount' /\ HistoryExists' /\ SessionsExist'
  <2>1. \A a \in Actor :
          /\ Keeps(thread[a].new, thread'[a].new) /\ Keeps(thread[a].back, thread'[a].back)
          /\ thread'[a].new # NoTicket \/ thread'[a].back # NoTicket => thread'[a].op = thread[a].op
    BY <1>1 DEF Keeps
  <2>2. \A g \in Tgt : Keeps(redis[g], redis'[g])
    BY StAreIds DEF KeysDropped
  <2> QED
    BY <1>1, <2>1, <2>2, LessKeeps
<1>3. NoneRemains
  BY StAreIds DEF NoneRemains, KeysDropped, Keeps, Answers, HistoryExists
<1>4. ChildrenFirst'
  BY <1>1, <1>3, ChildrenStay DEF Answers, ChildrenFirst
<1>5. RevokedExisted'
  BY <1>1 DEF Answers, RevokedExisted, Mem
<1> QED
  BY <1>2, <1>4, <1>5 DEF Answers

\* What the ledger has after a ticket was created.
LEMMA BornLedger ==
  ASSUME TypeOK, NEW t \in Actor, NEW op, NEW new, NEW back, Born(t, op, new, back)
  PROVE  /\ new.id \in TicketId /\ new # NoTicket /\ Grows
         /\ ledger'[new.id] = new /\ ~Mem(new.id)
         /\ \A id \in TicketId : id # new.id => ledger'[id] = ledger[id]
         /\ \A id \in TicketId : Mem(id)' <=> Mem(id) \/ id = new.id
<1>1. new \in Ticket /\ new.id \in TicketId /\ new # NoTicket
  BY DEF Born, Ticket
<1>2. ledger' = [ledger EXCEPT ![new.id] = new] /\ ledger[new.id] = NoTicket
  BY DEF Born, Fresh
<1>3. ledger'[new.id] = new /\ \A id \in TicketId : id # new.id => ledger'[id] = ledger[id]
  BY <1>1, <1>2 DEF TypeOK
<1> QED
  BY <1>1, <1>2, <1>3 DEF Mem, Grows

\* A new ticket keeps Answers if its thread's copies fit and no copy that has
\* counted no use is of the new ticket's session.
LEMMA BornKeeps ==
  ASSUME TypeOK, TypeOK', HardLimit', Held, Answers, NEW t \in Actor,
         NEW op, NEW new, NEW back, Born(t, op, new, back),
         written' = written, settled' \subseteq settled,
         new.id \in St => \A a \in Actor : \A k \in {thread[a].new, thread[a].back} \ {NoTicket} :
                            Unused(a, k) => k.id # new.root,
         back # NoTicket => /\ back.id \in Tgt /\ Knows(back)'
                            /\ back.uses > 0 \/ Unused(t, back)',
         new.id \in Tgt => Knows(new)' /\ Unused(t, new)'
  PROVE  Answers'
<1>1. /\ new.id \in TicketId /\ new # NoTicket /\ Grows
      /\ ledger'[new.id] = new /\ ~Mem(new.id)
      /\ \A id \in TicketId : id # new.id => ledger'[id] = ledger[id]
      /\ \A id \in TicketId : Mem(id)' <=> Mem(id) \/ id = new.id
  BY BornLedger
<1>2. /\ \A a \in Actor : a # t => thread'[a] = thread[a]
      /\ UNCHANGED <<redis, revoked>>
      /\ thread'[t].op = op /\ thread'[t].new = new /\ thread'[t].back = back
      /\ thread'[t].pc = "add" /\ thread'[t].target = NoTicket /\ thread'[t].todo = {}
  BY DEF Born, Others
<1>3. \A k \in Ticket : Knows(k) => Knows(k)'
  BY <1>1, KnowsKept DEF Answers
<1>4. StoredKnow'
  <2> SUFFICES ASSUME NEW g \in Tgt, redis'[g] # NoTicket PROVE Knows(redis[g])'
    BY DEF StoredKnow
  <2>1. PICK k : k = redis'[g]
    OBVIOUS
  <2>2. k \in Ticket /\ Knows(k)
    BY <1>2, <2>1, CopyTypes DEF Answers, StoredKnow
  <2>3. Knows(k)'
    BY <1>3, <2>2
  <2> QED
    BY <2>1, <2>3 DEF Knows, Tracked
<1>5. HandsKnow'
  <2> SUFFICES ASSUME NEW a \in Actor, NEW b, NEW n, b = thread'[a].back, n = thread'[a].new
               PROVE  /\ b # NoTicket => b.id \in Tgt /\ Knows(b)'
                      /\ n # NoTicket /\ n.id \in Tgt => Knows(n)'
    BY DEF HandsKnow, Knows, Tracked
  <2>1. CASE a = t
    BY <1>2, <2>1
  <2>2. CASE a # t
    <3>1. b # NoTicket => b \in Ticket /\ b.id \in Tgt /\ Knows(b)
      BY <1>2, <2>2, CopyTypes DEF Answers, HandsKnow
    <3>2. n # NoTicket /\ n.id \in Tgt => n \in Ticket /\ Knows(n)
      BY <1>2, <2>2, CopyTypes DEF Answers, HandsKnow
    <3> QED
      BY <1>3, <3>1, <3>2
  <2> QED
    BY <2>1, <2>2
<1>6. HandsCount'
  <2>1. ASSUME NEW a \in Actor, a # t, NEW k \in {thread[a].new, thread[a].back} \ {NoTicket}, Unused(a, k)
        PROVE  Unused(a, k)'
    <3>1. a \in Thread /\ thread'[a].op = "login"
      BY <1>2, <2>1 DEF Unused
    <3>2. ASSUME NEW st \in St, Mem(st)' PROVE SessionOf(st)' # k.id
      <4>1. CASE st = new.id
        BY <1>1, <2>1, <4>1 DEF SessionOf
      <4>2. CASE st # new.id
        BY <1>1, <2>1, <3>2, <4>2, StAreIds DEF SessionOf, Unused
      <4> QED
        BY <4>1, <4>2
    <3> QED
      BY <3>1, <3>2 DEF Unused
  <2>2. ASSUME NEW a \in Actor, NEW b, NEW n, b = thread'[a].back, n = thread'[a].new
        PROVE  /\ b # NoTicket => b.uses > 0 \/ Unused(a, b)'
               /\ n # NoTicket /\ n.id \in Tgt => Unused(a, n)'
    <3>1. CASE a = t
      BY <1>2, <2>2, <3>1
    <3>2. CASE a # t
      BY <1>2, <2>1, <2>2, <3>2 DEF Answers, HandsCount
    <3> QED
      BY <3>1, <3>2
  <2> QED
    BY <2>2 DEF HandsCount, Unused, SessionOf, Mem
<1>7. HistoryExists'
  BY <1>1, <1>2, StAreIds DEF Answers, HistoryExists
<1>8. NoneRemains
  BY <1>2 DEF NoneRemains
<1>9. ChildrenFirst'
  <2>1. ChildrenOf(t)'
    BY <1>2, StAreIds DEF ChildrenOf
  <2> QED
    BY <1>1, <1>2, <1>8, <2>1, ChildrenStay DEF Answers, ChildrenFirst
<1>10. SessionsExist'
  <2>1. new \in Copies'
    BY <1>2 DEF Copies
  <2>2. Mem(new.root)'
    BY <1>1, <2>1 DEF HardLimit, InSession
  <2>3. \A id \in TicketId : Mem(id) => ledger[id].root \in TicketId
    BY StAreIds DEF Mem, TypeOK, Ticket
  <2> SUFFICES ASSUME NEW id \in TicketId, Mem(id)', NEW g, g = ledger'[id].root PROVE Mem(g)'
    BY DEF SessionsExist, Mem
  <2>4. CASE id = new.id
    BY <1>1, <2>2, <2>4
  <2>5. CASE id # new.id
    BY <1>1, <2>3, <2>5 DEF Answers, SessionsExist
  <2> QED
    BY <2>4, <2>5
<1>11. RevokedExisted'
  BY <1>1, <1>2, StAreIds DEF Answers, RevokedExisted
<1> QED
  BY <1>4, <1>5, <1>6, <1>7, <1>9, <1>10, <1>11 DEF Answers

LEMMA LoginKeeps ==
  ASSUME TypeOK, TypeOK', HardLimit', Held, Answers, NEW t \in Actor, t \in Thread, LoginBorn(t),
         written' = written, settled' \subseteq settled
  PROVE  Answers'
<1>1. PICK new, back : /\ Born(t, "login", new, back) /\ new.id \in Tgt
                       /\ new.root = new.id /\ new.services = {}
                       /\ back \in {new, NoTicket}
  BY DEF LoginBorn
<1>2. /\ Grows /\ ~Mem(new.id) /\ new # NoTicket
      /\ \A id \in TicketId : id # new.id => ledger'[id] = ledger[id]
      /\ \A id \in TicketId : Mem(id)' <=> Mem(id) \/ id = new.id
  BY <1>1, BornLedger
<1>3. ASSUME NEW st \in St, Mem(st)' PROVE SessionOf(st)' # new.id
  <2>1. st # new.id /\ st \in TicketId
    BY <1>1, StAreIds, IdsAssumption
  <2>2. Mem(SessionOf(st)) /\ ledger'[st] = ledger[st]
    BY <1>2, <1>3, <2>1 DEF Answers, SessionsExist, SessionOf
  <2> QED
    BY <1>2, <2>2 DEF SessionOf
<1>4. Unused(t, new)'
  <2>1. thread'[t].op = "login"
    BY <1>1 DEF Born
  <2> QED
    BY <1>3, <2>1 DEF Unused
<1>5. Knows(new)'
  <2>1. \A st \in written' \cup settled' : st \in St /\ Mem(st)'
    BY <1>2, StAreIds DEF Answers, HistoryExists
  <2>2. \A st \in written' \cup settled' : SessionOf(st)' # new.id
    BY <1>3, <2>1
  <2> QED
    BY <1>1, <2>2 DEF Knows
<1>6. new.id \notin St
  BY <1>1, IdsAssumption
<1> QED
  BY <1>1, <1>4, <1>5, <1>6, BornKeeps

\* The copy of the TGT that granting leaves tracks what is settled and not
\* superseded by the new ticket.
LEMMA GrantKeeps ==
  ASSUME TypeOK, TypeOK', HardLimit', Held, Answers, NEW t \in Actor, GrantBorn(t),
         written' = written, settled' = {st \in settled : ~Superseded(st) /\ ~Missed(st)}
  PROVE  Answers'
<1>1. PICK g \in Tgt : \E n, b :
        /\ Born(t, "grant", n, b) /\ Known(g) /\ n.id \in St /\ n.root = b.root
        /\ redis[g] # NoTicket /\ redis[g] \in Ticket
        /\ b \in Ticket /\ b.id = g /\ b.root = redis[g].root /\ b.uses > 0
        /\ <<n.id, n.service>> \in b.services
        /\ b.services \subseteq redis[g].services \cup {<<n.id, n.service>>}
        /\ \A p \in redis[g].services : p \in b.services \/ (TrackOnlyLatest /\ p[2] = n.service)
        /\ n.service \notin SsoService => redis[g].uses = 0
  BY DEF GrantBorn
<1>2. PICK new, back :
        /\ Born(t, "grant", new, back) /\ Known(g) /\ new.id \in St /\ new.root = back.root
        /\ redis[g] # NoTicket /\ redis[g] \in Ticket
        /\ back \in Ticket /\ back.id = g /\ back.root = redis[g].root /\ back.uses > 0
        /\ <<new.id, new.service>> \in back.services
        /\ back.services \subseteq redis[g].services \cup {<<new.id, new.service>>}
        /\ \A p \in redis[g].services : p \in back.services \/ (TrackOnlyLatest /\ p[2] = new.service)
  BY <1>1
<1>3. PICK old : old = redis[g]
  OBVIOUS
<1>4. old \in Ticket /\ old.id = g /\ old.root = g /\ Knows(old)
  BY <1>2, <1>3, CopyTypes DEF Answers, StoredKnow, Knows
<1>5. /\ Grows /\ ~Mem(new.id) /\ ledger'[new.id] = new
      /\ \A id \in TicketId : Mem(id)' <=> Mem(id) \/ id = new.id
  BY <1>2, BornLedger
<1>6. /\ Mem(new.id)' /\ SessionOf(new.id)' = g /\ ledger'[new.id].service = new.service
  BY <1>2, <1>3, <1>4, <1>5, StAreIds DEF SessionOf
<1>7. Knows(old)'
  BY <1>4, <1>5, KnowsKept DEF Answers
<1>8. \A p \in back.services : /\ Mem(p[1])' /\ SessionOf(p[1])' = g
                               /\ ledger'[p[1]].service = p[2]
  BY <1>2, <1>3, <1>4, <1>6, <1>7 DEF Knows
<1>9. ASSUME NEW st \in settled', SessionOf(st)' = g
      PROVE  st \in Tracked(back)
  <2>1. st \in St /\ Mem(st) /\ ledger'[st] = ledger[st] /\ ~Superseded(st)
    BY <1>5, StAreIds DEF Answers, HistoryExists, Grows
  <2>2. st \in Tracked(old)
    BY <1>4, <1>9, <2>1 DEF Knows, SessionOf
  <2>3. PICK p \in old.services : p[1] = st
    BY <2>2 DEF Tracked
  <2>4. ledger[st].service = p[2]
    BY <1>4, <2>3 DEF Knows
  <2>5. ASSUME TrackOnlyLatest, p[2] = new.service PROVE FALSE
    <3>1. /\ Fresh(new.id) /\ ledger'[new.id] # NoTicket
          /\ ledger'[new.id].root = SessionOf(st) /\ ledger'[new.id].service = ledger[st].service
      BY <1>2, <1>5, <1>6, <1>9, <2>1, <2>4, <2>5, BornLedger DEF SessionOf, Fresh, Mem
    <3> QED
      BY <1>2, <2>1, <2>5, <3>1 DEF Superseded
  <2>6. p \in back.services
    BY <1>2, <1>3, <2>3, <2>5
  <2> QED
    BY <2>3, <2>6 DEF Tracked
<1>10. Knows(back)'
  BY <1>2, <1>3, <1>4, <1>8, <1>9 DEF Knows, Tracked
<1>11. ASSUME NEW a \in Actor, NEW k \in {thread[a].new, thread[a].back} \ {NoTicket}, Unused(a, k)
       PROVE  k.id # new.root
  BY <1>2, <1>3, <1>4, <1>11 DEF Known, Unused
<1>12. new.id \notin Tgt /\ settled' \subseteq settled
  BY <1>2, IdsAssumption
<1> QED
  BY <1>2, <1>10, <1>11, <1>12, BornKeeps

LEMMA ProxyKeeps ==
  ASSUME TypeOK, TypeOK', HardLimit', Held, Answers, NEW t \in Actor, ProxyBorn(t),
         written' = written, settled' \subseteq settled
  PROVE  Answers'
<1>1. PICK op, new : Born(t, op, new, NoTicket) /\ new.id \in Pt \cup Pgt
  BY DEF ProxyBorn
<1>2. new.id \notin St /\ new.id \notin Tgt
  BY <1>1, IdsAssumption
<1> QED
  BY <1>1, <1>2, BornKeeps

\* What a write-back adds to the history.
LEMMA PutBackWrites ==
  ASSUME TypeOK, Answers, NEW t \in Thread, TgtPutBack(t), Remember,
         NEW k \in Ticket, k = thread[t].back
  PROVE  /\ written' \subseteq written \cup Tracked(k)
         /\ settled' = settled \cup {st \in St : Settles(st)}
         /\ \A st \in St : Settles(st) =>
              /\ st \in Stored /\ st \in Tracked(k) /\ k.id \notin revoked
              /\ \A a \in Actor \ {t} : ~HasInHand(a, k.id)
<1>1. ASSUME NEW u \in Thread, WritesBack(u) PROVE u = t
  <2>1. Others(t) /\ u \in Actor
    BY DEF TgtPutBack, Releases, Actor
  <2> QED
    BY <1>1, <2>1 DEF Others, WritesBack
<1>2. written' \subseteq written \cup Tracked(k)
  BY <1>1 DEF Remember
<1>3. \A st \in settled : ~Superseded(st) /\ ~Missed(st)
  <2>1. UNCHANGED <<ledger, faults>>
    BY DEF TgtPutBack
  <2> QED
    BY <2>1 DEF Superseded, Missed, Fresh
<1>4. settled' = settled \cup {st \in St : Settles(st)}
  BY <1>3 DEF Remember
<1>5. \A st \in St : Settles(st) =>
        /\ st \in Stored /\ st \in Tracked(k) /\ k.id \notin revoked
        /\ \A a \in Actor \ {t} : ~HasInHand(a, k.id)
  BY <1>1 DEF Settles
<1> QED
  BY <1>2, <1>4, <1>5

\* Nobody else's copy lacks the tickets a write-back settles; those it writes
\* are of a session whose login is over.
LEMMA PutBackKeeps ==
  ASSUME TypeOK, TypeOK', Held, Answers, NEW t \in Thread, TgtPutBack(t), Remember
  PROVE  Answers'
<1>1. PICK k : k = thread[t].back
  OBVIOUS
<1>2. /\ t \in Actor /\ k \in Ticket /\ k # NoTicket /\ k.id \in Tgt /\ Knows(k)
      /\ k.uses > 0 \/ Unused(t, k)
  BY <1>1 DEF Actor, TgtPutBack, Answers, HandsKnow, HandsCount, Ticket
<1>3. /\ Releases(t) /\ UNCHANGED <<ledger, revoked>> /\ Grows
      /\ thread'[t].new = NoTicket /\ thread'[t].back = NoTicket
      /\ redis' = [redis EXCEPT ![k.id] = k]
  BY <1>1, SameLedgerGrows DEF TgtPutBack
<1>4. \A a \in Actor \ {t} : thread'[a] = thread[a]
  BY <1>3 DEF Releases, Others
<1>5. /\ written' \subseteq written \cup Tracked(k)
      /\ settled' = settled \cup {st \in St : Settles(st)}
      /\ \A st \in St : Settles(st) =>
           /\ st \in Stored /\ st \in Tracked(k) /\ k.id \notin revoked
           /\ \A a \in Actor \ {t} : ~HasInHand(a, k.id)
  BY <1>1, <1>2, PutBackWrites
<1>6. \A id : Mem(id)' <=> Mem(id)
  BY <1>3 DEF Mem
<1>7. \A st \in Tracked(k) : st \in St /\ Mem(st) /\ SessionOf(st) = k.id
  BY <1>2, TrackedAreSt DEF Knows, Tracked
<1>8. Tracked(k) # {} => k.uses > 0
  BY <1>2, <1>7 DEF Unused
\* A copy of this or of another session.
<1>9. ASSUME NEW c \in Ticket, Knows(c), c.id = k.id => c.uses > 0 \/ Tracked(k) = {},
             c.id = k.id => c = k \/ {st \in St : Settles(st)} = {}
      PROVE  Knows(c)'
  <2>1. \A st \in written' : SessionOf(st) = c.id => c.uses > 0
    BY <1>5, <1>7, <1>9 DEF Knows
  <2>2. \A st \in settled' : SessionOf(st) = c.id => st \in Tracked(c)
    BY <1>5, <1>7, <1>9 DEF Knows
  <2> QED
    BY <1>3, <1>6, <1>9, <2>1, <2>2 DEF Knows, SessionOf, Tracked
<1>10. Knows(k)'
  BY <1>2, <1>8, <1>9
<1>11. StoredKnow'
  <2> SUFFICES ASSUME NEW g \in Tgt, NEW c, c = redis'[g], c # NoTicket PROVE Knows(c)'
    BY DEF StoredKnow, Knows, Tracked
  <2>1. CASE g = k.id
    <3>1. c = k
      BY <1>3, <2>1, StAreIds DEF TypeOK, RegistryTypeOK
    <3> QED
      BY <1>10, <3>1
  <2>2. CASE g # k.id
    <3>1. c \in Ticket /\ c.id = g /\ Knows(c)
      BY <1>3, <2>2, CopyTypes DEF Answers, StoredKnow
    <3> QED
      BY <1>9, <2>2, <3>1
  <2> QED
    BY <2>1, <2>2
\* What another has of the same session has counted a use, or nothing is written.
<1>12. ASSUME NEW a \in Actor, a # t, NEW c \in Ticket, c.id = k.id,
              c.uses > 0 \/ Unused(a, c)
       PROVE  c.uses > 0 \/ Tracked(k) = {}
  BY <1>7, <1>12 DEF Unused
<1>13. HandsKnow'
  <2> SUFFICES ASSUME NEW a \in Actor, NEW b, NEW n, b = thread'[a].back, n = thread'[a].new
               PROVE  /\ b # NoTicket => b.id \in Tgt /\ Knows(b)'
                      /\ n # NoTicket /\ n.id \in Tgt => Knows(n)'
    BY DEF HandsKnow, Knows, Tracked
  <2>1. CASE a = t
    BY <1>3, <2>1
  <2>2. CASE a # t
    <3>1. b = thread[a].back /\ n = thread[a].new
      BY <1>4, <2>2
    <3>2. ASSUME b # NoTicket PROVE b.id \in Tgt /\ Knows(b)'
      <4>1. b \in Ticket /\ b.id \in Tgt /\ Knows(b) /\ (b.uses > 0 \/ Unused(a, b))
        BY <3>1, <3>2, CopyTypes DEF Answers, HandsKnow, HandsCount
      <4>2. b.id = k.id => {st \in St : Settles(st)} = {}
        BY <1>5, <2>2, <3>1, <3>2 DEF HasInHand
      <4> QED
        BY <1>9, <1>12, <2>2, <4>1, <4>2
    <3>3. ASSUME n # NoTicket, n.id \in Tgt PROVE Knows(n)'
      <4>1. n \in Ticket /\ Knows(n) /\ Unused(a, n)
        BY <3>1, <3>3, CopyTypes DEF Answers, HandsKnow, HandsCount
      <4>2. n.id = k.id => Tracked(k) = {}
        BY <1>7, <4>1 DEF Unused
      <4>3. n.id = k.id => {st \in St : Settles(st)} = {}
        BY <1>5, <4>2
      <4> QED
        BY <1>9, <4>1, <4>2, <4>3
    <3> QED
      BY <3>2, <3>3
  <2> QED
    BY <2>1, <2>2
<1>14. HandsCount'
  <2>1. ASSUME NEW a \in Actor, NEW c, Unused(a, c), a # t PROVE Unused(a, c)'
    BY <1>3, <1>4, <1>6, <2>1 DEF Unused, SessionOf
  <2>2. ASSUME NEW a \in Actor, NEW b, NEW n, b = thread'[a].back, n = thread'[a].new
        PROVE  /\ b # NoTicket => b.uses > 0 \/ Unused(a, b)'
               /\ n # NoTicket /\ n.id \in Tgt => Unused(a, n)'
    <3>1. CASE a = t
      BY <1>3, <2>2, <3>1
    <3>2. CASE a # t
      BY <1>4, <2>1, <2>2, <3>2 DEF Answers, HandsCount
    <3> QED
      BY <3>1, <3>2
  <2> QED
    BY <2>2 DEF HandsCount, Unused, SessionOf, Mem
<1>15. HistoryExists'
  <2>1. \A st \in written' \cup settled' : st \in St /\ Mem(st)'
    BY <1>5, <1>6, <1>7 DEF Answers, HistoryExists
  <2>2. ASSUME NEW st \in settled', NEW a \in Actor, thread'[a].new # NoTicket
        PROVE  thread'[a].new.id # st
    <3>1. a # t /\ thread'[a].new = thread[a].new
      BY <1>3, <1>4, <2>2
    <3>2. CASE st \in settled
      BY <2>2, <3>1, <3>2 DEF Answers, HistoryExists
    <3>3. CASE st \in St /\ Settles(st)
      BY <1>5, <2>2, <3>1, <3>3 DEF Held, NewIsGranted, Validable
    <3> QED
      BY <1>5, <3>2, <3>3
  <2> QED
    BY <2>1, <2>2 DEF HistoryExists
<1>16. \A st \in St : redis'[st] = redis[st]
  BY <1>2, <1>3, StAreIds, IdsAssumption DEF TypeOK, RegistryTypeOK
<1>17. ASSUME NEW a \in Actor, a # t PROVE ChildrenOf(a)'
  <2>1. PICK th : th = thread[a] /\ th = thread'[a]
    BY <1>4, <1>17
  <2>2. th.target = k.id => {st \in St : Settles(st)} = {}
    BY <1>5, <1>17, <2>1 DEF HasInHand
  <2>3. Remaining(th.target)' \subseteq Remaining(th.target)
    BY <1>3, <1>5, <1>7, <1>16, <2>2 DEF Answers, HistoryExists, Remaining, SessionOf, Stored
  <2>4. ChildrenOf(a)
    BY DEF Answers, ChildrenFirst
  <2> QED
    BY <1>6, <2>1, <2>3, <2>4 DEF ChildrenOf
<1>18. ChildrenFirst'
  <2>1. ChildrenOf(t)'
    BY <1>2, <1>3, ChildrenReleased DEF Answers, ChildrenFirst
  <2> QED
    BY <1>17, <2>1 DEF ChildrenFirst
<1>19. SessionsExist' /\ RevokedExisted'
  BY <1>3, <1>6 DEF Answers, SessionsExist, RevokedExisted
<1> QED
  BY <1>11, <1>13, <1>14, <1>15, <1>18, <1>19 DEF Answers

-----------------------------------------------------------------------------
(***************************************************************************)
(* Answers holds throughout.                                               *)
(***************************************************************************)
LEMMA AnswersInit == RememberedInit => Answers
<1> SUFFICES ASSUME RememberedInit PROVE Answers
  OBVIOUS
<1>1. /\ \A id \in TicketId : redis[id] = NoTicket /\ ledger[id] = NoTicket
      /\ \A a \in Actor : thread[a] = Waiting
      /\ revoked = {} /\ written = {} /\ settled = {}
  BY DEF RememberedInit, Init, RegistryInit
<1>2. StoredKnow /\ HandsKnow /\ HandsCount
  BY <1>1, StAreIds, WaitingFields DEF StoredKnow, HandsKnow, HandsCount
<1>3. HistoryExists /\ SessionsExist /\ RevokedExisted
  BY <1>1 DEF HistoryExists, SessionsExist, RevokedExisted, Mem
<1>4. ChildrenFirst
  BY <1>1, StAreIds, WaitingFields DEF ChildrenFirst, ChildrenOf
<1> QED
  BY <1>2, <1>3, <1>4 DEF Answers

\* A step that is not a write-back adds nothing to the history.
LEMMA HistoryKept ==
  ASSUME Remember,
         KeysDropped \/ \E a \in Actor : Kind(a) /\ ~(a \in Thread /\ TgtPutBack(a))
  PROVE  /\ written' = written
         /\ settled' = {st \in settled : ~Superseded(st) /\ ~Missed(st)}
<1>1. ASSUME KeysDropped, NEW t \in Thread PROVE ~WritesBack(t)
  BY <1>1 DEF KeysDropped, WritesBack
<1> QED
  BY <1>1, KindWrites, NothingWritten

LEMMA AnswersStep ==
  ASSUME TypeOK, TypeOK', HardLimit, HardLimit', Held, Answers,
         [RememberedNext]_<<vars, history>>
  PROVE  Answers'
<1>1. CASE UNCHANGED <<vars, history>>
  <2>1. KeysDropped /\ written' = written /\ settled' \subseteq settled
    BY <1>1 DEF vars, registryVars, casVars, history, KeysDropped, Keeps
  <2> QED
    BY <2>1, DroppedKeeps
<1>2. CASE Next /\ Remember
  <2>1. KeysDropped \/ \E a \in Actor : Kind(a)
    BY <1>2, StepKinds
  <2>2. CASE KeysDropped
    BY <1>2, <2>2, HistoryKept, DroppedKeeps
  <2>3. ASSUME NEW t \in Thread, TgtPutBack(t) PROVE Answers'
    BY <1>2, <2>3, PutBackKeeps
  <2>4. ASSUME NEW a \in Actor, Kind(a), ~(a \in Thread /\ TgtPutBack(a)) PROVE Answers'
    <3>1. /\ written' = written
          /\ settled' = {st \in settled : ~Superseded(st) /\ ~Missed(st)}
      BY <1>2, <2>4, HistoryKept
    <3>2. settled' \subseteq settled
      BY <3>1
    <3> QED
      BY <2>4, <3>1, <3>2, LoginKeeps, GrantKeeps, ProxyKeeps, ListedKeeps, ChildDoneKeeps, ReleaseKeeps
         DEF Kind
  <2> QED
    BY <2>1, <2>2, <2>3, <2>4
<1> QED
  BY <1>1, <1>2 DEF RememberedNext

LEMMA RememberedIsSpec == RememberedSpec => Spec
<1>1. RememberedInit => Init
  BY DEF RememberedInit
<1>2. [RememberedNext]_<<vars, history>> => [Next]_vars
  BY DEF RememberedNext
<1> QED
  BY <1>1, <1>2, PTL DEF RememberedSpec, Spec

LEMMA AnswersAlways == RememberedSpec => [](TypeOK /\ HardLimit /\ Held /\ Answers)
<1>1. /\ TypeOK /\ TypeOK' /\ HardLimit /\ HardLimit' /\ Held /\ Answers
      /\ [RememberedNext]_<<vars, history>>
      => Answers'
  BY AnswersStep
<1> QED
  BY <1>1, AnswersInit, RememberedIsSpec, TypeCorrect, SessionsAreLimited, TicketsAreHeldOnce,
     PTL DEF RememberedSpec

-----------------------------------------------------------------------------
\* Who ends a session read the TGT for it, and the TGT tracks every settled
\* ticket of the session.
LEMMA SignOutStep ==
  ASSUME TypeOK, Held, Answers, Next, NEW a \in Actor, NEW g \in Tgt, NEW st \in settled,
         EndsSession(a, g), SessionOf(st) = g
  PROVE  st \in notified'
<1>1. thread[a].pc \in {"idle", "scan"} /\ thread'[a].pc = "delete" /\ thread'[a].target = g
  BY DEF EndsSession
<1>2. DeleteBegun(a)
  <2>1. ~KeysDropped
    BY <1>1 DEF KeysDropped
  <2>2. PICK b \in Actor : Kind(b)
    BY <2>1, StepKinds
  <2>3. Others(b)
    BY <2>2 DEF Kind, LoginBorn, GrantBorn, ProxyBorn, Born, DeleteBegun, LetsGo, NewAdded, TgtPutBack,
       ChildrenListed, ChildDone, SelfDeleted, GoesOn, Releases
  <2>4. b = a
    BY <1>1, <2>3 DEF Others
  <2>5. ~Releases(a) /\ thread'[a].pc # "add" /\ thread[a].pc \notin {"delete", "delChildren"}
    BY <1>1 DEF Releases
  <2> QED
    BY <2>2, <2>4, <2>5 DEF Kind, LoginBorn, GrantBorn, ProxyBorn, Born, LetsGo, NewAdded, TgtPutBack,
       ChildrenListed, ChildDone, SelfDeleted
<1>3. Tracked(redis[g]) \subseteq notified' /\ redis[g] # NoTicket
  BY <1>1, <1>2 DEF DeleteBegun
<1>4. Knows(redis[g]) /\ redis[g].id = g
  BY <1>3, CopyTypes DEF Answers, StoredKnow
<1> QED
  BY <1>3, <1>4 DEF Knows

\* Whatever overlaps, fails or crashes, who ends a session has told the
\* service of every settled ticket of it: by no stale copy of the TGT that is
\* written over another does a logout forget one.
THEOREM LogoutTellsAll == RememberedSpec => SignOutIsComplete
<1>1. TypeOK /\ HardLimit /\ Held /\ Answers /\ [RememberedNext]_<<vars, history>> =>
        [\A a \in Actor, g \in Tgt, st \in settled :
           EndsSession(a, g) /\ SessionOf(st) = g => st \in notified']_<<vars, history>>
  BY SignOutStep DEF RememberedNext
<1> QED
  BY <1>1, AnswersAlways, PTL DEF RememberedSpec, SignOutIsComplete

-----------------------------------------------------------------------------
LEMMA NoSsoStep ==
  ASSUME TypeOK, Held, Answers, Next, NEW st \in St, Fresh(st), ~Fresh(st)',
         ledger'[st].service \notin SsoService, NEW other \in written
  PROVE  SessionOf(other) # ledger'[st].root
<1>1. ledger' # ledger
  BY DEF Fresh
<1>2. PICK a \in Actor : LoginBorn(a) \/ GrantBorn(a) \/ ProxyBorn(a)
  BY <1>1, StepKinds DEF KeysDropped, Kind, DeleteBegun, LetsGo, NewAdded, TgtPutBack,
     ChildrenListed, ChildDone, SelfDeleted
<1>3. ASSUME NEW op, NEW new, NEW back, Born(a, op, new, back) PROVE new.id = st /\ ledger'[st] = new
  BY <1>3, BornLedger, StAreIds DEF Fresh
<1>4. PICK g \in Tgt : \E new, back :
        /\ Born(a, "grant", new, back) /\ new.root = back.root
        /\ redis[g] # NoTicket /\ back.root = redis[g].root
        /\ new.service \notin SsoService => redis[g].uses = 0
  <2>1. ~LoginBorn(a)
    BY <1>3, IdsAssumption DEF LoginBorn
  <2>2. ~ProxyBorn(a)
    BY <1>3, IdsAssumption DEF ProxyBorn
  <2> QED
    BY <1>2, <2>1, <2>2 DEF GrantBorn
<1>5. redis[g] # NoTicket /\ redis[g].uses = 0 /\ ledger'[st].root = redis[g].root
  BY <1>3, <1>4
<1>6. Knows(redis[g])
  BY <1>5 DEF Answers, StoredKnow
<1> QED
  BY <1>5, <1>6 DEF Knows

\* However many stale copies of the TGT are written over each other, none
\* counts the session as new again: a service that may not use SSO is refused
\* once a ticket of the session has been written back.
THEOREM NoSsoIsRefused == RememberedSpec => NoSsoNeedsFreshSession
<1>1. TypeOK /\ HardLimit /\ Held /\ Answers /\ [RememberedNext]_<<vars, history>> =>
        [\A st \in St :
           Fresh(st) /\ ~Fresh(st)' /\ ledger'[st].service \notin SsoService =>
             \A other \in written : SessionOf(other) # ledger'[st].root]_<<vars, history>>
  BY NoSsoStep DEF RememberedNext
<1> QED
  BY <1>1, AnswersAlways, PTL DEF RememberedSpec, NoSsoNeedsFreshSession

-----------------------------------------------------------------------------
(***************************************************************************)
(* The session of the javadoc.                                             *)
(***************************************************************************)
LEMMA SessionInit == RememberedInit => Session!Init
<1> SUFFICES ASSUME RememberedInit PROVE Session!Init
  OBVIOUS
<1>1. liveOf = {}
  BY DEF RememberedInit, liveOf
<1>2. \A g \in Tgt : g \notin revoked /\ ~Mem(g)
  BY StAreIds DEF RememberedInit, Init, Mem
<1> QED
  BY <1>1, <1>2 DEF Session!Init, stateOf

LEMMA LiveShrinks ==
  ASSUME HistoryExists, Grows, NoneRemains
  PROVE  liveOf' \subseteq liveOf
<1>1. \A st \in settled : st \in TicketId /\ SessionOf(st)' = SessionOf(st)
  BY StAreIds DEF HistoryExists, Grows, SessionOf
<1> QED
  BY <1>1 DEF NoneRemains, liveOf, Stored

LEMMA LiveSame ==
  ASSUME HistoryExists, Grows, settled' = settled, \A st \in settled : redis'[st] = redis[st]
  PROVE  liveOf' = liveOf
<1>1. \A st \in settled : st \in TicketId /\ SessionOf(st)' = SessionOf(st)
  BY StAreIds DEF HistoryExists, Grows, SessionOf
<1> QED
  BY <1>1 DEF liveOf, Stored

LEMMA EndsIsSession ==
  ASSUME stateOf' = stateOf, liveOf' \subseteq liveOf
  PROVE  Session!Next
<1>1. Session!End(liveOf \ liveOf')
  BY DEF Session!End
<1> QED
  BY <1>1 DEF Session!Next

\* A login opens a session.
LEMMA LoginIsSession ==
  ASSUME TypeOK, Held, Answers, NEW t \in Actor, LoginBorn(t),
         settled' = {st \in settled : ~Superseded(st) /\ ~Missed(st)}
  PROVE  Session!Next
<1>1. PICK new, back : Born(t, "login", new, back) /\ new.id \in Tgt
  BY DEF LoginBorn
<1>2. PICK g \in Tgt : g = new.id
  BY <1>1
<1>3. /\ Grows /\ ~Mem(g)
      /\ \A id \in TicketId : id # g => ledger'[id] = ledger[id]
      /\ \A id \in TicketId : Mem(id)' <=> Mem(id) \/ id = g
  BY <1>1, <1>2, BornLedger
<1>4. UNCHANGED <<redis, revoked, faults>>
  BY <1>1 DEF Born
<1>5. \A st \in settled : ~Superseded(st) /\ ~Missed(st)
  BY <1>3, <1>4, StAreIds, IdsAssumption DEF Superseded, Missed, Fresh
<1>6. liveOf' = liveOf
  BY <1>3, <1>4, <1>5, LiveSame DEF Answers
<1>7. g \notin revoked
  BY <1>3 DEF Answers, RevokedExisted
<1>8. stateOf[g] = "none" /\ stateOf'[g] = "open"
  BY <1>3, <1>4, <1>7, StAreIds DEF stateOf
<1>9. \A i \in Tgt : i # g => stateOf'[i] = stateOf[i]
  BY <1>3, <1>4, StAreIds DEF stateOf
<1>10. stateOf' = [stateOf EXCEPT ![g] = "open"]
  BY <1>8, <1>9 DEF stateOf
<1>11. Session!Open(g)
  BY <1>6, <1>8, <1>10 DEF Session!Open
<1> QED
  BY <1>11 DEF Session!Next

\* Granting opens none, and adds no ticket yet.
LEMMA GrantIsSession ==
  ASSUME TypeOK, Held, Answers, NEW t \in Actor, GrantBorn(t) \/ ProxyBorn(t), settled' \subseteq settled
  PROVE  Session!Next
<1>1. PICK op, new, back : Born(t, op, new, back) /\ new.id \in St \cup Pt \cup Pgt
  BY DEF GrantBorn, ProxyBorn
<1>2. Grows /\ new.id \notin Tgt /\ UNCHANGED <<redis, revoked>>
  BY <1>1, BornLedger, IdsAssumption DEF Born
<1>3. \A g \in Tgt : Mem(g)' <=> Mem(g)
  BY <1>1, <1>2, BornLedger, StAreIds
<1>4. stateOf' = stateOf
  BY <1>2, <1>3 DEF stateOf
<1>5. liveOf' \subseteq liveOf
  BY <1>2, LiveShrinks DEF Answers, NoneRemains
<1> QED
  BY <1>4, <1>5, EndsIsSession

\* These steps delete no TGT, and add no settled ticket to Redis.
LEMMA QuietIsSession ==
  ASSUME TypeOK, Held, Answers, settled' \subseteq settled,
         KeysDropped \/ \E a \in Actor : LetsGo(a) \/ NewAdded(a) \/ DeleteBegun(a)
                                         \/ ChildrenListed(a) \/ ChildDone(a)
  PROVE  Session!Next
<1>1. UNCHANGED ledger /\ Grows
  BY SameLedgerGrows
     DEF KeysDropped, LetsGo, NewAdded, DeleteBegun, ChildrenListed, ChildDone
<1>2. NoneRemains
  <2>1. CASE KeysDropped
    BY <2>1, StAreIds DEF NoneRemains, KeysDropped, Keeps, Answers, HistoryExists
  <2>2. ASSUME NEW a \in Actor, NewAdded(a) PROVE NoneRemains
    <3>1. thread[a].new # NoTicket
      BY <2>2 DEF NewAdded
    <3>2. \A st \in settled : st \in TicketId /\ thread[a].new.id # st
      BY <3>1, StAreIds DEF Answers, HistoryExists
    <3> QED
      BY <2>2, <3>2 DEF NoneRemains, NewAdded, TypeOK, RegistryTypeOK
  <2>3. ASSUME NEW a \in Actor, LetsGo(a) \/ DeleteBegun(a) \/ ChildrenListed(a) PROVE NoneRemains
    BY <2>3 DEF NoneRemains, LetsGo, DeleteBegun, ChildrenListed
  <2>4. ASSUME NEW a \in Actor, ChildDone(a) PROVE NoneRemains
    BY <2>4, StAreIds DEF NoneRemains, ChildDone, Answers, HistoryExists, TypeOK, RegistryTypeOK
  <2> QED
    BY <2>1, <2>2, <2>3, <2>4
<1>3. \A g \in Tgt : g \in revoked' <=> g \in revoked
  <2>1. ASSUME NEW a \in Actor, ChildDone(a) PROVE \A g \in Tgt : g \in revoked' <=> g \in revoked
    <3>1. thread[a].todo \subseteq St
      BY DEF Answers, ChildrenFirst, ChildrenOf
    <3> QED
      BY <2>1, <3>1, IdsAssumption DEF ChildDone
  <2> QED
    BY <2>1 DEF KeysDropped, LetsGo, NewAdded, DeleteBegun, ChildrenListed
<1>4. stateOf' = stateOf
  BY <1>1, <1>3 DEF stateOf, Mem
<1>5. liveOf' \subseteq liveOf
  BY <1>1, <1>2, LiveShrinks DEF Answers
<1> QED
  BY <1>4, <1>5, EndsIsSession

\* Deleting a TGT the first time closes its session: no settled ticket of it
\* is in Redis any more.
LEMMA SelfDeletedIsSession ==
  ASSUME TypeOK, Held, Answers, NEW a \in Actor, SelfDeleted(a),
         settled' = {st \in settled : ~Superseded(st) /\ ~Missed(st)}
  PROVE  Session!Next
<1>1. PICK g : g = thread[a].target
  OBVIOUS
<1>2. /\ redis' = [redis EXCEPT ![g] = NoTicket] /\ revoked' = revoked \cup {g}
      /\ UNCHANGED <<ledger, faults>> /\ Grows
  BY <1>1, SameLedgerGrows DEF SelfDeleted
<1>3. settled' = settled
  BY <1>2 DEF Superseded, Missed, Fresh
<1>4. CASE g \notin Tgt \/ g \in revoked
  <2>1. stateOf' = stateOf
    BY <1>2, <1>4 DEF stateOf, Mem
  <2>2. NoneRemains
    BY <1>2, <1>3, StAreIds DEF NoneRemains, TypeOK, RegistryTypeOK, Answers, HistoryExists
  <2> QED
    BY <1>2, <2>1, <2>2, LiveShrinks, EndsIsSession DEF Answers
<1>5. CASE g \in Tgt /\ g \notin revoked
  <2>1. Mem(g) /\ Remaining(g) = {}
    BY <1>1, <1>5 DEF Answers, ChildrenFirst, ChildrenOf, SelfDeleted
  <2>2. stateOf[g] = "open" /\ stateOf' = [stateOf EXCEPT ![g] = "closed"]
    <3>1. stateOf[g] = "open" /\ stateOf'[g] = "closed"
      BY <1>2, <1>5, <2>1 DEF stateOf
    <3>2. \A i \in Tgt : i # g => stateOf'[i] = stateOf[i]
      BY <1>2 DEF stateOf, Mem
    <3> QED
      BY <1>5, <3>1, <3>2 DEF stateOf
  <2>3. \A p \in liveOf : p[2] # g
    BY <2>1 DEF liveOf, Remaining
  <2>4. \A st \in settled : redis'[st] = redis[st]
    BY <1>2, <1>5, StAreIds, IdsAssumption DEF Answers, HistoryExists, TypeOK, RegistryTypeOK
  <2>5. liveOf' = liveOf
    BY <1>2, <1>3, <2>4, LiveSame DEF Answers
  <2>6. Session!Close(g)
    BY <2>2, <2>3, <2>5 DEF Session!Close
  <2> QED
    BY <1>5, <2>6 DEF Session!Next
<1> QED
  BY <1>4, <1>5

\* A write-back makes the tickets it settles join their session, which is open.
LEMMA PutBackIsSession ==
  ASSUME TypeOK, Held, Answers, NEW t \in Thread, TgtPutBack(t), Remember
  PROVE  Session!Next
<1>1. PICK k : k = thread[t].back
  OBVIOUS
<1>2. k \in Ticket /\ k # NoTicket /\ k.id \in Tgt /\ Knows(k)
  BY <1>1 DEF Actor, TgtPutBack, Answers, HandsKnow, Ticket
<1>3. /\ redis' = [redis EXCEPT ![k.id] = k] /\ UNCHANGED <<ledger, revoked>>
  BY <1>1 DEF TgtPutBack
<1>4. stateOf' = stateOf
  BY <1>3 DEF stateOf, Mem
<1>5. PICK ids : ids = {st \in St : Settles(st)}
  OBVIOUS
<1>6. /\ settled' = settled \cup ids
      /\ \A st \in ids : /\ st \in St /\ st \in Stored /\ st \in Tracked(k) /\ k.id \notin revoked
  BY <1>1, <1>2, <1>5, PutBackWrites
<1>7. \A st \in ids : Mem(st) /\ SessionOf(st) = k.id
  BY <1>2, <1>6 DEF Knows, Tracked
<1>8. \A st \in settled \cup ids : redis'[st] = redis[st] /\ SessionOf(st)' = SessionOf(st) /\ st \in TicketId
  BY <1>2, <1>3, <1>6, StAreIds, IdsAssumption
     DEF Answers, HistoryExists, TypeOK, RegistryTypeOK, SessionOf
<1>9. liveOf' = liveOf \cup {<<st, k.id>> : st \in ids}
  <2>1. \A st \in settled \cup ids : st \in Stored' <=> st \in Stored
    BY <1>8 DEF Stored
  <2>2. (settled \cup ids) \cap Stored' = (settled \cap Stored) \cup ids
    BY <1>6, <2>1
  <2> QED
    BY <1>6, <1>7, <1>8, <2>2 DEF liveOf
<1>10. CASE ids = {}
  <2>1. liveOf' = liveOf
    BY <1>9, <1>10
  <2> QED
    BY <1>4, <2>1, EndsIsSession
<1>11. CASE ids # {}
  <2>1. PICK st \in ids : TRUE
    BY <1>11
  <2>2. k.id \notin revoked /\ Mem(SessionOf(st))
    BY <1>6, <1>7, <2>1, StAreIds DEF Answers, SessionsExist, SessionOf
  <2>3. stateOf[k.id] = "open"
    BY <1>2, <1>7, <2>1, <2>2 DEF stateOf
  <2>4. Session!Join(k.id, ids)
    BY <1>4, <1>9, <2>3 DEF Session!Join
  <2> QED
    BY <1>2, <1>5, <2>4 DEF Session!Next
<1> QED
  BY <1>10, <1>11

LEMMA SessionStep ==
  ASSUME TypeOK, Held, Answers, [RememberedNext]_<<vars, history>>
  PROVE  [Session!Next]_(Session!sessionVars)
<1>1. CASE UNCHANGED <<vars, history>>
  <2>1. stateOf' = stateOf /\ liveOf' = liveOf
    BY <1>1 DEF vars, registryVars, casVars, history, stateOf, liveOf, Stored, SessionOf, Mem
  <2> QED
    BY <2>1 DEF Session!sessionVars
<1>2. CASE Next /\ Remember
  <2>1. KeysDropped \/ \E a \in Actor : Kind(a)
    BY <1>2, StepKinds
  <2>2. ASSUME NEW t \in Thread, TgtPutBack(t) PROVE Session!Next
    BY <1>2, <2>2, PutBackIsSession
  <2>3. CASE KeysDropped \/ \E a \in Actor : Kind(a) /\ ~(a \in Thread /\ TgtPutBack(a))
    <3>1. /\ settled' = {st \in settled : ~Superseded(st) /\ ~Missed(st)}
          /\ settled' \subseteq settled
      BY <1>2, <2>3, HistoryKept
    <3> QED
      BY <2>3, <3>1, LoginIsSession, GrantIsSession, QuietIsSession, SelfDeletedIsSession DEF Kind
  <2> QED
    BY <2>1, <2>2, <2>3
<1> QED
  BY <1>1, <1>2 DEF RememberedNext

\* With its settled tickets, the service implements the sessions of
\* destroyTicketGrantingTicket's javadoc: one is closed once and for good, and
\* only when no settled ticket of it is live, whatever overlaps, fails or
\* crashes, and under proxying and TrackOnlyLatest too.
THEOREM SessionsCloseAfterTheirTickets == RememberedSpec => SessionsCloseLast
BY SessionInit, SessionStep, AnswersAlways, PTL
   DEF RememberedSpec, SessionsCloseLast, Session!Spec
=============================================================================
