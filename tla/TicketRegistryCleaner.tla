------------------------ MODULE TicketRegistryCleaner -----------------------
(***************************************************************************)
(* The whole ticket service of the cluster: the request threads of         *)
(* CentralAuthentication and the TicketRegistryCleaner jobs that run       *)
(* beside them, one per node, on the same Redis.                           *)
(***************************************************************************)
EXTENDS CentralAuthentication

\* Mutation of StartScan: the pattern matches the keys of TGTs only.
StartScanTgtsOnly(c) ==
  /\ thread[c] = Waiting
  /\ Stored \cap Tgt # {}
  /\ thread' = [thread EXCEPT ![c] =
       [Waiting EXCEPT !.op = "clean", !.pc = "scan", !.scan = Stored \cap Tgt]]
  /\ UNCHANGED <<registryVars, ledger, accepts, revoked, notified>>

\* execute / doInRedisScan: SCAN.  Every key that is there from the first to
\* the last step of the scan is visited; later ones wait for the next run.
StartScan(c) ==
  /\ thread[c] = Waiting
  /\ Stored # {}
  /\ thread' = [thread EXCEPT ![c] =
       [Waiting EXCEPT !.op = "clean", !.pc = "scan", !.scan = Stored]]
  /\ UNCHANGED <<registryVars, ledger, accepts, revoked, notified>>

\* Mutation of VisitKey: an expired TGT is logged out and not deleted.
VisitKeyKeepsTgt(c) ==
  /\ thread[c].pc = "scan"
  /\ \E id \in thread[c].scan :
       LET expired == redis[id] # NoTicket /\ IsExpired(redis[id], now)
       IN /\ IF expired /\ id \notin Granting
             THEN BeginDelete(c, "clean", id)
             ELSE thread' = [thread EXCEPT ![c] =
                    IF thread[c].scan = {id} THEN Waiting
                    ELSE [thread[c] EXCEPT !.scan = thread[c].scan \ {id}]]
          /\ IF expired /\ id \in Granting THEN PerformLogout(redis[id])
                                           ELSE UNCHANGED notified
  /\ UNCHANGED <<registryVars, ledger, accepts, revoked>>

\* The next key: GET, and the cleaner's callback on what it returns.
VisitKey(c) ==
  /\ thread[c].pc = "scan"
  /\ \E id \in thread[c].scan :
       IF redis[id] # NoTicket /\ IsExpired(redis[id], now)
       THEN /\ BeginDelete(c, "clean", id)
            /\ IF id \in Granting THEN PerformLogout(redis[id])
                                  ELSE UNCHANGED notified
       ELSE /\ thread' = [thread EXCEPT ![c] =
                 IF thread[c].scan = {id} THEN Waiting
                 ELSE [thread[c] EXCEPT !.scan = thread[c].scan \ {id}]]
            /\ UNCHANGED notified
  /\ UNCHANGED <<registryVars, ledger, accepts, revoked>>

CleanerSteps(c) == StartScan(c) \/ VisitKey(c) \/ DeleteSteps(c)

Next ==
  \/ \E t \in Thread : Request(t) \/ ThreadSteps(t)
  \/ \E c \in Cleaner : CleanerSteps(c)
  \/ \E a \in Actor : Crash(a)
  \/ Tick /\ UNCHANGED casVars

Spec == Init /\ [][Next]_vars

\* A thread that has begun a request goes on with it; Quartz repeats the
\* cleaner forever (repeatForever) and a started scan goes on.
FairSpec ==
  /\ Spec
  /\ \A t \in Thread : WF_vars(ThreadSteps(t))
  /\ \A c \in Cleaner : WF_vars(CleanerSteps(c))
=============================================================================
