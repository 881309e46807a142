----------------------------- MODULE PageScripts ----------------------------
(***************************************************************************)
(* The script of a page over lists of its own, Deferreds, requests and the *)
(* ready event, and what it may rely on.                                   *)
(***************************************************************************)
EXTENDS DocumentReady

CONSTANTS
  OwnList,        \* the list the page makes for itself
  ListOptions,    \* the options it is made with
  FirstMade       \* Deferreds a script about Deferreds starts with

ASSUME ScriptsAssumption ==
  /\ ListOptions \subseteq Options /\ FirstMade \subseteq PageDef
  /\ ListId = {OwnList} \union (DefId \X Action) \union (ReqId \X {"complete"})
  /\ OwnList \notin (DefId \X Action) \union (ReqId \X {"complete"})

vars == <<ajaxVars, readyVars>>

NoRequest == NewRequest([global |-> FALSE, timeout |-> FALSE, via |-> "none", hooks |-> {}])

Init ==
  /\ calls \in Scripts
  /\ own = IF calls["deferred"] > 0 THEN FirstMade ELSE {}
  /\ \E o \in ListOptions :
       cb = [l \in {l \in {OwnList} : calls["list"] > 0} \union (own \X Action) |->
               IF l = OwnList THEN New(o) ELSE NewList(l[1], l[2])]
  /\ run = <<>> /\ threw = FALSE
  /\ state = [d \in DefId |-> IF d \in own THEN "pending" ELSE "none"]
  /\ master = <<>> /\ due = [l \in own \X Settling |-> <<>>]
  /\ req = [q \in ReqId |-> NoRequest] /\ active = 0
  /\ ReadyInit

ListStep ==
  /\ ReturnFalse \/ Return \/ NextInLoop \/ EndLoop \/ Throw \/ ListCalls(OwnList)
  /\ UNCHANGED <<state, own, master, due, req, active, readyVars>>

DeferredStep == (DeferredSteps \/ DeferredCalls) /\ UNCHANGED <<req, active, readyVars>>

AjaxStep == (AjaxSteps \/ AjaxCalls \/ \E q \in ReqId : Answer(q) \/ Timeout(q)) /\ UNCHANGED readyVars

Next == ListStep \/ DeferredStep \/ AjaxStep \/ ReadySteps \/ ReadyCalls \/ Load \/ Timer

Spec == Init /\ [][Next]_vars

-----------------------------------------------------------------------------
(***************************************************************************)
(* What holds.                                                             *)
(***************************************************************************)

Quiet == run = <<>> /\ ~threw

FireFrames(l) == {i \in DOMAIN run : run[i].f = "fire" /\ run[i].l = l}

(***************************************************************************)
(* A list is firing while exactly one loop of its is on the stack: neither *)
(* a callback that fires its own list nor one that adds to it starts a     *)
(* second loop over the same indexes.  (After a callback threw, the list   *)
(* says it is firing for ever.)                                            *)
(***************************************************************************)
OneLoopPerList ==
  ~threw => \A l \in DOMAIN cb : Cardinality(FireFrames(l)) = IF cb[l].firing THEN 1 ELSE 0

(***************************************************************************)
(* Whatever callbacks add and remove while the page's list is firing, the  *)
(* loop ends, unless a callback stopped it, with nobody on the list who    *)
(* was not called: the indexes are moved along with the list.              *)
(***************************************************************************)
NobodySkipped ==
  [][(EndLoop /\ Top.l = OwnList /\ Top.pc = "next" /\ Enabled(cb[OwnList]) /\ ~cb[OwnList].emptied)
       => ToSet(cb[OwnList].list) \subseteq cb[OwnList].told]_vars

(***************************************************************************)
(* A Deferred, of the page, of then, of when, of a request or of ready,    *)
(* implements Promise.                                                     *)
(***************************************************************************)
OutcomeOf(d) ==
  LET Fired(a) == Made(d) /\ cb[<<d, a>>].fired
  IN  IF Fired("done") THEN [how |-> "resolved", with |-> cb[<<d, "done">>].memory]
      ELSE IF Fired("fail") THEN [how |-> "rejected", with |-> cb[<<d, "fail">>].memory]
      ELSE [how |-> "pending", with |-> <<>>]

TellingOf ==
  {[of |-> run[i].l[1], how |-> StateOf(run[i].l[2]), with |-> run[i].v] :
     i \in {j \in DOMAIN run : run[j].f = "fn" /\ run[j].l \in DefId \X Settling}}

P == INSTANCE Promise WITH Def <- DefId, outcome <- [d \in DefId |-> OutcomeOf(d)], telling <- TellingOf
PromiseSpec == P!Spec

(***************************************************************************)
(* When no script runs, jQuery.active counts the requests with global      *)
(* events that were sent and are not done, so that ajaxStop comes with the *)
(* last of them; and a request that is done waits for nothing.  (Not once  *)
(* a request is sent although it was done before, as one is whose abort    *)
(* comes in ajaxStart or ajaxSend, nor after a callback threw.)            *)
(***************************************************************************)
DoneOnce == \A q \in ReqId : req[q].dones = IF req[q].state = 2 THEN 1 ELSE 0

ActiveInFlight ==
  (Quiet /\ DoneOnce) =>
    /\ active = Cardinality({q \in ReqId : req[q].globals /\ req[q].state = 1})
    /\ \A q \in ReqId : req[q].state = 2 => ~req[q].timer /\ ~req[q].wire

(***************************************************************************)
(* A callback of complete is called only when those of success or error,   *)
(* whichever the request came to, have been, unless one of these is under  *)
(* way: given after the request was over it is called at once, and so is a *)
(* callback of complete it gives, ahead of others of its own list.         *)
(***************************************************************************)
CompleteIsLast ==
  [][\A q \in ReqId :
       (CallPage /\ Top.l = <<q, "complete">>)
         => \E a \in Settling :
              state[q] = StateOf(a) /\ (due[<<q, a>>] = <<>> \/ FireFrames(<<q, a>>) # {})]_vars

(***************************************************************************)
(* As long as every release follows a hold, ready has come once the        *)
(* document is there and nobody holds it any more.                         *)
(***************************************************************************)
ReadyComes ==
  (Quiet /\ Made(ReadyList) /\ dom = "complete" /\ later = 0 /\ held = 0 /\ ~early)
    => state[ReadyList] = "resolved"
=============================================================================
