---------------------------- MODULE AjaxRequests ----------------------------
(***************************************************************************)
(* jQuery.ajax: requests of a login page, each a Deferred, a list of       *)
(* complete callbacks and a transport.                                     *)
(*                                                                         *)
(* Everything between two waits is one script, but it calls the page at    *)
(* every turn (prefilters, beforeSend, global events, callbacks), and the  *)
(* page may abort the very request or start another.  The answer, the      *)
(* timer and the page's own abort race for the end of a request; whatever  *)
(* comes first is told, and the rest must be silent.                       *)
(***************************************************************************)
EXTENDS Deferreds

CONSTANTS
  ReqId,       \* requests, each a Deferred
  Settings,    \* what the page asks of a request
  Handled      \* global events the page has a handler of

\* via: the transport that takes the request, if one does.
SettingsType ==
  [global : BOOLEAN, timeout : BOOLEAN, via : {"xhr", "sync", "script", "none"},
   hooks : SUBSET {"prefilter", "beforeSend"}]

ASSUME AjaxAssumption == ReqId \subseteq DefId /\ Settings \subseteq SettingsType

VARIABLES
  req,       \* the closure of each call of ajax
  active     \* jQuery.active

ajaxVars == <<defVars, req, active>>

Statuses == {"success", "error", "abort", "timeout"}

\* state: 0, 1 sent, 2 done.  globals: fireGlobals.  transport: whether one is
\* held.  wire: the transport's callback waits for an answer.  known: the page
\* has the jqXHR.  onStatus: what is to be called for the status.  dones: how often done
\* ran its course.
NewRequest(s) ==
  [asked |-> s, state |-> 0, globals |-> FALSE, transport |-> FALSE, timer |-> FALSE,
   wire |-> FALSE, known |-> "prefilter" \in s.hooks, onStatus |-> <<>>, dones |-> 0]

-----------------------------------------------------------------------------
(***************************************************************************)
(* done( status, ... ).                                                    *)
(***************************************************************************)

\* A handler of the page, called by the library.
Handler(fn) == <<FnFrame(fn, Nothing, Nothing, Nothing)>>
Triggered(e) == IF e \in Handled THEN Handler(e) ELSE <<>>

RequestCall(op, q) == [op |-> op, q |-> q]
TriggerCall(e) == [op |-> "trigger", e |-> e]

\* Mutation of DoneCalls: complete first.
DoneCallsBackwards(q, r, status) ==
  LET a == IF status = "success" THEN "done" ELSE "fail"
      Global(e) == IF r.globals THEN <<TriggerCall(e)>> ELSE <<>>
  IN  <<FireCall(<<q, "complete">>, status), FireCall(<<q, a>>, status)>>
        \o r.onStatus
        \o Global(IF a = "done" THEN "ajaxSuccess" ELSE "ajaxError")
        \o Global("ajaxComplete")
        \o <<RequestCall("inactive", q)>>

\* Mutation of DoneCalls: only a success takes the request out of the count.
DoneCallsUncounted(q, r, status) ==
  LET a == IF status = "success" THEN "done" ELSE "fail"
      Global(e) == IF r.globals THEN <<TriggerCall(e)>> ELSE <<>>
  IN  <<FireCall(<<q, a>>, status)>>
        \o r.onStatus
        \o Global(IF a = "done" THEN "ajaxSuccess" ELSE "ajaxError")
        \o <<FireCall(<<q, "complete">>, status)>>
        \o Global("ajaxComplete")
        \o (IF a = "done" THEN <<RequestCall("inactive", q)>> ELSE <<>>)

\* What done does once the state is 2, in order.
DoneCalls(q, r, status) ==
  LET a == IF status = "success" THEN "done" ELSE "fail"
      Global(e) == IF r.globals THEN <<TriggerCall(e)>> ELSE <<>>
  IN  <<FireCall(<<q, a>>, status)>>
        \o r.onStatus
        \o Global(IF a = "done" THEN "ajaxSuccess" ELSE "ajaxError")
        \o <<FireCall(<<q, "complete">>, status)>>
        \o Global("ajaxComplete")
        \o <<RequestCall("inactive", q)>>

IsDone(r) == r.state = 2

\* done is called for q, whose closure is r so far.
Done(q, r, status, rest) ==
  IF IsDone(r) THEN req' = [req EXCEPT ![q] = r] /\ run' = rest
  ELSE /\ req' = [req EXCEPT ![q] = [r EXCEPT !.state = 2, !.timer = FALSE,
                    !.transport = FALSE, !.onStatus = <<>>, !.dones = @ + 1]]
       /\ run' = rest \o Todo(DoneCalls(q, r, status))

\* abort( statusText ): the transport's callback is dropped, if it has one.
Abort(q, status, rest) ==
  LET r == req[q]
  IN  Done(q, IF r.transport THEN [r EXCEPT !.wire = FALSE] ELSE r, status, rest)

\* --jQuery.active, and ajaxStop after the last.
DoInactive ==
  /\ CallIs("inactive")
  /\ IF req[Call.q].globals
     THEN /\ active' = active - 1
          /\ run' = AfterCall \o (IF active = 1 THEN Triggered("ajaxStop") ELSE <<>>)
     ELSE run' = AfterCall /\ UNCHANGED active
  /\ UNCHANGED <<cb, calls, threw, state, own, master, due, req>>

DoTrigger ==
  /\ CallIs("trigger")
  /\ run' = AfterCall \o Triggered(Call.e)
  /\ UNCHANGED <<cb, calls, threw, state, own, master, due, req, active>>

-----------------------------------------------------------------------------
(***************************************************************************)
(* ajax( s ), as far as it goes between two calls of the page.             *)
(***************************************************************************)

\* The lists of a new request.
RequestLists(q) ==
  [l \in {q} \X (Action \union {"complete"}) |->
     IF l[2] = "complete" THEN New(OnceMemory) ELSE NewList(q, l[2])]

Ajax(q, s) ==
  /\ Spend("request") /\ ~Made(q)
  /\ cb' = Joined(cb, RequestLists(q))
  /\ state' = [state EXCEPT ![q] = "pending"]
  /\ due' = Joined(due, [l \in {q} \X {"done", "fail", "complete"} |-> <<>>])
  /\ req' = [req EXCEPT ![q] = NewRequest(s)]
  /\ run' = run \o Todo(<<RequestCall("globals", q)>>)
              \o (IF "prefilter" \in s.hooks THEN Handler("prefilter") ELSE <<>>)
  /\ UNCHANGED <<own, master, active>>

\* After the prefilters: count the request, unless it is done already.
DoGlobals ==
  /\ CallIs("globals")
  /\ LET q == Call.q
         r == req[q]
     IN \/ /\ IsDone(r)
           /\ run' = AfterCall /\ UNCHANGED <<req, active>>
        \/ /\ ~IsDone(r)
           /\ req' = [req EXCEPT ![q].globals = r.asked.global]
           /\ active' = IF r.asked.global THEN active + 1 ELSE active
           /\ run' = AfterCall \o Todo(<<RequestCall("beforeSend", q)>>)
                       \o (IF r.asked.global /\ active = 0 THEN Triggered("ajaxStart") ELSE <<>>)
  /\ UNCHANGED <<cb, calls, threw, state, own, master, due>>

DoBeforeSend ==
  /\ CallIs("beforeSend")
  /\ req' = [req EXCEPT ![Call.q].known = TRUE]
  /\ run' = AfterCall \o Todo(<<RequestCall("install", Call.q)>>)
              \o (IF "beforeSend" \in req[Call.q].asked.hooks THEN Handler("beforeSend") ELSE <<>>)
  /\ UNCHANGED <<cb, calls, threw, state, own, master, due, active>>

\* success, error and complete of the settings, then the transport.
InstallCalls(q) ==
  <<AddCall(<<q, "done">>, OfPage("success")), AddCall(<<q, "fail">>, OfPage("error")),
    AddCall(<<q, "complete">>, OfPage("complete")), RequestCall("transport", q)>>

\* If there is a beforeSend, it may have returned false or aborted the request.
DoInstall ==
  /\ CallIs("install")
  /\ LET q == Call.q
         hooked == "beforeSend" \in req[q].asked.hooks
     IN \/ hooked /\ Abort(q, "abort", AfterCall)
        \/ /\ ~(hooked /\ IsDone(req[q]))
           /\ run' = AfterCall \o Todo(InstallCalls(q)) /\ UNCHANGED req
  /\ UNCHANGED <<cb, calls, threw, state, own, master, due, active>>

DoTransport ==
  /\ CallIs("transport")
  /\ LET q == Call.q
         r == req[q]
     IN IF r.asked.via = "none" THEN Done(q, r, "error", AfterCall)
        ELSE /\ req' = [req EXCEPT ![q].transport = TRUE]
             /\ run' = AfterCall \o Todo(<<RequestCall("send", q)>>)
                         \o (IF r.globals THEN Triggered("ajaxSend") ELSE <<>>)
  /\ UNCHANGED <<cb, calls, threw, state, own, master, due, active>>

\* The timer is set and the request sent, whatever a handler of ajaxSend did to
\* it: without a transport send is a call on undefined, which ends in done.  The
\* transport may throw, which does too.
DoSend ==
  /\ CallIs("send")
  /\ LET q == Call.q
         r == [req[q] EXCEPT !.state = 1, !.timer = req[q].asked.timeout /\ req[q].asked.via # "sync"]
     IN IF ~r.transport THEN Done(q, r, "error", AfterCall)
        ELSE \/ /\ r.asked.via # "script"
                /\ Done(q, r, "error", AfterCall)
             \/ /\ r.asked.via = "sync"
                /\ \E status \in {"success", "error"} : Done(q, r, status, AfterCall)
             \/ /\ r.asked.via # "sync"
                /\ req' = [req EXCEPT ![q] = [r EXCEPT !.wire = TRUE]]
                /\ run' = AfterCall
  /\ UNCHANGED <<cb, calls, threw, state, own, master, due, active>>

AjaxSteps ==
  DoInactive \/ DoTrigger \/ DoGlobals \/ DoBeforeSend \/ DoInstall \/ DoTransport \/ DoSend

-----------------------------------------------------------------------------
(***************************************************************************)
(* Between two scripts: the answer and the timer.                          *)
(***************************************************************************)

\* The transport's callback, once; a script's load is a success, whose data
\* may still fail to convert.
Answer(q) ==
  /\ run = <<>> /\ req[q].wire
  /\ \E status \in {"success", "error"} :
       Done(q, [req[q] EXCEPT !.wire = FALSE], status, run)
  /\ UNCHANGED <<cb, calls, threw, state, own, master, due, active>>

Timeout(q) ==
  /\ run = <<>> /\ req[q].timer
  /\ Abort(q, "timeout", run)
  /\ UNCHANGED <<cb, calls, threw, state, own, master, due, active>>

-----------------------------------------------------------------------------
(***************************************************************************)
(* Calls of the page.                                                      *)
(***************************************************************************)

\* jqXHR.abort().
AbortRequest(q) ==
  /\ Spend("request") /\ req[q].known
  /\ Abort(q, "abort", run)
  /\ UNCHANGED <<cb, state, own, master, due, active>>

\* jqXHR.statusCode( a map that names the status ).
StatusCode(q, fn) ==
  /\ Spend("request") /\ req[q].known
  /\ IF IsDone(req[q])
     THEN run' = run \o Todo(AlwaysCalls(q, fn)) /\ UNCHANGED req
     ELSE req' = [req EXCEPT ![q].onStatus = @ \o AlwaysCalls(q, fn)] /\ UNCHANGED run
  /\ UNCHANGED <<cb, state, own, master, due, active>>

\* jqXHR.done, fail and complete.
ListenTo(q, a, fn) ==
  /\ Spend("request") /\ req[q].known
  /\ run' = run \o Todo(<<AddCall(<<q, a>>, OfPage(fn))>>)
  /\ UNCHANGED <<cb, state, own, master, due, req, active>>

AjaxCalls ==
  \E q \in ReqId :
    \/ \E s \in Settings : Ajax(q, s)
    \/ AbortRequest(q)
    \/ \E fn \in Fn : StatusCode(q, fn)
    \/ \E fn \in Fn, a \in {"done", "fail", "complete"} : ListenTo(q, a, fn)
=============================================================================
