---------------------------- MODULE DocumentReady ---------------------------
(***************************************************************************)
(* jQuery.ready: when the functions given to $(document).ready are called. *)
(*                                                                         *)
(* The counter readyWait starts at one for the document itself and goes up *)
(* with every hold; whoever takes it to zero resolves a Deferred.  Nothing *)
(* ties a release to a hold.                                               *)
(***************************************************************************)
EXTENDS AjaxRequests

CONSTANT ReadyList      \* the Deferred under ready

\* What its list of done holds: the Deferred's own and functions of the page.
ReadyCallbacks == ToSet(FirstCallbacks(ReadyList, "done")) \union {OfPage(fn) : fn \in Fn}

ASSUME ReadyAssumption ==
  ReadyList \in DefId \ (ReqId \union PageDef) /\ Nothing \notin Seq(ReadyCallbacks)

VARIABLES
  dom,          \* how far the document is loaded
  isReady,
  readyWait,
  listening,    \* completed is attached to DOMContentLoaded and load
  later,        \* calls of jQuery.ready that wait in timers
  bound,        \* a handler is bound to the event "ready"
  held,         \* ghost: holds not released yet
  early         \* ghost: a release came without a hold

readyVars == <<dom, isReady, readyWait, listening, later, bound, held, early>>
restOfAjax == <<own, master, req, active>>

Stages == <<"head", "body", "interactive", "complete">>

ReadyInit ==
  /\ dom = "head" /\ isReady = FALSE /\ readyWait = 1
  /\ listening = FALSE /\ later = 0 /\ bound \in BOOLEAN
  /\ held = 0 /\ early = FALSE

EventCall == [op |-> "ready"]
OffCall == [op |-> "off"]

\* The Deferred, then the event.
Resolve(rest) ==
  IF Made(ReadyList)
  THEN /\ run' = rest \o Todo(<<FireCall(<<ReadyList, "done">>, "ready"), EventCall>>)
       /\ UNCHANGED threw
  ELSE run' = <<>> /\ threw' = TRUE      \* readyList is undefined

\* Whether somebody else still has to take the counter down.
Waiting(n) == n > 0

\* Mutation of ReadyReleased: a document that is ready is left alone.
ReadyReleasedOnce(rest) ==
  /\ readyWait' = readyWait - 1
  /\ \/ /\ readyWait # 1 \/ isReady
        /\ run' = rest /\ UNCHANGED <<isReady, later, threw>>
     \/ /\ readyWait = 1 /\ ~isReady /\ dom = "head"
        /\ later' = later + 1 /\ run' = rest /\ UNCHANGED <<isReady, threw>>
     \/ /\ readyWait = 1 /\ ~isReady /\ dom # "head"
        /\ isReady' = TRUE /\ Resolve(rest) /\ UNCHANGED later

\* ready( true ), from a release.
ReadyReleased(rest) ==
  /\ readyWait' = readyWait - 1
  /\ \/ /\ readyWait # 1
        /\ run' = rest /\ UNCHANGED <<isReady, later, threw>>
     \/ /\ readyWait = 1 /\ dom = "head"
        /\ later' = later + 1 /\ run' = rest /\ UNCHANGED <<isReady, threw>>
     \/ /\ readyWait = 1 /\ dom # "head"
        /\ isReady' = TRUE /\ Resolve(rest) /\ UNCHANGED later

\* ready(), from the document or a timer.
ReadyNow ==
  \/ isReady /\ UNCHANGED <<isReady, readyWait, run, threw>>
  \/ /\ ~isReady
     /\ isReady' = TRUE /\ readyWait' = readyWait - 1
     /\ IF Waiting(readyWait') THEN UNCHANGED <<run, threw>> ELSE Resolve(run)

\* Trigger "ready", then unbind what was bound to it.
DoReadyEvent ==
  /\ CallIs("ready")
  /\ run' = AfterCall \o Todo(<<OffCall>>) \o (IF bound THEN Handler("onready") ELSE <<>>)
  /\ UNCHANGED <<cb, calls, threw, state, due, restOfAjax, readyVars>>

DoOff ==
  /\ CallIs("off")
  /\ run' = AfterCall /\ bound' = FALSE
  /\ UNCHANGED <<cb, calls, threw, state, due, restOfAjax, dom, isReady, readyWait, listening,
                 later, held, early>>

-----------------------------------------------------------------------------
(***************************************************************************)
(* Calls of the page.                                                      *)
(***************************************************************************)

\* $(document).ready( fn ): the first one looks at the document.
AskReady(fn) ==
  /\ Spend("ready")
  /\ run' = run \o Todo(<<AddCall(<<ReadyList, "done">>, OfPage(fn))>>)
  /\ \/ Made(ReadyList) /\ UNCHANGED <<cb, state, due, listening, later>>
     \/ /\ WithNew(ReadyList)
        /\ IF dom = "complete" THEN later' = later + 1 /\ UNCHANGED listening
           ELSE listening' = TRUE /\ UNCHANGED later
  /\ UNCHANGED <<restOfAjax, dom, isReady, readyWait, bound, held, early>>

\* holdReady( true ).
Hold ==
  /\ Spend("ready")
  /\ readyWait' = readyWait + 1 /\ held' = held + 1
  /\ UNCHANGED <<cb, run, state, due, restOfAjax, dom, isReady, listening, later, bound, early>>

\* holdReady( false ).
Release ==
  /\ PageRuns /\ calls["ready"] > 0 /\ calls' = [calls EXCEPT !["ready"] = @ - 1]
  /\ ReadyReleased(run)
  /\ held' = held - 1 /\ early' = (early \/ held = 0)
  /\ UNCHANGED <<cb, state, due, restOfAjax, dom, listening, bound>>

ReadyCalls == (\E fn \in Fn : AskReady(fn)) \/ Hold \/ Release

-----------------------------------------------------------------------------
(***************************************************************************)
(* Between two scripts.                                                    *)
(***************************************************************************)

\* The document gets further; of the two events the first is heard.
Load ==
  /\ run = <<>> /\ dom # "complete"
  /\ Made(ReadyList) \/ calls["ready"] > 0
  /\ dom' = Stages[1 + CHOOSE i \in 1..3 : Stages[i] = dom]
  /\ IF listening /\ dom' \in {"interactive", "complete"}
     THEN listening' = FALSE /\ ReadyNow
     ELSE UNCHANGED <<listening, isReady, readyWait, run, threw>>
  /\ UNCHANGED <<cb, calls, state, due, restOfAjax, later, bound, held, early>>

\* A timer of jQuery.ready; without a body it sets another.
Timer ==
  /\ run = <<>> /\ later > 0 /\ dom # "head"
  /\ later' = later - 1
  /\ ReadyNow
  /\ UNCHANGED <<cb, calls, state, due, restOfAjax, dom, listening, bound, held, early>>

ReadySteps == DoReadyEvent \/ DoOff
=============================================================================
