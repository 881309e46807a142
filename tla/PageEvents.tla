----------------------------- MODULE PageEvents -----------------------------
(***************************************************************************)
(* jQuery.event: handlers of a page, and events of the user and of the     *)
(* page's own script on their way up the document.                         *)
(*                                                                         *)
(* An event meets the handlers an element has when the event gets there,   *)
(* and calls them one by one; each may bind, unbind, remove elements, stop *)
(* the event or trigger others, so that events nest.  A triggered event is *)
(* walked by the library itself, which then calls the native method of the *)
(* element, and hides the browser's own event from the handlers; what the  *)
(* browser does next (a button submits its form) is an event again.        *)
(***************************************************************************)
EXTENDS ElementData

CONSTANTS
  Document,
  Parent,       \* of each element in the document
  Methods,      \* <<elem, type>> with a native method of that name
  Causes,       \* <<elem, type>> :> what the browser does after that event
  CheckBoxes,   \* elements whose click is always left to the browser
  Bindings,     \* what the page may bind: [elem, type, h]
  MaxCalls,     \* bound: calls of the page's script
  MaxEvents     \* bound: events of the user

ASSUME EventsAssumption ==
  /\ Parent \in [Elem -> Elem \union {Document}]
  /\ IsFiniteSet(Elem) /\ CheckBoxes \subseteq Elem /\ "focusin" \in EventType
  /\ Methods \subseteq Elem \X EventType /\ DOMAIN Causes \subseteq Elem \X EventType
  /\ \A cause \in DOMAIN Causes : Causes[cause] \in Elem \X EventType
  /\ \A b \in Bindings : b.elem \in Elem /\ b.type \in EventType
  /\ MaxCalls \in Nat /\ MaxEvents \in Nat

VARIABLES
  store,       \* the cache
  parent,      \* the document as it is now
  triggered,   \* jQuery.event.triggered
  run,         \* the call stack
  budget,      \* [calls, events] left
  gone         \* ghost: bindings of one() that have been called

vars == <<store, parent, triggered, run, budget, gone>>

\* From an element up.
PathFrom(e) ==
  LET f[n \in 0..Cardinality(Elem)] ==
        [x \in Elem |-> IF n = 0 \/ parent[x] \notin Elem THEN <<x>> ELSE <<x>> \o f[n - 1][parent[x]]]
  IN  f[Cardinality(Elem)][e]

InDocument(e) == parent[Last(PathFrom(e))] = Document

-----------------------------------------------------------------------------
(***************************************************************************)
(* The call stack.                                                         *)
(***************************************************************************)

\* by: "script" for trigger, "user" for the browser; only: triggerHandler.
EventFrame(by, e, t, only) ==
  [f |-> "event", by |-> by, elem |-> e, type |-> t, only |-> only,
   path |-> IF only THEN <<e>> ELSE PathFrom(e),
   stopped |-> FALSE, immediate |-> FALSE, prevented |-> FALSE, pc |-> "walk"]

\* groups: what is left of handlerQueue, [elem, handlers].
DispatchFrame(at, groups) == [f |-> "dispatch", at |-> at, groups |-> groups]
HandlerFrame(h) == [f |-> "fn", h |-> h]

\* cleanData of an element and all under it: those left, and of the one at turn
\* its number and the types left.
Under(e) == {x \in Elem : Contains(PathFrom(x), e)}
CleanFrame(e) ==
  [f |-> "clean", root |-> e, left |-> Under(e), pc |-> "element", at |-> e, id |-> 0, types |-> {}]

Top == run[Len(run)]
Below == Front(run)
TopIs(f) == run # <<>> /\ Top.f = f
WithTop(x) == Append(Below, x)
PageRuns == run # <<>> => Top.f = "fn"

\* The event a dispatch is about.
TheEvent == run[Len(run) - 1]

\* event.handlers: for each element from the target up to below this one, the
\* delegates that match it; then this one's own.
HandlerQueue(s, e, t, target) ==
  LET hs == Handlers(s, e, t)
      Delegates(x) == SelectSeq(SubSeq(hs.list, 1, hs.delegateCount), LAMBDA h : h.sel = x)
      way == PathFrom(target)
      below == SelectSeq(way, LAMBDA x : e \notin {way[i] : i \in 1..(CHOOSE i \in DOMAIN way : way[i] = x)}
                                           /\ Delegates(x) # <<>>)
      own == SubSeq(hs.list, hs.delegateCount + 1, Len(hs.list))
  IN  [i \in DOMAIN below |-> [elem |-> below[i], handlers |-> Delegates(below[i])]]
        \o (IF own = <<>> THEN <<>> ELSE <<[elem |-> e, handlers |-> own]>>)

\* The listener function drops what the browser sends for a triggered event.
Hidden(t) == triggered = t

\* The event gets to the next element, where the listener function is called if
\* the element has handlers (trigger) or a listener (the browser).
Reach ==
  /\ TopIs("event") /\ Top.pc = "walk" /\ Top.path # <<>> /\ ~Top.stopped
  /\ LET e == Head(Top.path)
         moved == [Top EXCEPT !.path = Tail(@)]
         called == IF Top.by = "script" THEN Handlers(store, e, Top.type).list # <<>>
                   ELSE <<e, Top.type>> \in store.native
     IN run' = WithTop(moved)
                 \o (IF called /\ ~Hidden(Top.type)
                     THEN <<DispatchFrame(e, HandlerQueue(store, e, Top.type, Top.elem))>> ELSE <<>>)
  /\ UNCHANGED <<store, parent, triggered, budget, gone>>

\* Between groups: stopPropagation ends the dispatch; within one, only
\* stopImmediatePropagation does.
NextGroup ==
  /\ TopIs("dispatch") /\ Top.groups # <<>>
  /\ Head(Top.groups).handlers = <<>> \/ TheEvent.immediate
  /\ run' = IF TheEvent.stopped THEN Below ELSE WithTop([Top EXCEPT !.groups = Tail(@)])
  /\ UNCHANGED <<store, parent, triggered, budget, gone>>

\* Mutation of Spent: a handler of one() is unbound when it returns.
SpentLate(at, t, h) == UNCHANGED store

\* The wrapper of one() unbinds what it wraps before it calls it: every
\* handler of that function, selector and namespace.
Spent(at, t, h) ==
  IF h.one THEN store' = WithoutHandlers(store, at, t, h.fn, h.sel, h.ns) ELSE UNCHANGED store

CallHandler ==
  /\ TopIs("dispatch") /\ Top.groups # <<>> /\ ~TheEvent.immediate
  /\ LET group == Head(Top.groups)
         h == Head(group.handlers)
         left == <<[group EXCEPT !.handlers = Tail(@)]>> \o Tail(Top.groups)
     IN /\ group.handlers # <<>>
        /\ run' = WithTop([Top EXCEPT !.groups = left]) \o <<HandlerFrame(h)>>
        /\ Spent(Top.at, TheEvent.type, h)
        /\ gone' = IF h.one THEN gone \union {[elem |-> Top.at, type |-> TheEvent.type, h |-> h]}
                   ELSE gone
  /\ UNCHANGED <<parent, triggered, budget>>

EndDispatch ==
  /\ TopIs("dispatch") /\ Top.groups = <<>>
  /\ run' = Below
  /\ UNCHANGED <<store, parent, triggered, budget, gone>>

\* A handler returns, having perhaps stopped or prevented the event; false does
\* both.
Marked(event, stops, immediate, prevents) ==
  [event EXCEPT !.stopped = @ \/ stops, !.immediate = @ \/ immediate, !.prevented = @ \/ prevents]

Return ==
  /\ TopIs("fn")
  /\ \E stops, immediate, prevents \in BOOLEAN :
       /\ immediate => stops
       /\ run' = [Below EXCEPT ![Len(run) - 2] = Marked(@, stops, immediate, prevents)]
  /\ UNCHANGED <<store, parent, triggered, budget, gone>>

\* A handler throws: through triggers and their dispatches, up to the browser,
\* which goes on with its event.
Throw ==
  /\ TopIs("fn")
  /\ LET users == {i \in DOMAIN run : run[i].f = "event" /\ run[i].by = "user"}
     IN run' = IF users = {} THEN <<>> ELSE SubSeq(run, 1, CHOOSE i \in users : \A j \in users : j <= i)
  /\ UNCHANGED <<store, parent, triggered, budget, gone>>

-----------------------------------------------------------------------------
(***************************************************************************)
(* After the walk.                                                         *)
(***************************************************************************)

Walked == TopIs("event") /\ Top.pc = "walk" /\ (Top.path # <<>> => Top.stopped)

\* trigger: the native method, unless prevented; its event is hidden.
Default ==
  /\ Walked /\ Top.by = "script"
  /\ IF ~Top.only /\ ~Top.prevented /\ <<Top.elem, Top.type>> \in Methods
     THEN /\ triggered' = Top.type
          /\ run' = WithTop([Top EXCEPT !.pc = "called"])
                      \o <<EventFrame("user", Top.elem, Top.type, FALSE)>>
     ELSE run' = Below /\ UNCHANGED triggered
  /\ UNCHANGED <<store, parent, budget, gone>>

\* Mutation of Lifted: the event is hidden until the next trigger.
LiftedNever == triggered

Lifted == ""

Defaulted ==
  /\ TopIs("event") /\ Top.pc = "called"
  /\ triggered' = Lifted
  /\ run' = Below
  /\ UNCHANGED <<store, parent, budget, gone>>

\* The browser's own default is an event of its own.
BrowserDefault ==
  /\ Walked /\ Top.by = "user"
  /\ LET next == <<Top.elem, Top.type>>
     IN run' = IF next \in DOMAIN Causes /\ ~Top.prevented /\ InDocument(Top.elem)
               THEN WithTop(EventFrame("user", Causes[next][1], Causes[next][2], FALSE)) ELSE Below
  /\ UNCHANGED <<store, parent, triggered, budget, gone>>

-----------------------------------------------------------------------------
(***************************************************************************)
(* remove(): the elements are cleaned, and the first of them leaves the    *)
(* document.  No script of the page runs before it is over.                *)
(***************************************************************************)

\* In the order of the document, so that none comes before one it is in.
CleanElement ==
  /\ TopIs("clean") /\ Top.pc = "element"
  /\ \E e \in Top.left :
       /\ \A x \in Top.left : x # e => ~Contains(PathFrom(e), x)
       /\ LET rest == [Top EXCEPT !.left = @ \ {e}]
              types == {t \in EventType : Handlers(store, e, t).list # <<>>}
          IN run' = WithTop(IF ~HasEntry(store, e) THEN rest
                            ELSE [rest EXCEPT !.pc = "types", !.at = e, !.id = store.expando[e],
                                              !.types = types])
  /\ UNCHANGED <<store, parent, triggered, budget, gone>>

\* The types come in the order they were bound in.
CleanType ==
  /\ TopIs("clean") /\ Top.pc = "types"
  /\ \E t \in Top.types :
       /\ store' = CleanedType(store, Top.at, t)
       /\ run' = WithTop([Top EXCEPT !.types = @ \ {t}])
  /\ UNCHANGED <<parent, triggered, budget, gone>>

CleanEntry ==
  /\ TopIs("clean") /\ Top.pc = "types" /\ Top.types = {}
  /\ store' = CleanedEntry(store, Top.at, Top.id)
  /\ run' = WithTop([Top EXCEPT !.pc = "element"])
  /\ UNCHANGED <<parent, triggered, budget, gone>>

EndClean ==
  /\ TopIs("clean") /\ Top.pc = "element" /\ Top.left = {}
  /\ parent' = [parent EXCEPT ![Top.root] = Nothing]
  /\ run' = Below
  /\ UNCHANGED <<store, triggered, budget, gone>>

-----------------------------------------------------------------------------
(***************************************************************************)
(* The page's script and its user.                                         *)
(***************************************************************************)

Spend == PageRuns /\ budget.calls > 0 /\ budget' = [budget EXCEPT !.calls = @ - 1]

DoBind(b) ==
  /\ Spend /\ store' = WithHandler(store, b.elem, b.type, b.h)
  /\ gone' = gone \ {[elem |-> b.elem, type |-> b.type, h |-> b.h]}
  /\ UNCHANGED <<parent, triggered, run>>

DoUnbind(b, all) ==
  /\ Spend
  /\ store' = IF all THEN WithoutHandlers(store, b.elem, b.type, Nothing, Nothing, b.h.ns)
              ELSE WithoutHandlers(store, b.elem, b.type, b.h.fn, b.h.sel, "")
  /\ UNCHANGED <<parent, triggered, run, gone>>

DoSetData(e, k) ==
  /\ Spend /\ store' = WithData(store, e, k)
  /\ UNCHANGED <<parent, triggered, run, gone>>

DoRemoveData(e, k) ==
  /\ Spend /\ store' = WithoutData(store, e, k)
  /\ UNCHANGED <<parent, triggered, run, gone>>

DoRemove(e) ==
  /\ Spend /\ run' = run \o <<CleanFrame(e)>>
  /\ UNCHANGED <<store, parent, triggered, gone>>

\* trigger and triggerHandler; a check box is clicked by the browser.
DoTrigger(e, t, only) ==
  /\ Spend
  /\ run' = run \o <<EventFrame(IF t = "click" /\ e \in CheckBoxes /\ ~only THEN "user" ELSE "script",
                                e, t, only)>>
  /\ UNCHANGED <<store, parent, triggered, gone>>

\* An event of the user; focus reaches focusin by the one listener.
UserEvent(e, t) ==
  /\ run = <<>> /\ budget.events > 0 /\ InDocument(e)
  /\ budget' = [budget EXCEPT !.events = @ - 1]
  /\ IF HasSetup(t)
     THEN store.attaches > 0 /\ run' = <<EventFrame("script", e, t, FALSE)>>
     ELSE run' = <<EventFrame("user", e, t, FALSE)>>
  /\ UNCHANGED <<store, parent, triggered, gone>>

Init ==
  /\ store = NewStore
  /\ parent = Parent /\ triggered = "" /\ run = <<>> /\ gone = {}
  /\ budget = [calls |-> MaxCalls, events |-> MaxEvents]

Next ==
  \/ Reach \/ NextGroup \/ CallHandler \/ EndDispatch \/ Return \/ Throw
  \/ Default \/ Defaulted \/ BrowserDefault
  \/ CleanElement \/ CleanType \/ CleanEntry \/ EndClean
  \/ \E e \in Elem : \/ DoRemove(e)
                     \/ \E k \in Key : DoRemoveData(e, k) \/ DoSetData(e, k)
                     \/ \E t \in EventType : \/ UserEvent(e, t)
                                             \/ \E only \in BOOLEAN : DoTrigger(e, t, only)
  \/ \E b \in Bindings : DoBind(b) \/ \E all \in BOOLEAN : DoUnbind(b, all)

Spec == Init /\ [][Next]_vars

-----------------------------------------------------------------------------
(***************************************************************************)
(* However an element lost its handlers and its data (unbound, spent,      *)
(* removed, from inside a handler or not), nothing is kept about it.       *)
(***************************************************************************)
NothingLeft == \A i \in DOMAIN store.cache : ~IsEmptyDataObject(store.cache[i])

(***************************************************************************)
(* Whenever a script runs or an event comes, the browser calls an          *)
(* element's listener for exactly the types it has handlers of, focusin is *)
(* simulated for as many elements as want it, and delegates are in front.  *)
(***************************************************************************)
ListenersMatch ==
  LET Has(e, t) == Handlers(store, e, t).list # <<>>
  IN  ~TopIs("clean") =>
        /\ store.native = {p \in Elem \X EventType : ~HasSetup(p[2]) /\ Has(p[1], p[2])}
        /\ store.attaches = Cardinality({e \in Elem : Has(e, "focusin")})
        /\ \A i \in DOMAIN store.cache :
             /\ store.cache[i].handle <=> HasEvents(store.cache[i])
             /\ \A t \in EventType : LET hs == store.cache[i].events[t]
                                     IN \A j \in DOMAIN hs.list :
                                          hs.list[j].sel # Nothing <=> j <= hs.delegateCount

(***************************************************************************)
(* An event that the page triggered is never hidden for longer than its    *)
(* native method runs, whatever was triggered or thrown meanwhile.         *)
(***************************************************************************)
HidingEnds == run = <<>> => triggered = ""

(***************************************************************************)
(* Once a handler of one() has been called, no event that sets out later   *)
(* finds it, unless it was bound again.  (An event under way may.)         *)
(***************************************************************************)
OneIsGone ==
  \A e \in Elem, t \in EventType :
    \A j \in DOMAIN Handlers(store, e, t).list :
      [elem |-> e, type |-> t, h |-> Handlers(store, e, t).list[j]] \notin gone
=============================================================================
