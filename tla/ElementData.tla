----------------------------- MODULE ElementData ----------------------------
(***************************************************************************)
(* jQuery.cache: what the library keeps about elements of a page.          *)
(*                                                                         *)
(* An element holds no more than a number, its expando; the entry of that  *)
(* number in the cache holds the element's data and its event handlers.    *)
(* Entries come and go with what is in them, and the numbers of those that *)
(* went are given out again.  Everything here is a function from one store *)
(* to the next: no call in this module calls the page.                     *)
(***************************************************************************)
EXTENDS Integers, SequencesExt, FiniteSets

CONSTANTS
  Elem,      \* elements of a page
  Key,       \* names of data
  EventType  \* types of events

\* An entry: the public data, the handlers of each type (delegates of them in
\* front), and whether the element has its one listener function.
NoHandlers == [list |-> <<>>, delegateCount |-> 0]

NewEntry == [data |-> {}, events |-> [t \in EventType |-> NoHandlers], handle |-> FALSE]

\* native: <<elem, type>> the browser calls the element's listener for.
\* attaches: how many elements want focusin, which one listener of the document
\* simulates.
NewStore ==
  [cache |-> <<>>, expando |-> [e \in Elem |-> 0], deletedIds |-> <<>>, guid |-> 1,
   native |-> {}, attaches |-> 0]

HasEntry(s, e) == s.expando[e] \in DOMAIN s.cache
Entry(s, e) == s.cache[s.expando[e]]
Handlers(s, e, t) == IF HasEntry(s, e) THEN Entry(s, e).events[t] ELSE NoHandlers

HasEvents(c) == \E t \in EventType : c.events[t].list # <<>>

\* isEmptyDataObject; the listener function goes with the last handler.
IsEmptyDataObject(c) == c.data = {} /\ ~HasEvents(c)

\* deletedIds.pop() || guid++.
NewId(s) ==
  IF s.deletedIds = <<>> THEN [id |-> s.guid, deletedIds |-> <<>>, guid |-> s.guid + 1]
  ELSE [id |-> Last(s.deletedIds), deletedIds |-> Front(s.deletedIds), guid |-> s.guid]

\* internalData for an element that is about to get something.
WithEntry(s, e) ==
  IF HasEntry(s, e) THEN s
  ELSE LET n == NewId(s)
       IN [s EXCEPT !.expando[e] = n.id, !.deletedIds = n.deletedIds, !.guid = n.guid,
                    !.cache = [i \in DOMAIN @ \union {n.id} |-> IF i = n.id THEN NewEntry ELSE @[i]]]

OnEntry(s, e, c) == [s EXCEPT !.cache[s.expando[e]] = c]

\* data( elem, key, value ).
WithData(s, e, k) ==
  LET w == WithEntry(s, e) IN OnEntry(w, e, [Entry(w, e) EXCEPT !.data = @ \union {k}])

\* The tail of cleanData: the entry goes, its number can be given out.
WithoutEntry(s, e, id) ==
  [s EXCEPT !.expando[e] = 0, !.deletedIds = Append(@, id),
            !.cache = [i \in DOMAIN @ \ {id} |-> @[i]]]

\* Mutation of Shrunk: what is left empty stays.
ShrunkNever(s, e) == s

\* What internalRemoveData does once it has removed something.
Shrunk(s, e) == IF IsEmptyDataObject(Entry(s, e)) THEN WithoutEntry(s, e, s.expando[e]) ELSE s

\* removeData( elem, key ): an element that has no such data is left alone,
\* unless it has no data at all.
WithoutData(s, e, k) ==
  IF ~HasEntry(s, e) THEN s
  ELSE Shrunk(OnEntry(s, e, [Entry(s, e) EXCEPT !.data = @ \ {k}]), e)

-----------------------------------------------------------------------------
(***************************************************************************)
(* Handlers.  A handler is [fn, sel, ns, one]: the function, whose guid    *)
(* tells it from others, the element its selector matches or Nothing, its  *)
(* namespace or "", and whether it was bound with one().                   *)
(***************************************************************************)
CONSTANT Nothing

\* Types with a setup and a teardown of their own instead of a listener, and
\* all the types with something special about them.
HasSetup(t) == t = "focusin"
IsSpecial(t) == t \in {"click", "focusin"}

\* The first handler of a type, the last one gone.
SetUp(s, e, t) ==
  IF HasSetup(t) THEN [s EXCEPT !.attaches = @ + 1]
  ELSE [s EXCEPT !.native = @ \union {<<e, t>>}]

TornDown(s, e, t) ==
  IF HasSetup(t) THEN [s EXCEPT !.attaches = @ - 1]
  ELSE [s EXCEPT !.native = @ \ {<<e, t>>}]

\* event.add, delegates in front.
WithHandler(s, e, t, h) ==
  LET w   == WithEntry(s, e)
      hs  == Entry(w, e).events[t]
      n   == hs.delegateCount
      new == IF h.sel = Nothing THEN [hs EXCEPT !.list = Append(@, h)]
             ELSE [list |-> InsertAt(hs.list, n + 1, h), delegateCount |-> n + 1]
  IN  OnEntry(IF hs.list = <<>> THEN SetUp(w, e, t) ELSE w, e,
              [Entry(w, e) EXCEPT !.events[t] = new, !.handle = TRUE])

\* Whether a handler is one that is to be removed; fn, sel and ns may be left open.
Matches(h, fn, sel, ns) ==
  /\ fn # Nothing => h.fn = fn
  /\ sel # Nothing => h.sel = sel
  /\ ns # "" => h.ns = ns

\* What event.remove leaves of the handlers of a type.
HandlersLeft(hs, fn, sel, ns) ==
  LET left[n \in 0..Len(hs.list)] ==
        IF n = 0 THEN [hs EXCEPT !.list = <<>>]
        ELSE LET h == hs.list[n]
             IN  IF ~Matches(h, fn, sel, ns) THEN [left[n - 1] EXCEPT !.list = Append(@, h)]
                 ELSE IF h.sel # Nothing THEN [left[n - 1] EXCEPT !.delegateCount = @ - 1]
                 ELSE left[n - 1]
  IN  left[Len(hs.list)]

\* event.remove.
WithoutHandlers(s, e, t, fn, sel, ns) ==
  LET hs   == Handlers(s, e, t)
      left == HandlersLeft(hs, fn, sel, ns)
      c    == [Entry(s, e) EXCEPT !.events[t] = IF left.list = <<>> THEN NoHandlers ELSE left]
      w    == IF hs.list # <<>> /\ left.list = <<>> THEN TornDown(s, e, t) ELSE s
  IN  IF ~HasEntry(s, e) THEN s
      ELSE IF HasEvents(c) THEN OnEntry(w, e, c)
      ELSE Shrunk(OnEntry(w, e, [c EXCEPT !.handle = FALSE]), e)

\* Mutation of CleanedType: the listener goes, whatever set it up.
CleanedTypePlain(s, e, t) == [s EXCEPT !.native = @ \ {<<e, t>>}]

\* cleanData, of the handlers of one type: the special ones by way of
\* event.remove, which may take the entry with it.
CleanedType(s, e, t) ==
  IF IsSpecial(t) THEN WithoutHandlers(s, e, t, Nothing, Nothing, "")
  ELSE [s EXCEPT !.native = @ \ {<<e, t>>}]

\* cleanData, of the entry an element had, unless event.remove took it already.
CleanedEntry(s, e, id) == IF id \in DOMAIN s.cache THEN WithoutEntry(s, e, id) ELSE s
=============================================================================
