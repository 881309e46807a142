------------------------------ MODULE Callbacks -----------------------------
(***************************************************************************)
(* jQuery.Callbacks: the callback lists under every ready handler,         *)
(* Deferred and request of the login pages.                                *)
(*                                                                         *)
(* A page runs one script at a time, but not one call at a time: a         *)
(* callback may add to, fire, empty or disable the very list that is       *)
(* calling it.  `run' is the call stack, one action one step of its top    *)
(* frame; the indexes of a firing list belong to the list, not to the      *)
(* frame, as in the code.  A callback that throws unwinds the whole stack  *)
(* and leaves every list as it is.                                         *)
(***************************************************************************)
EXTENDS Integers, SequencesExt, FiniteSets

CONSTANTS
  ListId,      \* the lists of the page
  Fn,          \* functions of the page
  Value,       \* what a list is fired with
  Nothing,     \* undefined, or false
  Scripts      \* bound: for a page's script, how many calls of each kind it makes

Kinds == {"list", "deferred", "request", "ready"}

ASSUME CallbacksAssumption == Nothing \notin Value \union ListId /\ Scripts \subseteq [Kinds -> Nat]

VARIABLES
  cb,       \* the lists
  run,      \* the call stack
  calls,    \* calls of each kind the page may still make
  threw     \* whether a callback has thrown

cbVars == <<cb, run, calls, threw>>

\* options, the variables of the closure; `list' and `stack' may be undefined.
\* Ghosts: told, the callbacks of the page this fire has called or passed over
\* from the start; emptied, whether it was emptied under way.
New(options) ==
  [options |-> options, list |-> <<>>, stack |-> IF options.once THEN Nothing ELSE <<>>,
   memory |-> Nothing, fired |-> FALSE, firing |-> FALSE,
   firingStart |-> 0, firingIndex |-> 0, firingLength |-> 0,
   told |-> {}, emptied |-> FALSE]

Options == [once : BOOLEAN, memory : BOOLEAN, unique : BOOLEAN, stopOnFalse : BOOLEAN]

OnceMemory == [once |-> TRUE, memory |-> TRUE, unique |-> FALSE, stopOnFalse |-> FALSE]
Memory == [OnceMemory EXCEPT !.once = FALSE]

Enabled(o) == o.list # Nothing

-----------------------------------------------------------------------------
(***************************************************************************)
(* What the operations do to a list.                                       *)
(***************************************************************************)

\* The prologue of fire( data ).
BeginFire(o, v) ==
  [o EXCEPT !.memory = IF o.options.memory THEN v ELSE Nothing, !.fired = TRUE,
            !.firingIndex = o.firingStart, !.firingStart = 0,
            !.firingLength = Len(o.list), !.firing = TRUE, !.emptied = FALSE,
            !.told = ToSet(SubSeq(o.list, 1, o.firingStart))]

Push(o, c) ==
  IF o.options.unique /\ Contains(o.list, c) THEN o
  ELSE [o EXCEPT !.list = Append(@, c)]

\* add begins a fire of its own if the list remembers one.
Refires(o) == Enabled(o) /\ ~o.firing /\ o.memory # Nothing

\* add( c ).
Added(o, c) ==
  LET p == Push(o, c)
  IN  IF ~Enabled(o) THEN o
      ELSE IF o.firing THEN [p EXCEPT !.firingLength = Len(p.list)]
      ELSE IF Refires(o) THEN BeginFire([p EXCEPT !.firingStart = Len(o.list)], o.memory)
      ELSE p

\* The callbacks but c, which may be there more than once.
Without(s, c) ==
  LET kept[n \in 0..Len(s)] ==
        IF n = 0 THEN <<>> ELSE IF s[n] = c THEN kept[n - 1] ELSE Append(kept[n - 1], s[n])
  IN  kept[Len(s)]

\* Mutation of GoneUpTo: the index stays if the callback removed is the one running.
GoneBefore(o, c, n) == Cardinality({i \in DOMAIN o.list : o.list[i] = c /\ i - 1 < n})

\* How many of those remove takes out, from left to right, are at index n or
\* before: each takes an index of a firing list down by one.
GoneUpTo(o, c, n) == Cardinality({i \in DOMAIN o.list : o.list[i] = c /\ i - 1 <= n})

\* remove( c ).
Removed(o, c) ==
  IF ~Enabled(o) THEN o
  ELSE [o EXCEPT !.list = Without(@, c),
                 !.firingLength = IF o.firing THEN @ - GoneUpTo(o, c, @) ELSE @,
                 !.firingIndex = IF o.firing THEN @ - GoneUpTo(o, c, @) ELSE @]

Emptied(o) == [o EXCEPT !.list = <<>>, !.firingLength = 0, !.emptied = TRUE]

Disabled(o) == [o EXCEPT !.list = Nothing, !.stack = Nothing, !.memory = Nothing]

Locked(o) ==
  LET p == [o EXCEPT !.stack = Nothing] IN IF o.memory = Nothing THEN Disabled(p) ELSE p

\* fireWith: what a disabled list, or one that was fired and is locked or once,
\* ignores.
Fires(o) == Enabled(o) /\ (~o.fired \/ o.stack # Nothing)

\* Mutation of Waits: a list that is firing is fired in the middle.
WaitsNever(o) == FALSE

\* A list that is firing is fired again later.
Waits(o) == o.firing

FiredWith(o, v) ==
  IF ~Fires(o) THEN o
  ELSE IF Waits(o) THEN [o EXCEPT !.stack = Append(@, v)]
  ELSE BeginFire(o, v)

\* After the loop of fire: the next of the fires that came meanwhile, or the
\* end of a list that is fired once.
LoopOver(o) ==
  LET p == [o EXCEPT !.firing = FALSE]
  IN  IF ~Enabled(o) THEN p
      ELSE IF o.stack # Nothing
           THEN IF o.stack = <<>> THEN p
                ELSE BeginFire([p EXCEPT !.stack = Tail(@)], Head(o.stack))
      ELSE IF o.memory # Nothing THEN [p EXCEPT !.list = <<>>]
      ELSE Disabled(p)

-----------------------------------------------------------------------------
(***************************************************************************)
(* The call stack.  `rest' is the stack a call returns to.                 *)
(***************************************************************************)

FireFrame(l, v) == [f |-> "fire", l |-> l, v |-> v, pc |-> "next"]

\* to: the list that is fired with what the function returns, or Nothing.
FnFrame(fn, l, v, to) == [f |-> "fn", fn |-> fn, l |-> l, v |-> v, to |-> to]

Top == run[Len(run)]
Below == Front(run)
TopIs(f) == run # <<>> /\ Top.f = f
Goto(pc) == [run EXCEPT ![Len(run)].pc = pc]

\* The page's script runs: between events, or inside a callback.
PageRuns == run # <<>> => Top.f = "fn"

AddThen(l, c, rest) ==
  /\ cb' = [cb EXCEPT ![l] = Added(@, c)]
  /\ run' = IF Refires(cb[l]) THEN Append(rest, FireFrame(l, cb[l].memory)) ELSE rest

FireThen(l, v, rest) ==
  /\ cb' = [cb EXCEPT ![l] = FiredWith(@, v)]
  /\ run' = IF Fires(cb[l]) /\ ~Waits(cb[l]) THEN Append(rest, FireFrame(l, v)) ELSE rest

\* firingIndex < firingLength, with a list.
InLoop(o) == Enabled(o) /\ o.firingIndex < o.firingLength

Callback == LET o == cb[Top.l] IN o.list[o.firingIndex + 1]

\* The loop is about to call a callback of kind k.
Calling(k) == TopIs("fire") /\ Top.pc = "next" /\ InLoop(cb[Top.l]) /\ Callback.k = k

OfPage(fn) == [k |-> "fn", fn |-> fn]

CallFn ==
  /\ Calling("fn")
  /\ run' = Append(Goto("calling"), FnFrame(Callback.fn, Top.l, Top.v, Nothing))
  /\ cb' = [cb EXCEPT ![Top.l].told = @ \union {Callback}]
  /\ UNCHANGED <<calls, threw>>

\* A callback returns false, and that stops the loop ...
ReturnFalse ==
  /\ TopIs("fn") /\ Top.to = Nothing /\ Top.l \in ListId
  /\ cb[Top.l].options.stopOnFalse
  /\ cb' = [cb EXCEPT ![Top.l].memory = Nothing]
  /\ run' = [Below EXCEPT ![Len(Below)].pc = "stop"]
  /\ UNCHANGED <<calls, threw>>

\* ... or whatever it returns is of no use.
Return ==
  /\ TopIs("fn") /\ Top.to = Nothing
  /\ run' = Below
  /\ UNCHANGED <<cb, calls, threw>>

\* firingIndex++, once the call and all it started have returned.
NextInLoop ==
  /\ TopIs("fire") /\ Top.pc = "calling"
  /\ cb' = [cb EXCEPT ![Top.l].firingIndex = @ + 1]
  /\ run' = Goto("next")
  /\ UNCHANGED <<calls, threw>>

EndLoop ==
  /\ TopIs("fire")
  /\ \/ Top.pc = "stop"
     \/ Top.pc = "next" /\ ~InLoop(cb[Top.l])
  /\ cb' = [cb EXCEPT ![Top.l] = LoopOver(@)]
  /\ run' = IF LoopOver(cb[Top.l]).firing
            THEN Append(Below, FireFrame(Top.l, Head(cb[Top.l].stack))) ELSE Below
  /\ UNCHANGED <<calls, threw>>

\* Bound: the page's script makes no more calls; timers and answers go on.
Throw ==
  /\ TopIs("fn")
  /\ run' = <<>> /\ threw' = TRUE
  /\ calls' = [k \in Kinds |-> 0]
  /\ UNCHANGED cb

LoopSteps == CallFn \/ ReturnFalse \/ Return \/ NextInLoop \/ EndLoop

-----------------------------------------------------------------------------
(***************************************************************************)
(* Calls of the page on a list of its own.                                 *)
(***************************************************************************)

Spend(kind) ==
  /\ PageRuns /\ calls[kind] > 0
  /\ calls' = [calls EXCEPT ![kind] = @ - 1]
  /\ UNCHANGED threw

Add(l, fn) == Spend("list") /\ AddThen(l, OfPage(fn), run)
Fire(l, v) == Spend("list") /\ FireThen(l, v, run)

Change(l, o) == Spend("list") /\ cb' = [cb EXCEPT ![l] = o] /\ UNCHANGED run

RemoveFn(l, fn) == Change(l, Removed(cb[l], OfPage(fn)))
Empty(l) == Change(l, Emptied(cb[l]))
Disable(l) == Change(l, Disabled(cb[l]))
Lock(l) == Change(l, Locked(cb[l]))

ListCalls(l) ==
  \/ \E fn \in Fn : Add(l, fn) \/ RemoveFn(l, fn)
  \/ \E v \in Value : Fire(l, v)
  \/ Empty(l) \/ Disable(l) \/ Lock(l)
=============================================================================
