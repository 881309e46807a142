------------------------------ MODULE Deferreds -----------------------------
(***************************************************************************)
(* jQuery.Deferred, then and when, over callback lists.                    *)
(*                                                                         *)
(* A Deferred is three lists.  What makes it settle once is nothing but    *)
(* the three callbacks each of done and fail holds from the start: they    *)
(* set the state, disable the other list and lock progress, before any     *)
(* callback of the page is called.                                         *)
(***************************************************************************)
EXTENDS Callbacks

CONSTANTS
  DefId,       \* Deferreds
  PageDef      \* those the page makes, itself or with then and when

ASSUME DeferredsAssumption == PageDef \subseteq DefId /\ Value \intersect DefId = {}

VARIABLES
  state,      \* of a Deferred; "none" until it is made
  own,        \* Deferreds the page can settle; of the others it has a promise
  master,     \* of when: what it waits for, and how many are left
  due         \* callbacks given to done, fail, complete and not called yet

defVars == <<cbVars, state, own, master, due>>

Action == {"done", "fail", "progress"}
Settling == {"done", "fail"}

Other(a) == IF a = "done" THEN "fail" ELSE "done"
StateOf(a) == IF a = "done" THEN "resolved" ELSE "rejected"

Made(d) == state[d] # "none"

\* The callbacks the library itself puts into lists.
SetState(d, a) == [k |-> "state", d |-> d, s |-> StateOf(a)]
DisableList(l) == [k |-> "disable", l |-> l]
LockList(l) == [k |-> "lock", l |-> l]
SettleWith(l) == [k |-> "settle", l |-> l]
ThenTo(l, fn) == [k |-> "then", l |-> l, fn |-> fn]
Update(m, i, a) == [k |-> "update", m |-> m, i |-> i, a |-> a]

\* Mutation of FirstCallbacks: the other list stays enabled.
FirstCallbacksOfOne(d, a) == <<SetState(d, a), LockList(<<d, "progress">>)>>

\* list.add( state, disable, lock ).
FirstCallbacks(d, a) ==
  <<SetState(d, a), DisableList(<<d, Other(a)>>), LockList(<<d, "progress">>)>>

NewList(d, a) ==
  IF a = "progress" THEN New(Memory) ELSE [New(OnceMemory) EXCEPT !.list = FirstCallbacks(d, a)]

\* The lists of a new Deferred.
NewLists(d) == [l \in {d} \X Action |-> NewList(d, l[2])]

\* f, and g where f is not defined.
Joined(f, g) == [x \in DOMAIN f \union DOMAIN g |-> IF x \in DOMAIN f THEN f[x] ELSE g[x]]

-----------------------------------------------------------------------------
(***************************************************************************)
(* The library's own callbacks, called by a loop.                          *)
(***************************************************************************)

CallState ==
  /\ Calling("state")
  /\ state' = [state EXCEPT ![Callback.d] = Callback.s]
  /\ run' = Goto("calling")
  /\ UNCHANGED <<cb, calls, threw, own, master, due>>

CallDisable ==
  /\ Calling("disable")
  /\ cb' = [cb EXCEPT ![Callback.l] = Disabled(@)]
  /\ run' = Goto("calling")
  /\ UNCHANGED <<calls, threw, state, own, master, due>>

CallLock ==
  /\ Calling("lock")
  /\ cb' = [cb EXCEPT ![Callback.l] = Locked(@)]
  /\ run' = Goto("calling")
  /\ UNCHANGED <<calls, threw, state, own, master, due>>

\* newDefer.resolve and its like, given to another Deferred; or a handler of
\* then the page left out.
CallSettle ==
  /\ \/ Calling("settle")
     \/ Calling("then") /\ Callback.fn = Nothing
  /\ FireThen(Callback.l, Top.v, Goto("calling"))
  /\ UNCHANGED <<calls, threw, state, own, master, due>>

CallThen ==
  /\ Calling("then") /\ Callback.fn # Nothing
  /\ run' = Append(Goto("calling"), FnFrame(Callback.fn, Top.l, Top.v, Callback.l))
  /\ UNCHANGED <<cb, calls, threw, state, own, master, due>>

\* updateFunc: a note of progress, or one of the values; the last settles the
\* master.
CallUpdate ==
  /\ Calling("update")
  /\ LET m == Callback.m
         Filled(values) == [values EXCEPT ![Callback.i] = Top.v]
     IN IF Callback.a = "progress"
        THEN /\ master' = [master EXCEPT ![m].notes = Filled(@)]
             /\ FireThen(<<m, "progress">>, Filled(master[m].notes), Goto("calling"))
        ELSE /\ master' = [master EXCEPT ![m].values = Filled(@), ![m].left = @ - 1]
             /\ IF master[m].left = 1
                THEN FireThen(<<m, "done">>, Filled(master[m].values), Goto("calling"))
                ELSE run' = Goto("calling") /\ UNCHANGED cb
  /\ UNCHANGED <<calls, threw, state, own, due>>

\* A callback of the page: it is due no longer.
CallPage ==
  /\ CallFn
  /\ due' = IF Top.l \in DOMAIN due THEN [due EXCEPT ![Top.l] = Tail(@)] ELSE due
  /\ UNCHANGED <<state, own, master>>

\* The handler of then returns a value ...
ReturnValue ==
  /\ TopIs("fn") /\ Top.to # Nothing
  /\ \E v \in Value : FireThen(Top.to, v, Below)
  /\ UNCHANGED <<calls, threw, state, own, master, due>>

-----------------------------------------------------------------------------
(***************************************************************************)
(* Several calls in a row: each may run callbacks before the next.  `todo' *)
(* is what is left of them, a frame of the stack.                          *)
(***************************************************************************)

Todo(calls_) == IF calls_ = <<>> THEN <<>> ELSE <<[f |-> "todo", todo |-> calls_]>>

AddCall(l, c) == [op |-> "add", l |-> l, c |-> c]
FireCall(l, v) == [op |-> "fire", l |-> l, v |-> v]
LeaveCall(m) == [op |-> "leave", m |-> m]
WaitlessCall(m) == [op |-> "waitless", m |-> m]

\* ... or a promise, which newDefer then follows.
ReturnPromise ==
  /\ TopIs("fn") /\ Top.to # Nothing
  /\ \E p \in PageDef :
       /\ Made(p)
       /\ LET n == Top.to[1]
              Follow(a) == AddCall(<<p, a>>, SettleWith(<<n, a>>))
          IN run' = Below \o Todo(<<Follow("done"), Follow("fail"), Follow("progress")>>)
  /\ UNCHANGED <<cb, calls, threw, state, own, master, due>>

\* The call in turn, and the stack once it is made.
CallIs(op) == TopIs("todo") /\ Head(Top.todo).op = op
Call == Head(Top.todo)
AfterCall == Below \o Todo(Tail(Top.todo))

DoAdd ==
  /\ CallIs("add")
  /\ AddThen(Call.l, Call.c, AfterCall)
  /\ due' = IF Call.c.k = "fn" /\ Call.l \in DOMAIN due
            THEN [due EXCEPT ![Call.l] = Append(@, Call.c.fn)] ELSE due
  /\ UNCHANGED <<calls, threw, state, own, master>>

DoFire ==
  /\ CallIs("fire")
  /\ FireThen(Call.l, Call.v, AfterCall)
  /\ UNCHANGED <<calls, threw, state, own, master, due>>

\* when: a subordinate that is no promise.
DoLeave ==
  /\ CallIs("leave")
  /\ master' = [master EXCEPT ![Call.m].left = @ - 1]
  /\ run' = AfterCall
  /\ UNCHANGED <<cb, calls, threw, state, own, due>>

\* when: if the master waits for nothing, resolve it.
DoWaitless ==
  /\ CallIs("waitless")
  /\ IF master[Call.m].left = 0
     THEN FireThen(<<Call.m, "done">>, master[Call.m].values, AfterCall)
     ELSE run' = AfterCall /\ UNCHANGED cb
  /\ UNCHANGED <<calls, threw, state, own, master, due>>

DeferredSteps ==
  \/ CallState \/ CallDisable \/ CallLock \/ CallSettle \/ CallThen \/ CallUpdate \/ CallPage
  \/ ReturnValue \/ ReturnPromise
  \/ DoAdd \/ DoFire \/ DoLeave \/ DoWaitless

-----------------------------------------------------------------------------
(***************************************************************************)
(* Calls of the page.                                                      *)
(***************************************************************************)

\* A Deferred the page makes, or the library makes for it.
WithNew(d) ==
  /\ ~Made(d)
  /\ cb' = Joined(cb, NewLists(d))
  /\ state' = [state EXCEPT ![d] = "pending"]
  /\ due' = Joined(due, [l \in {d} \X Settling |-> <<>>])

\* jQuery.Deferred().
MakeDeferred(d) ==
  /\ Spend("deferred") /\ WithNew(d)
  /\ own' = own \union {d}
  /\ UNCHANGED <<run, master>>

\* resolve, reject, notify.
Settle(d, a, v) ==
  /\ Spend("deferred") /\ d \in own
  /\ FireThen(<<d, a>>, v, run)
  /\ UNCHANGED <<state, own, master, due>>

\* done, fail; complete of a request.
Listen(d, a, fn) ==
  /\ Spend("deferred") /\ Made(d)
  /\ AddThen(<<d, a>>, OfPage(fn), run)
  /\ due' = [due EXCEPT ![<<d, a>>] = Append(@, fn)]
  /\ UNCHANGED <<state, own, master>>

\* always: done, then fail.
AlwaysCalls(d, fn) == <<AddCall(<<d, "done">>, OfPage(fn)), AddCall(<<d, "fail">>, OfPage(fn))>>

\* d.then( onDone, onFail ), with a new Deferred n.
Then(d, n, onDone, onFail) ==
  /\ Spend("deferred") /\ Made(d) /\ WithNew(n)
  /\ LET Forward(a, fn) == AddCall(<<d, a>>, ThenTo(<<n, a>>, fn))
     IN run' = run \o Todo(<<Forward("done", onDone), Forward("fail", onFail),
                             Forward("progress", Nothing)>>)
  /\ UNCHANGED <<own, master>>

\* What when does with its i-th argument x, a promise or a value.
Subordinate(m, i, x) ==
  IF x \in DefId
  THEN <<AddCall(<<x, "done">>, Update(m, i, "done")),
         AddCall(<<x, "fail">>, SettleWith(<<m, "fail">>)),
         AddCall(<<x, "progress">>, Update(m, i, "progress"))>>
  ELSE <<LeaveCall(m)>>

\* when( xs ), of two arguments, with a new Deferred m.  (Of one promise it is
\* that promise.)
When(m, xs) ==
  /\ Spend("deferred") /\ WithNew(m)
  /\ \A i \in DOMAIN xs : xs[i] \in DefId => Made(xs[i])
  /\ master' = Joined(master, m :> [of |-> xs, left |-> Len(xs), values |-> xs,
                                    notes |-> [i \in DOMAIN xs |-> Nothing]])
  /\ run' = run \o Todo(Subordinate(m, 1, xs[1]) \o Subordinate(m, 2, xs[2])
                          \o <<WaitlessCall(m)>>)
  /\ UNCHANGED own

DeferredCalls ==
  \E d \in PageDef :
    \/ MakeDeferred(d)
    \/ \E a \in Action, v \in Value : Settle(d, a, v)
    \/ \E a \in Settling, fn \in Fn : Listen(d, a, fn)
    \/ \E n \in PageDef, fn \in Fn : Then(d, n, fn, Nothing) \/ Then(d, n, Nothing, fn)
    \/ \E xs \in (PageDef \union Value) \X (PageDef \union Value) : When(d, xs)
=============================================================================
