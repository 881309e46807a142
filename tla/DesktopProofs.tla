---------------------------- MODULE DesktopProofs ---------------------------
(***************************************************************************)
(* Proofs about effects, for any elements, calls and bounds, and about the *)
(* desktop that moves its windows with them, for any number of windows.    *)
(*                                                                         *)
(* Of each queue one thing moves on at most (Moving): the animation that   *)
(* runs, then its complete callback on the stack, then the dequeue that    *)
(* starts the next.  While one moves the sentinel is in the queue, so that *)
(* animate asks for no second; or the queue was just cleared by the walk   *)
(* of stop or finish, which stops what runs before it goes on.             *)
(*                                                                         *)
(* On the desktop nothing stops or runs beside a queue.  A task bar that   *)
(* is not laid out has a button that fades in (Fading): its complete       *)
(* callback will lay it out.                                               *)
(***************************************************************************)
EXTENDS Desktop, FiniteSetTheorems, SequenceTheorems, TLAPS

-----------------------------------------------------------------------------
(***************************************************************************)
(* Types.                                                                  *)
(***************************************************************************)

Whats == Scripted \union {"show", "opaque", "up", "down"}

ItemType == [what : Whats, queued : BOOLEAN]

Place == ItemType \union {Sentinel}

Maybe(S) == S \union {Nothing}

ElementType ==
  [inDocument : BOOLEAN, visible : BOOLEAN, size : Int, at : Maybe(Whats), queue : Maybe(Seq(Place)),
   hooks : Nat, fxshow : Maybe([size : Int, hidden : Maybe(BOOLEAN)]), finish : BOOLEAN]

HookType == [unqueued : Int, fired : BOOLEAN]

AnimationOf(E) ==
  [elem : E, goal : Maybe(Whats), queued : BOOLEAN, hooks : Nat, sized : BOOLEAN,
   state : {"pending", "resolved", "rejected"}, stopped : BOOLEAN, percent : 0..2,
   moves : BOOLEAN, hides : BOOLEAN, start : Int, end : Int, orig : Int]

FxOK(x) ==
  /\ x = [el |-> x.el, hooks |-> x.hooks, anim |-> x.anim, timers |-> x.timers, ticking |-> x.ticking]
  /\ x.el \in [DOMAIN x.el -> ElementType]
  /\ x.hooks \in Seq(HookType)
  /\ x.anim \in Seq(AnimationOf(DOMAIN x.el))
  /\ x.timers \in Seq(1..Len(x.anim))
  /\ x.ticking \in BOOLEAN

\* Calls of the library, over elements E and animations A.
CallType(E, A) ==
  [op : {"dequeue", "finished"}, e : E] \union [op : {"start"}, e : E, item : ItemType]
    \union [op : {"complete", "unqueued"}, a : A] \union [op : {"insert"}, n : Nat]

FrameType(E, A) ==
  [f : {"todo"}, todo : Seq(CallType(E, A)) \ {<<>>}] \union [f : {"fn"}, a : A]
    \union [f : {"tick"}, i : Nat \ {0}, over : A \union {0}]
    \union {g \in [f : {"stop"}, e : E, i : Nat, gotoEnd : BOOLEAN, dequeue : BOOLEAN, splice : BOOLEAN,
                   then : Seq(CallType(E, A))] : g.splice => g.i # 0}

RunOK == run \in Seq(FrameType(DOMAIN fx.el, 1..Len(fx.anim)))

FxTypeOK == FxOK(fx) /\ RunOK /\ calls \in Nat /\ threw \in BOOLEAN /\ meddled \in BOOLEAN

-----------------------------------------------------------------------------
(***************************************************************************)
(* The calls that wait on the stack: the d-th before the last of frame i.  *)
(***************************************************************************)

Slots(r) == UNION {{<<i, d>> : d \in 0..Len(r[i].todo) - 1} : i \in {i \in 1..Len(r) : r[i].f = "todo"}}

CallOf(r, s) == r[s[1]].todo[Len(r[s[1]].todo) - s[2]]

Waits(r, call) == \E s \in Slots(r) : CallOf(r, s) = call

-----------------------------------------------------------------------------
(***************************************************************************)
(* One at a time.  An animation of a queue moves on, from pending to its   *)
(* complete callback to the dequeue that starts the next; Movers of an     *)
(* element are those, and there is one at most.                            *)
(***************************************************************************)

\* Animations of e's queue that run.
InQueue(x, e) == {a \in DOMAIN x.anim : x.anim[a].elem = e /\ x.anim[a].state = "pending" /\ x.anim[a].queued}

\* A call that goes on with the queue of e.
GoesOn(x, call, e) ==
  \/ call = DequeueCall(e)
  \/ call.op = "complete" /\ x.anim[call.a].elem = e /\ x.anim[call.a].queued

\* What moves on for e: animations, and slots of the stack.
Moving(x, r, e) == {<<0, a>> : a \in InQueue(x, e)} \union {s \in Slots(r) : GoesOn(x, CallOf(r, s), e)}

AtMostOne(x, r, e) == \A m, n \in Moving(x, r, e) : m = n

FinishedCall(e) == [op |-> "finished", e |-> e]

Finishing(r, e) == Waits(r, FinishedCall(e))

Walking(r) == r # <<>> /\ r[1].f = "stop"

\* Why a call of animate does not start a second one.
HasSentinel(x, e) == Queue(x, e) # <<>> /\ Head(Queue(x, e)) = Sentinel

JustAsked(r, e) == r # <<>> /\ r[Len(r)] = [f |-> "todo", todo |-> <<DequeueCall(e)>>]

NoCalls(x, r, t, e) == Queue(x, e) = <<>> /\ (t \/ (Walking(r) /\ r[1].e = e))

OneMover(x, r, t, e) ==
  IF Finishing(r, e) THEN InQueue(x, e) = {} /\ x.el[e].finish
  ELSE /\ AtMostOne(x, r, e)
       /\ Moving(x, r, e) = {} \/ HasSentinel(x, e) \/ JustAsked(r, e) \/ NoCalls(x, r, t, e)

Movers == \A e \in Elem : fx.el[e].inDocument => OneMover(fx, run, threw, e)

\* Timers.
InTimers(x, n) == {x.timers[j] : j \in 1..n}

TimersOK(x) ==
  \A a \in DOMAIN x.anim :
    /\ x.anim[a].stopped => x.anim[a].state # "pending"
    /\ x.anim[a].state = "pending" => a \in InTimers(x, Len(x.timers))

\* What finish calls in the end.
ThenOK(then, e) ==
  then # <<>> =>
    /\ then[Len(then)] = FinishedCall(e)
    /\ \A j \in 1..Len(then) - 1 : then[j].op = "start" /\ then[j].e = e

\* Only the lowest frame is of stop or of the tick.
StackOK(x, r) ==
  /\ \A i \in 2..Len(r) : r[i].f \in {"todo", "fn"}
  /\ r # <<>> /\ r[1].f = "tick" /\ r[1].over # 0 => x.anim[r[1].over].state # "pending"
  /\ \A s \in Slots(r) :
       /\ CallOf(r, s).op = "finished" => s = <<1, 0>>
       /\ CallOf(r, s).op = "start" => ~CallOf(r, s).item.queued \/ Finishing(r, CallOf(r, s).e)
       /\ CallOf(r, s).op # "insert"

WalkOK(x, r) ==
  Walking(r) =>
    LET w == r[1] IN
    /\ ThenOK(w.then, w.e)
    /\ w.then # <<>> => w.gotoEnd /\ (x.el[w.e].inDocument => x.el[w.e].finish /\ Queue(x, w.e) = <<>>)
    /\ ~w.gotoEnd => \A i \in 2..Len(r) : r[i].f = "todo" /\ \A j \in 1..Len(r[i].todo) : r[i].todo[j].op = "unqueued"
    /\ w.dequeue => Len(r) = 1 /\ ~w.splice
    /\ w.i <= Len(x.timers)
    /\ w.splice => w.i \in 1..Len(x.timers) /\ x.anim[x.timers[w.i]].state # "pending"
    /\ x.el[w.e].inDocument /\ (Queue(x, w.e) = <<>> \/ ~w.gotoEnd \/ w.dequeue) =>
         InQueue(x, w.e) \subseteq InTimers(x, w.i)

\* A queue: items, after a sentinel perhaps.
QueuesOK(x) ==
  \A e \in DOMAIN x.el : \A j \in 1..Len(Queue(x, e)) :
    \/ Queue(x, e)[j] \in ItemType /\ Queue(x, e)[j].queued
    \/ j = 1 /\ Queue(x, e)[1] = Sentinel

-----------------------------------------------------------------------------
(***************************************************************************)
(* The desktop.                                                            *)
(***************************************************************************)

ElementsOf(d) == {List} \union {Win(n) : n \in 1..d.opened} \union {Button(n) : n \in 1..d.opened}

Opening(r, n) == r = Todo(<<DequeueCall(Win(n)), InsertCall(n), DequeueCall(Button(n))>>)

Inserting(r, n) == r = Todo(<<InsertCall(n), DequeueCall(Button(n))>>)

\* A button that is to fade in, fades in, or has just done so.
Fading(x, r, e) ==
  \/ \E a \in DOMAIN x.anim : x.anim[a].elem = e /\ x.anim[a].state = "pending"
  \/ Waits(r, DequeueCall(e)) /\ Queue(x, e) = <<Item("opaque")>>
  \/ \E a \in DOMAIN x.anim : x.anim[a].elem = e /\ (Waits(r, CompleteCall(a)) \/ \E i \in 1..Len(r) : r[i] = FnFrame(a))

LaidOut(x, d) == d = ToolBRAuto(d, x.el)

DesktopStack(x, r) ==
  /\ \A i \in 1..Len(r) : r[i].f # "stop"
  /\ \A s \in Slots(r) : CallOf(r, s).op \in {"dequeue", "complete", "insert"}
  /\ \A a \in DOMAIN x.anim : x.anim[a].queued /\ (x.anim[a].stopped => x.anim[a].state # "pending")

\* A window is in the document after its animation has begun.
Windows(x, r, d) ==
  /\ \A n \in 1..d.opened :
       Queue(x, Win(n)) \in {<<>>, <<Sentinel>>} \/ (Opening(r, n) /\ Queue(x, Win(n)) = <<Item("show")>>)
  /\ \A n \in 1..d.opened : Opening(r, n) \/ Inserting(r, n) => ~x.el[Win(n)].inDocument
  /\ \A s \in Slots(r) : CallOf(r, s).op = "insert" =>
       \E n \in 1..d.opened : CallOf(r, s) = InsertCall(n) /\ (Opening(r, n) \/ Inserting(r, n))

DesktopOne(x, r) ==
  /\ \A e \in DOMAIN x.el : AtMostOne(x, r, e)
  /\ InQueue(x, List) # {} => HasSentinel(x, List)

DeskType ==
  desk \in [clicks : Nat, room : Fits, opened : Nat, vertical : BOOLEAN, listButton : BOOLEAN]

DeskInv ==
  /\ FxTypeOK /\ QueuesOK(fx) /\ DeskType
  /\ Elem = ElementsOf(desk) /\ \A e \in Elem : ~fx.el[e].finish
  /\ DesktopStack(fx, run) /\ Windows(fx, run, desk) /\ DesktopOne(fx, run)
  /\ LaidOut(fx, desk) \/ \E n \in Opened : Fading(fx, run, Button(n))

-----------------------------------------------------------------------------
(***************************************************************************)
(* What the operators of Effects change.                                   *)
(***************************************************************************)

\* Of the elements only e is changed.
Only(x, y, e) ==
  /\ DOMAIN y.el = DOMAIN x.el
  /\ \A d \in DOMAIN x.el \ {e} : y.el[d] = x.el[d]

\* What an element is to the page stays.
SameMarks(k, l) == l.inDocument = k.inDocument /\ l.finish = k.finish

\* What the type of the effects says of their parts.
LEMMA FxParts ==
  ASSUME NEW x, FxOK(x)
  PROVE  /\ \A e \in DOMAIN x.el : x.el[e] \in ElementType
         /\ x.hooks \in Seq(HookType) /\ x.timers \in Seq(1..Len(x.anim))
         /\ x.anim \in Seq(AnimationOf(DOMAIN x.el))
         /\ DOMAIN x.anim = 1..Len(x.anim) /\ Len(x.anim) \in Nat
         /\ \A a \in DOMAIN x.anim : x.anim[a] \in AnimationOf(DOMAIN x.el) /\ x.anim[a].elem \in DOMAIN x.el
         /\ \A j \in 1..Len(x.timers) : x.timers[j] \in DOMAIN x.anim
         /\ DOMAIN x.timers = 1..Len(x.timers) /\ Len(x.timers) \in Nat
<1>1. PICK E : E = DOMAIN x.el
  OBVIOUS
<1>2. PICK A : A = AnimationOf(E)
  OBVIOUS
<1>3. PICK n : n = Len(x.anim)
  OBVIOUS
<1>4. /\ x.el \in [E -> ElementType] /\ x.hooks \in Seq(HookType) /\ x.anim \in Seq(A) /\ x.timers \in Seq(1..n)
  BY <1>1, <1>2, <1>3 DEF FxOK
<1>5. /\ DOMAIN x.anim = 1..n /\ n \in Nat /\ \A a \in 1..n : x.anim[a] \in A
      /\ DOMAIN x.timers = 1..Len(x.timers) /\ Len(x.timers) \in Nat
      /\ \A j \in 1..Len(x.timers) : x.timers[j] \in 1..n
  BY <1>3, <1>4, SMTT(30)
<1>6. \A an \in A : an.elem \in E
  BY <1>2 DEF AnimationOf
<1> QED
  BY <1>1, <1>2, <1>3, <1>4, <1>5, <1>6

\* An element is changed.
LEMMA WithElement ==
  ASSUME NEW x, FxOK(x), NEW e \in DOMAIN x.el, NEW k \in ElementType,
         NEW y, y = [x EXCEPT !.el[e] = k]
  PROVE  /\ FxOK(y) /\ Only(x, y, e) /\ y.el[e] = k
         /\ y.anim = x.anim /\ y.timers = x.timers /\ y.hooks = x.hooks /\ y.ticking = x.ticking
<1>1. PICK E : E = DOMAIN x.el
  OBVIOUS
<1>2. x = [el |-> x.el, hooks |-> x.hooks, anim |-> x.anim, timers |-> x.timers, ticking |-> x.ticking]
  BY DEF FxOK
<1>3. y = [el |-> [x.el EXCEPT ![e] = k], hooks |-> x.hooks, anim |-> x.anim, timers |-> x.timers, ticking |-> x.ticking]
  BY <1>2
<1>4. x.el \in [E -> ElementType]
  BY <1>1 DEF FxOK
<1>5. y.el \in [E -> ElementType] /\ y.el[e] = k /\ \A d \in E \ {e} : y.el[d] = x.el[d]
  BY <1>1, <1>3, <1>4
<1>6. DOMAIN y.el = E
  BY <1>5
<1> QED
  BY <1>1, <1>3, <1>5, <1>6 DEF FxOK, Only

\* _queueHooks only gives an element its hooks.
LEMMA HookedIs ==
  ASSUME NEW x, FxOK(x), NEW e \in DOMAIN x.el, NEW y, y = Hooked(x, e)
  PROVE  /\ FxOK(y) /\ Only(x, y, e) /\ y.anim = x.anim /\ y.timers = x.timers /\ y.ticking = x.ticking
         /\ SameMarks(x.el[e], y.el[e]) /\ y.el[e].queue = x.el[e].queue
         /\ y.el[e].visible = x.el[e].visible /\ y.el[e].fxshow = x.el[e].fxshow
<1>1. CASE x.el[e].hooks # 0
  BY <1>1 DEF Hooked, Only, SameMarks
<1>2. CASE x.el[e].hooks = 0
  <2>1. PICK z : z = [x EXCEPT !.hooks = Append(@, NewHooks)]
    OBVIOUS
  <2>2. PICK k : k = [x.el[e] EXCEPT !.hooks = Len(x.hooks) + 1]
    OBVIOUS
  <2>3. x = [el |-> x.el, hooks |-> x.hooks, anim |-> x.anim, timers |-> x.timers, ticking |-> x.ticking]
    BY DEF FxOK
  <2>4. z = [el |-> x.el, hooks |-> Append(x.hooks, NewHooks), anim |-> x.anim, timers |-> x.timers, ticking |-> x.ticking]
    BY <2>1, <2>3
  <2>5. FxOK(z)
    BY <2>4 DEF FxOK, HookType, NewHooks
  <2>6. y = [z EXCEPT !.el[e] = k]
    BY <1>2, <2>1, <2>2, <2>3, <2>4 DEF Hooked
  <2>7. x.el[e] \in ElementType /\ Len(x.hooks) \in Nat
    BY FxParts
  <2>8. k \in ElementType /\ SameMarks(x.el[e], k) /\ k.queue = x.el[e].queue
        /\ k.visible = x.el[e].visible /\ k.fxshow = x.el[e].fxshow
    BY <2>2, <2>7 DEF ElementType, SameMarks
  <2>9. z.el = x.el /\ z.anim = x.anim /\ z.timers = x.timers /\ z.ticking = x.ticking
    BY <2>4
  <2>10. FxOK(y) /\ Only(z, y, e) /\ y.el[e] = k /\ y.anim = z.anim /\ y.timers = z.timers /\ y.ticking = z.ticking
    BY <2>5, <2>6, <2>8, <2>9, WithElement
  <2> QED
    BY <2>8, <2>9, <2>10 DEF Only
<1> QED
  BY <1>1, <1>2

\* hooks.empty.fire, of a queue that is empty.
LEMMA EmptyFiredIs ==
  ASSUME NEW x, FxOK(x), NEW e \in DOMAIN x.el, NEW h, Queue(x, e) = <<>>, NEW y, y = EmptyFired(x, e, h)
  PROVE  /\ FxOK(y) /\ Only(x, y, e) /\ y.anim = x.anim /\ y.timers = x.timers /\ y.ticking = x.ticking
         /\ SameMarks(x.el[e], y.el[e]) /\ Queue(y, e) = <<>>
         /\ y.el[e].visible = x.el[e].visible /\ y.el[e].queue \in {x.el[e].queue, Nothing}
<1>1. CASE x.hooks[h].unqueued > 0 \/ x.hooks[h].fired
  BY <1>1 DEF EmptyFired, Only, SameMarks
<1>2. CASE ~(x.hooks[h].unqueued > 0 \/ x.hooks[h].fired)
  <2>1. PICK hs : hs = [x.hooks EXCEPT ![h].fired = TRUE]
    OBVIOUS
  <2>2. PICK z : z = [el |-> x.el, hooks |-> hs, anim |-> x.anim, timers |-> x.timers, ticking |-> x.ticking]
    OBVIOUS
  <2>3. PICK k : k = [x.el[e] EXCEPT !.queue = Nothing, !.hooks = 0]
    OBVIOUS
  <2>4. x = [el |-> x.el, hooks |-> x.hooks, anim |-> x.anim, timers |-> x.timers, ticking |-> x.ticking]
    BY DEF FxOK
  <2>5. hs \in Seq(HookType)
    <3>1. CASE h \in 1..Len(x.hooks)
      <4>1. x.hooks[h] \in HookType
        BY <3>1, FxParts
      <4>2. [x.hooks[h] EXCEPT !.fired = TRUE] \in HookType
        BY <4>1 DEF HookType
      <4> QED
        BY <2>1, <3>1, <4>2, FxParts, ExceptSeq
    <3>2. CASE h \notin 1..Len(x.hooks)
      <4>1. hs = x.hooks
        BY <2>1, <3>2, FxParts
      <4> QED
        BY <4>1, FxParts
    <3> QED
      BY <3>1, <3>2
  <2>6. FxOK(z)
    BY <2>2, <2>5 DEF FxOK
  <2>7. y = [z EXCEPT !.el[e] = k]
    <3>1. y = [x EXCEPT !.hooks[h].fired = TRUE, !.el[e] = [@ EXCEPT !.queue = Nothing, !.hooks = 0]]
      BY <1>2 DEF EmptyFired
    <3>2. [x EXCEPT !.hooks[h].fired = TRUE] = z
      <4>1. [x EXCEPT !.hooks = hs] = z
        BY <2>2, <2>4
      <4>2. [x EXCEPT !.hooks[h].fired = TRUE] = [x EXCEPT !.hooks = hs]
        BY ONLY <2>1
      <4> QED
        BY <4>1, <4>2
    <3>3. y = [z EXCEPT !.el[e] = [@ EXCEPT !.queue = Nothing, !.hooks = 0]]
      BY <3>1, <3>2
    <3> QED
      BY <2>2, <2>3, <3>3
  <2>8. x.el[e] \in ElementType
    BY FxParts
  <2>9. k \in ElementType /\ SameMarks(x.el[e], k) /\ k.queue = Nothing /\ k.visible = x.el[e].visible
    BY <2>3, <2>8 DEF ElementType, SameMarks, Maybe
  <2>10. z.el = x.el /\ z.anim = x.anim /\ z.timers = x.timers /\ z.ticking = x.ticking
    BY <2>2
  <2>11. FxOK(y) /\ Only(z, y, e) /\ y.el[e] = k /\ y.anim = z.anim /\ y.timers = z.timers /\ y.ticking = z.ticking
    BY <2>6, <2>7, <2>9, <2>10, WithElement
  <2> QED
    BY <2>9, <2>10, <2>11 DEF Only, Queue
<1> QED
  BY <1>1, <1>2

\* An animation is changed.
LEMMA WithAnimation ==
  ASSUME NEW x, FxOK(x), NEW a \in DOMAIN x.anim, NEW an \in AnimationOf(DOMAIN x.el),
         NEW y, y = [x EXCEPT !.anim[a] = an]
  PROVE  /\ FxOK(y) /\ y.el = x.el /\ y.timers = x.timers /\ y.ticking = x.ticking
         /\ DOMAIN y.anim = DOMAIN x.anim /\ Len(y.anim) = Len(x.anim) /\ y.anim[a] = an
         /\ \A b \in DOMAIN x.anim \ {a} : y.anim[b] = x.anim[b]
<1>1. PICK E, A, n : E = DOMAIN x.el /\ A = AnimationOf(E) /\ n = Len(x.anim)
  OBVIOUS
<1>2. x = [el |-> x.el, hooks |-> x.hooks, anim |-> x.anim, timers |-> x.timers, ticking |-> x.ticking]
  BY DEF FxOK
<1>3. y = [el |-> x.el, hooks |-> x.hooks, anim |-> [x.anim EXCEPT ![a] = an], timers |-> x.timers, ticking |-> x.ticking]
  BY <1>2
<1>4. x.anim \in Seq(A) /\ a \in 1..n /\ an \in A /\ DOMAIN x.anim = 1..n
  BY <1>1, FxParts
<1>5. /\ y.anim \in Seq(A) /\ Len(y.anim) = n /\ y.anim[a] = an
      /\ \A b \in 1..n : b # a => y.anim[b] = x.anim[b]
  BY <1>1, <1>3, <1>4, ExceptSeq
<1>6. DOMAIN y.anim = 1..n
  BY <1>5
<1>7. x.el \in [DOMAIN x.el -> ElementType] /\ x.hooks \in Seq(HookType) /\ x.timers \in Seq(1..n) /\ x.ticking \in BOOLEAN
  BY <1>1 DEF FxOK
<1>8. y.anim \in Seq(AnimationOf(DOMAIN y.el)) /\ y.timers \in Seq(1..Len(y.anim))
  BY <1>1, <1>3, <1>5, <1>7
<1> QED
  BY <1>1, <1>3, <1>4, <1>5, <1>6, <1>7, <1>8 DEF FxOK

\* An element plays with its size, or is brought somewhere, but stays what it is.
SameQueue(k, l) == SameMarks(k, l) /\ l.queue = k.queue /\ (l.visible => k.visible)

\* A frame of an animation changes what its element looks like, nothing else of it.
LEMMA TweenedIs ==
  ASSUME NEW x, FxOK(x), NEW a \in DOMAIN x.anim, NEW p, NEW y, y = Tweened(x, a, p)
  PROVE  /\ FxOK(y) /\ Only(x, y, x.anim[a].elem) /\ y.anim = x.anim /\ y.timers = x.timers /\ y.ticking = x.ticking
         /\ SameQueue(x.el[x.anim[a].elem], y.el[x.anim[a].elem])
<1>1. PICK an, e : an = x.anim[a] /\ e = an.elem
  OBVIOUS
<1>2. e \in DOMAIN x.el /\ an \in AnimationOf(DOMAIN x.el) /\ x.el[e] \in ElementType
  BY <1>1, FxParts
<1>3. PICK now : now = CASE p = 0 -> an.start [] p = 1 -> (an.start + an.end) \div 2 [] OTHER -> an.end
  OBVIOUS
<1>4. now \in Int /\ an.goal \in Maybe(Whats)
  <2>1. an.start \in Int /\ an.end \in Int /\ an.goal \in Maybe(Whats)
    BY <1>2 DEF AnimationOf
  <2> QED
    BY <1>3, <2>1
<1>5. CASE an.sized
  <2>1. PICK k : k = [x.el[e] EXCEPT !.size = now]
    OBVIOUS
  <2>2. k \in ElementType /\ SameQueue(x.el[e], k)
    BY <1>2, <1>4, <2>1 DEF ElementType, SameQueue, SameMarks
  <2>3. y = [x EXCEPT !.el[e] = k]
    BY <1>1, <1>3, <1>5, <2>1 DEF Tweened
  <2> QED
    BY <1>1, <1>2, <2>2, <2>3, WithElement
<1>6. CASE ~an.sized /\ an.moves
  <2>1. PICK k : k = [x.el[e] EXCEPT !.at = IF p = 2 THEN an.goal ELSE Nothing]
    OBVIOUS
  <2>2. k \in ElementType /\ SameQueue(x.el[e], k)
    BY <1>2, <1>4, <2>1 DEF ElementType, SameQueue, SameMarks, Maybe
  <2>3. y = [x EXCEPT !.el[e] = k]
    BY <1>1, <1>6, <2>1 DEF Tweened
  <2> QED
    BY <1>1, <1>2, <2>2, <2>3, WithElement
<1>7. CASE ~an.sized /\ ~an.moves
  BY <1>1, <1>7 DEF Tweened, Only, SameQueue, SameMarks
<1> QED
  BY <1>5, <1>6, <1>7

\* a is settled, in whatever way.
Settles(x, y, a, state) ==
  /\ DOMAIN y.anim = DOMAIN x.anim /\ Len(y.anim) = Len(x.anim)
  /\ \A b \in DOMAIN x.anim \ {a} : y.anim[b] = x.anim[b]
  /\ y.anim[a].elem = x.anim[a].elem /\ y.anim[a].queued = x.anim[a].queued /\ y.anim[a].goal = x.anim[a].goal
  /\ y.anim[a].state = state

\* An animation is resolved, and its element is what it was for its queue.
LEMMA ResolvedIs ==
  ASSUME NEW x, FxOK(x), NEW a \in DOMAIN x.anim, NEW y, y = Resolved(x, a)
  PROVE  /\ FxOK(y) /\ Only(x, y, x.anim[a].elem) /\ y.timers = x.timers /\ y.ticking = x.ticking
         /\ Settles(x, y, a, "resolved") /\ y.anim[a].stopped = x.anim[a].stopped
         /\ SameQueue(x.el[x.anim[a].elem], y.el[x.anim[a].elem])
<1>1. PICK an, e : an = x.anim[a] /\ e = an.elem
  OBVIOUS
<1>2. e \in DOMAIN x.el /\ an \in AnimationOf(DOMAIN x.el) /\ x.el[e] \in ElementType
  BY <1>1, FxParts
<1>3. PICK bn : bn = [an EXCEPT !.state = "resolved"]
  OBVIOUS
<1>4. bn \in AnimationOf(DOMAIN x.el) /\ bn.elem = e /\ bn.queued = an.queued /\ bn.goal = an.goal
      /\ bn.state = "resolved" /\ bn.stopped = an.stopped
  BY <1>1, <1>2, <1>3 DEF AnimationOf
<1>5. PICK k : k = Restored(x.el[e], an)
  OBVIOUS
<1>6. k \in ElementType /\ SameQueue(x.el[e], k)
  <2>1. an.orig \in Int
    BY <1>2 DEF AnimationOf
  <2> QED
    BY <1>2, <1>5, <2>1 DEF Restored, ElementType, SameQueue, SameMarks, Maybe
<1>7. PICK z : z = [x EXCEPT !.anim[a] = bn]
  OBVIOUS
<1>8. /\ FxOK(z) /\ z.el = x.el /\ z.timers = x.timers /\ z.ticking = x.ticking
      /\ DOMAIN z.anim = DOMAIN x.anim /\ Len(z.anim) = Len(x.anim) /\ z.anim[a] = bn
      /\ \A b \in DOMAIN x.anim \ {a} : z.anim[b] = x.anim[b]
  <2>1. bn \in AnimationOf(DOMAIN x.el)
    BY <1>4
  <2> QED
    BY <1>7, <2>1, WithAnimation
<1>9. x = [el |-> x.el, hooks |-> x.hooks, anim |-> x.anim, timers |-> x.timers, ticking |-> x.ticking]
  BY DEF FxOK
<1>10. y = [z EXCEPT !.el[e] = k]
  <2>1. z = [el |-> x.el, hooks |-> x.hooks, anim |-> [x.anim EXCEPT ![a] = bn], timers |-> x.timers, ticking |-> x.ticking]
    BY <1>7, <1>9
  <2>2. y = [x EXCEPT !.anim[a].state = "resolved", !.el[e] = Restored(@, an)]
    BY <1>1 DEF Resolved
  <2>3. [x EXCEPT !.anim[a].state = "resolved"] = z
    BY <1>1, <1>3, <1>9, <2>1
  <2>4. y = [z EXCEPT !.el[e] = Restored(@, an)]
    BY <2>2, <2>3
  <2> QED
    BY <1>5, <2>1, <2>4
<1>11. FxOK(y) /\ Only(z, y, e) /\ y.el[e] = k /\ y.anim = z.anim /\ y.timers = z.timers /\ y.ticking = z.ticking
  BY <1>2, <1>6, <1>8, <1>10, WithElement
<1> QED
  BY <1>1, <1>4, <1>6, <1>8, <1>11 DEF Settles, Only

\* animation.stop of one that runs settles it, one way or the other.
LEMMA StoppedIs ==
  ASSUME NEW x, FxOK(x), NEW a \in DOMAIN x.anim, NEW gotoEnd \in BOOLEAN,
         x.anim[a].state = "pending", ~x.anim[a].stopped,
         NEW y, y = Stopped(x, a, gotoEnd)
  PROVE  /\ FxOK(y) /\ Only(x, y, x.anim[a].elem) /\ y.timers = x.timers /\ y.ticking = x.ticking
         /\ Settles(x, y, a, IF gotoEnd THEN "resolved" ELSE "rejected") /\ y.anim[a].stopped
         /\ SameQueue(x.el[x.anim[a].elem], y.el[x.anim[a].elem])
<1>1. PICK an, e : an = x.anim[a] /\ e = an.elem
  OBVIOUS
<1>2. e \in DOMAIN x.el /\ an \in AnimationOf(DOMAIN x.el) /\ x.el[e] \in ElementType
  BY <1>1, FxParts
<1>3. PICK bn : bn = [an EXCEPT !.stopped = TRUE]
  OBVIOUS
<1>4. bn \in AnimationOf(DOMAIN x.el) /\ bn.elem = e /\ bn.queued = an.queued /\ bn.goal = an.goal
      /\ bn.state = "pending" /\ bn.stopped
  BY <1>1, <1>2, <1>3 DEF AnimationOf
<1>5. PICK s : s = [x EXCEPT !.anim[a] = bn]
  OBVIOUS
<1>6. [x EXCEPT !.anim[a].stopped = TRUE] = s
  BY ONLY <1>1, <1>3, <1>5
<1>7. bn \in AnimationOf(DOMAIN x.el)
  BY <1>4
<1>8. /\ FxOK(s) /\ s.el = x.el /\ s.timers = x.timers /\ s.ticking = x.ticking
      /\ DOMAIN s.anim = DOMAIN x.anim /\ Len(s.anim) = Len(x.anim) /\ s.anim[a] = bn
      /\ \A b \in DOMAIN x.anim \ {a} : s.anim[b] = x.anim[b]
  BY <1>5, <1>7, WithAnimation, SMTT(30)
<1>9. CASE gotoEnd
  <2>1. PICK t : t = Tweened(s, a, 2)
    OBVIOUS
  <2>2. y = Resolved(t, a)
    BY <1>6, <1>9, <2>1 DEF Stopped
  <2>3. a \in DOMAIN s.anim /\ s.anim[a].elem = e
    BY <1>4, <1>8
  <2>4. /\ FxOK(t) /\ Only(s, t, e) /\ t.anim = s.anim /\ t.timers = s.timers /\ t.ticking = s.ticking
        /\ SameQueue(s.el[e], t.el[e])
    BY <1>8, <2>1, <2>3, TweenedIs
  <2>5. a \in DOMAIN t.anim /\ t.anim[a].elem = e
    BY <2>3, <2>4
  <2>6. /\ FxOK(y) /\ Only(t, y, e) /\ y.timers = t.timers /\ y.ticking = t.ticking
        /\ Settles(t, y, a, "resolved") /\ y.anim[a].stopped = t.anim[a].stopped
        /\ SameQueue(t.el[e], y.el[e])
    BY <2>2, <2>4, <2>5, ResolvedIs
  <2>7. Only(x, y, e) /\ SameQueue(x.el[e], y.el[e])
    BY <1>8, <2>4, <2>6 DEF Only, SameQueue, SameMarks
  <2>8. Settles(x, y, a, "resolved") /\ y.anim[a].stopped
    BY <1>1, <1>4, <1>8, <2>4, <2>6 DEF Settles
  <2> QED
    BY <1>1, <1>8, <1>9, <2>4, <2>6, <2>7, <2>8
<1>10. CASE ~gotoEnd
  <2>1. y = [s EXCEPT !.anim[a].state = "rejected"]
    BY <1>6, <1>10 DEF Stopped
  <2>2. PICK cn : cn = [bn EXCEPT !.state = "rejected"]
    OBVIOUS
  <2>3. cn \in AnimationOf(DOMAIN s.el) /\ cn.elem = e /\ cn.queued = an.queued /\ cn.goal = an.goal
        /\ cn.state = "rejected" /\ cn.stopped
    BY <1>4, <1>8, <2>2 DEF AnimationOf
  <2>4. y = [s EXCEPT !.anim[a] = cn]
    <3>1. PICK l : l = s.anim[a]
      OBVIOUS
    <3>2. l = bn
      BY <1>8, <3>1
    <3>3. [s EXCEPT !.anim[a].state = "rejected"] = [s EXCEPT !.anim[a] = [l EXCEPT !.state = "rejected"]]
      BY ONLY <3>1
    <3> QED
      BY ONLY <2>1, <2>2, <3>2, <3>3
  <2>5. a \in DOMAIN s.anim /\ cn \in AnimationOf(DOMAIN s.el)
    BY <1>8, <2>3
  <2>6. /\ FxOK(y) /\ y.el = s.el /\ y.timers = s.timers /\ y.ticking = s.ticking
        /\ DOMAIN y.anim = DOMAIN s.anim /\ Len(y.anim) = Len(s.anim) /\ y.anim[a] = cn
        /\ \A b \in DOMAIN s.anim \ {a} : y.anim[b] = s.anim[b]
    <3>1. FxOK(s)
      BY <1>8
    <3>2. a \in DOMAIN s.anim
      BY <2>5
    <3>3. cn \in AnimationOf(DOMAIN s.el)
      BY <2>5
    <3> QED
      BY ONLY <2>4, <3>1, <3>2, <3>3, WithAnimation
  <2> QED
    BY <1>1, <1>8, <1>10, <2>3, <2>6 DEF Only, Settles, SameQueue, SameMarks
<1> QED
  BY <1>9, <1>10

\* The show/hide pass: only an animation that would change nothing does not move.
LEMMA PrefilteredIs ==
  ASSUME NEW E, NEW el \in ElementType, NEW an \in AnimationOf(E), NEW what \in Whats,
         NEW p, p = Prefiltered(el, an, what)
  PROVE  /\ p.el \in ElementType /\ SameMarks(el, p.el) /\ p.el.queue = el.queue
         /\ p.anim \in AnimationOf(E) /\ p.anim.elem = an.elem /\ p.anim.queued = an.queued
         /\ p.anim.state = an.state /\ p.anim.stopped = an.stopped
         /\ what \notin Moves => p.el = el /\ p.anim.moves /\ p.anim.goal = what
         /\ what = "show" /\ IsHidden(el) => p.anim.moves
         /\ ~p.anim.moves => p.el = el
<1>1. CASE what \notin Moves
  <2>1. p = [el |-> el, anim |-> [an EXCEPT !.moves = TRUE, !.goal = what]]
    BY <1>1 DEF Prefiltered
  <2>2. PICK bn : bn = [an EXCEPT !.moves = TRUE, !.goal = what]
    OBVIOUS
  <2>3. what \in Maybe(Whats)
    BY DEF Maybe
  <2>4. bn \in AnimationOf(E)
    BY <2>2, <2>3 DEF AnimationOf
  <2>5. bn.elem = an.elem /\ bn.queued = an.queued /\ bn.state = an.state /\ bn.stopped = an.stopped
        /\ bn.moves /\ bn.goal = what
    BY <2>2 DEF AnimationOf
  <2>6. p.el = el /\ p.anim = bn
    BY <2>1, <2>2
  <2>7. what # "show"
    BY <1>1 DEF Moves
  <2> QED
    BY <2>4, <2>5, <2>6, <2>7 DEF SameMarks
<1>2. CASE what \in Moves /\ what = (IF IsHidden(el) THEN "hide" ELSE "show")
  <2>1. p = [el |-> el, anim |-> an]
    BY <1>2 DEF Prefiltered
  <2> QED
    BY <1>2, <2>1 DEF SameMarks
<1>3. CASE what \in Moves /\ what # (IF IsHidden(el) THEN "hide" ELSE "show")
  <2>1. PICK saved : saved = el.fxshow
    OBVIOUS
  <2>2. PICK hidden : hidden = IF saved # Nothing /\ saved.hidden # Nothing THEN saved.hidden ELSE IsHidden(el)
    OBVIOUS
  <2>3. PICK size : size = IF saved = Nothing THEN el.size ELSE saved.size
    OBVIOUS
  <2>4. PICK start : start = IF hidden /\ saved = Nothing THEN 0 ELSE el.size
    OBVIOUS
  <2>5. PICK kept : kept = [size |-> size, hidden |-> IF what = "toggle" THEN ~hidden
                                             ELSE IF saved = Nothing THEN Nothing ELSE saved.hidden]
    OBVIOUS
  <2>6. PICK orig : orig = IF saved # Nothing /\ saved.size # 0 THEN saved.size ELSE el.size
    OBVIOUS
  <2>7. p = [el |-> [el EXCEPT !.visible = el.visible \/ hidden, !.size = start, !.fxshow = kept],
             anim |-> [an EXCEPT !.moves = TRUE, !.sized = TRUE, !.hides = ~hidden, !.start = start,
                                 !.end = IF hidden THEN size ELSE 0, !.orig = orig]]
    BY <1>3, <2>1, <2>2, <2>3, <2>4, <2>5, <2>6 DEF Prefiltered
  <2>8. /\ saved \in Maybe([size : Int, hidden : Maybe(BOOLEAN)])
        /\ el.size \in Int /\ el.visible \in BOOLEAN /\ el.inDocument \in BOOLEAN
    BY <2>1 DEF ElementType
  <2>9. hidden \in BOOLEAN /\ size \in Int /\ start \in Int /\ orig \in Int
    <3>1. CASE saved = Nothing
      BY <2>2, <2>3, <2>4, <2>6, <2>8, <3>1 DEF IsHidden
    <3>2. CASE saved # Nothing
      <4>1. saved.size \in Int /\ saved.hidden \in Maybe(BOOLEAN)
        BY <2>8, <3>2 DEF Maybe
      <4>2. hidden \in BOOLEAN
        BY <2>2, <2>8, <4>1 DEF Maybe, IsHidden
      <4>3. size \in Int /\ start \in Int /\ orig \in Int
        BY <2>3, <2>4, <2>6, <2>8, <4>1
      <4> QED
        BY <4>2, <4>3
    <3> QED
      BY <3>1, <3>2
  <2>10. kept \in [size : Int, hidden : Maybe(BOOLEAN)]
    <3>1. saved # Nothing => saved.hidden \in Maybe(BOOLEAN)
      BY <2>8 DEF Maybe
    <3>2. (IF what = "toggle" THEN ~hidden ELSE IF saved = Nothing THEN Nothing ELSE saved.hidden) \in Maybe(BOOLEAN)
      BY <2>9, <3>1 DEF Maybe
    <3> QED
      BY <2>5, <2>9, <3>2
  <2>11. PICK k : k = [el EXCEPT !.visible = el.visible \/ hidden, !.size = start, !.fxshow = kept]
    OBVIOUS
  <2>12. k \in ElementType /\ SameMarks(el, k) /\ k.queue = el.queue
    BY <2>9, <2>10, <2>11 DEF ElementType, SameMarks, Maybe
  <2>13. PICK bn : bn = [an EXCEPT !.moves = TRUE, !.sized = TRUE, !.hides = ~hidden, !.start = start,
                                 !.end = IF hidden THEN size ELSE 0, !.orig = orig]
    OBVIOUS
  <2>14. /\ bn \in AnimationOf(E) /\ bn.elem = an.elem /\ bn.queued = an.queued
         /\ bn.state = an.state /\ bn.stopped = an.stopped /\ bn.moves
    <3>1. PICK end : end = IF hidden THEN size ELSE 0
      OBVIOUS
    <3>2. end \in Int /\ (~hidden) \in BOOLEAN
      BY <2>9, <3>1
    <3>3. bn = [an EXCEPT !.moves = TRUE, !.sized = TRUE, !.hides = ~hidden, !.start = start, !.end = end, !.orig = orig]
      BY <2>13, <3>1
    <3>4. bn \in AnimationOf(E)
      BY ONLY <2>9, <3>2, <3>3, an \in AnimationOf(E) DEF AnimationOf
    <3>5. bn.elem = an.elem /\ bn.queued = an.queued /\ bn.state = an.state /\ bn.stopped = an.stopped /\ bn.moves
      BY ONLY <3>3, an \in AnimationOf(E) DEF AnimationOf
    <3> QED
      BY <3>4, <3>5
  <2>15. p.el = k /\ p.anim = bn
    BY <2>7, <2>11, <2>13
  <2> QED
    BY <1>3, <2>12, <2>14, <2>15
<1> QED
  BY <1>1, <1>2, <1>3

\* The hooks are hooks whatever is counted in them.
LEMMA CountedIs ==
  ASSUME NEW hooks \in Seq(HookType), NEW h, NEW n \in Int
  PROVE  Counted(hooks, h, n) \in Seq(HookType)
<1>1. PICK hs : hs = Counted(hooks, h, n)
  OBVIOUS
<1>2. CASE h \in 1..Len(hooks)
  <2>1. hooks[h] \in HookType
    BY <1>2
  <2>2. PICK k : k = [hooks[h] EXCEPT !.unqueued = @ + n]
    OBVIOUS
  <2>3. k \in HookType
    <3>1. PICK g, u : g = hooks[h] /\ u = g.unqueued + n
      OBVIOUS
    <3>2. g \in HookType /\ u \in Int
      BY <2>1, <3>1 DEF HookType
    <3>3. k = [g EXCEPT !.unqueued = u]
      BY <2>2, <3>1
    <3> QED
      BY <3>2, <3>3 DEF HookType
  <2>4. hs = [hooks EXCEPT ![h] = k]
    BY <1>1, <2>2 DEF Counted
  <2> QED
    BY <1>1, <1>2, <2>3, <2>4, ExceptSeq
<1>3. CASE h \notin 1..Len(hooks)
  <2>1. hs = hooks
    BY <1>1, <1>3 DEF Counted
  <2> QED
    BY <1>1, <2>1
<1> QED
  BY <1>2, <1>3

\* The end of an animation beside the queue leaves what is queued.
LEMMA UnqueuedEndsIs ==
  ASSUME NEW x, FxOK(x), NEW e \in DOMAIN x.el, NEW h, NEW y, y = UnqueuedEnds(x, e, h)
  PROVE  /\ FxOK(y) /\ Only(x, y, e) /\ y.anim = x.anim /\ y.timers = x.timers /\ y.ticking = x.ticking
         /\ SameMarks(x.el[e], y.el[e]) /\ Queue(y, e) = Queue(x, e)
         /\ y.el[e].visible = x.el[e].visible /\ y.el[e].queue \in {x.el[e].queue, Nothing}
<1>1. PICK z : z = [x EXCEPT !.hooks = Counted(@, h, -1)]
  OBVIOUS
<1>2. PICK hs : hs = Counted(x.hooks, h, -1)
  OBVIOUS
<1>3. hs \in Seq(HookType)
  BY <1>2, FxParts, CountedIs
<1>4. x = [el |-> x.el, hooks |-> x.hooks, anim |-> x.anim, timers |-> x.timers, ticking |-> x.ticking]
  BY DEF FxOK
<1>5. z = [el |-> x.el, hooks |-> hs, anim |-> x.anim, timers |-> x.timers, ticking |-> x.ticking]
  BY <1>1, <1>2, <1>4
<1>6. FxOK(z) /\ z.el = x.el /\ z.anim = x.anim /\ z.timers = x.timers /\ z.ticking = x.ticking
  BY <1>3, <1>5 DEF FxOK
<1>7. y = IF Queue(x, e) = <<>> THEN EmptyFired(z, e, h) ELSE z
  BY <1>1 DEF UnqueuedEnds
<1>8. CASE Queue(x, e) = <<>>
  <2>1. Queue(z, e) = <<>> /\ y = EmptyFired(z, e, h) /\ e \in DOMAIN z.el
    BY <1>6, <1>7, <1>8 DEF Queue
  <2>2. /\ FxOK(y) /\ Only(z, y, e) /\ y.anim = z.anim /\ y.timers = z.timers /\ y.ticking = z.ticking
        /\ SameMarks(z.el[e], y.el[e]) /\ Queue(y, e) = <<>>
        /\ y.el[e].visible = z.el[e].visible /\ y.el[e].queue \in {z.el[e].queue, Nothing}
    BY <1>6, <2>1, EmptyFiredIs
  <2> QED
    BY <1>6, <1>8, <2>2 DEF Only
<1>9. CASE Queue(x, e) # <<>>
  BY <1>6, <1>7, <1>9 DEF Queue, Only, SameMarks
<1> QED
  BY <1>8, <1>9

\* remove() takes the data of the element alone.
LEMMA RemovedIs ==
  ASSUME NEW x, FxOK(x), NEW e \in DOMAIN x.el, NEW y, y = Removed(x, e)
  PROVE  /\ FxOK(y) /\ Only(x, y, e) /\ y.anim = x.anim /\ y.timers = x.timers /\ y.ticking = x.ticking
         /\ ~y.el[e].inDocument /\ y.el[e].visible = x.el[e].visible /\ y.el[e].queue = Nothing /\ ~y.el[e].finish
<1>1. PICK k : k = [x.el[e] EXCEPT !.inDocument = FALSE, !.queue = Nothing, !.hooks = 0, !.fxshow = Nothing, !.finish = FALSE]
  OBVIOUS
<1>2. y = [x EXCEPT !.el[e] = k]
  BY <1>1 DEF Removed
<1>3. x.el[e] \in ElementType
  BY FxParts
<1>4. k \in ElementType /\ ~k.inDocument /\ k.visible = x.el[e].visible /\ k.queue = Nothing /\ ~k.finish
  BY <1>1, <1>3 DEF ElementType, Maybe
<1> QED
  BY <1>2, <1>4, WithElement

\* Sequences of one and two calls.
LEMMA OneAndOne ==
  ASSUME NEW c, NEW d
  PROVE  <<c>> \o <<d>> = <<c, d>>
<1>1. <<c>> \in Seq({c, d}) /\ <<d>> \in Seq({c, d}) /\ <<c, d>> \in Seq({c, d})
  OBVIOUS
<1>2. PICK s : s = <<c>> \o <<d>>
  OBVIOUS
<1>3. s \in Seq({c, d}) /\ Len(s) = 2 /\ \A i \in 1..2 : s[i] = IF i <= 1 THEN c ELSE d
  BY <1>1, <1>2, ConcatProperties
<1>4. Len(<<c, d>>) = 2 /\ <<c, d>>[1] = c /\ <<c, d>>[2] = d
  OBVIOUS
<1>5. \A i \in 1..2 : s[i] = <<c, d>>[i]
  BY <1>3, <1>4
<1> QED
  BY <1>1, <1>2, <1>3, <1>4, <1>5, SeqEqual

\* Nothing before a call.
LEMMA EmptyBefore ==
  ASSUME NEW c
  PROVE  <<>> \o <<c>> = <<c>>
<1>1. <<c>> \in Seq({c})
  OBVIOUS
<1> QED
  BY <1>1, ConcatEmptySeq

\* Nothing after a call.
LEMMA EmptyAfter ==
  ASSUME NEW c
  PROVE  <<c>> \o <<>> = <<c>>
<1>1. <<c>> \in Seq({c})
  OBVIOUS
<1> QED
  BY <1>1, ConcatEmptySeq

-----------------------------------------------------------------------------
(***************************************************************************)
(* An animation begins: Began is the new one; what it leaves on the stack, *)
(* if it is over at once, is in Ended.                                     *)
(***************************************************************************)

Ended(a, queued) ==
  IF queued THEN {<<CompleteCall(a)>>} ELSE {<<CompleteCall(a), UnqueuedCall(a)>>, <<UnqueuedCall(a), CompleteCall(a)>>}

Began(x, y, e, item) ==
  LET a == Len(x.anim) + 1 IN
  /\ Len(y.anim) = a /\ DOMAIN y.anim = 1..a
  /\ \A b \in DOMAIN x.anim : y.anim[b] = x.anim[b]
  /\ y.anim[a].elem = e /\ y.anim[a].queued = item.queued
  /\ item.what \notin Moves => y.anim[a].goal = item.what
  /\ y.anim[a].state \in {"pending", "resolved"}
  /\ y.anim[a].state = "pending" => ~y.anim[a].stopped

\* An animation is made.
LEMMA NewAnimationIs ==
  ASSUME NEW x, FxOK(x), NEW e \in DOMAIN x.el, NEW item \in ItemType, NEW h \in Nat,
         NEW an, an = NewAnimation(e, item, h)
  PROVE  /\ an \in AnimationOf(DOMAIN x.el) /\ an.elem = e /\ an.queued = item.queued
         /\ an.state = "pending" /\ ~an.stopped
<1>1. item.queued \in BOOLEAN
  BY DEF ItemType
<1> QED
  BY <1>1 DEF NewAnimation, AnimationOf, Maybe

\* Animation: the element goes on, and if all is done at once its callbacks are called.
LEMMA AnimationIs ==
  ASSUME NEW x, FxOK(x), NEW e \in DOMAIN x.el, NEW item \in ItemType, NEW rest,
         Animation(x, e, item, rest),
         NEW a, a = Len(x.anim) + 1
  PROVE  /\ FxOK(fx') /\ Only(x, fx', e) /\ Began(x, fx', e, item)
         /\ SameMarks(x.el[e], fx'.el[e]) /\ fx'.el[e].queue = x.el[e].queue
         /\ item.what \notin Moves => (fx'.el[e].visible => x.el[e].visible)
         /\ \/ /\ fx'.anim[a].state = "pending" /\ fx'.timers = Append(x.timers, a) /\ run' = rest
               /\ ~x.el[e].finish
            \/ /\ fx'.anim[a].state = "resolved" /\ fx'.timers \in {x.timers, Append(x.timers, a)}
               /\ \E cs \in Ended(a, item.queued) : run' = rest \o Todo(cs)
               /\ ~x.el[e].finish => item.what \in Moves /\ ~(item.what = "show" /\ IsHidden(x.el[e]))
<1>1. PICK y : y = IF item.queued THEN x ELSE Hooked(x, e)
  OBVIOUS
<1>2. /\ FxOK(y) /\ Only(x, y, e) /\ y.anim = x.anim /\ y.timers = x.timers /\ y.ticking = x.ticking
      /\ SameMarks(x.el[e], y.el[e]) /\ y.el[e].queue = x.el[e].queue
      /\ y.el[e].visible = x.el[e].visible /\ y.el[e].fxshow = x.el[e].fxshow
  <2>1. CASE item.queued
    BY <1>1, <2>1 DEF Only, SameMarks
  <2>2. CASE ~item.queued
    <3>1. y = Hooked(x, e)
      BY <1>1, <2>2
    <3> QED
      BY <3>1, HookedIs
  <2> QED
    BY <2>1, <2>2
<1>3. PICK el : el = y.el[e]
  OBVIOUS
<1>4. e \in DOMAIN y.el /\ el \in ElementType /\ a \in Nat \ {0} /\ DOMAIN x.anim = 1..a - 1 /\ Len(x.anim) = a - 1
  <2>1. e \in DOMAIN y.el
    BY <1>2 DEF Only
  <2>2. Len(x.anim) \in Nat /\ DOMAIN x.anim = 1..Len(x.anim)
    BY FxParts
  <2> QED
    BY <1>2, <1>3, <2>1, <2>2, FxParts
<1>5. PICK h : h = el.hooks
  OBVIOUS
<1>6. h \in Nat
  BY <1>4, <1>5 DEF ElementType
<1>7. PICK an : an = NewAnimation(e, item, h)
  OBVIOUS
<1>8. /\ an \in AnimationOf(DOMAIN y.el) /\ an.elem = e /\ an.queued = item.queued
      /\ an.state = "pending" /\ ~an.stopped
  BY <1>2, <1>4, <1>6, <1>7, NewAnimationIs
<1>9. PICK p : p = Prefiltered(el, an, item.what)
  OBVIOUS
<1>10. item.what \in Whats
  BY DEF ItemType
<1>11. PICK k, bn : k = p.el /\ bn = p.anim
  OBVIOUS
<1>12. /\ k \in ElementType /\ SameMarks(el, k) /\ k.queue = el.queue
       /\ bn \in AnimationOf(DOMAIN y.el) /\ bn.elem = e /\ bn.queued = item.queued
       /\ bn.state = "pending" /\ ~bn.stopped
       /\ item.what \notin Moves => k = el /\ bn.moves /\ bn.goal = item.what
       /\ item.what = "show" /\ IsHidden(el) => bn.moves
       /\ ~bn.moves => k = el
  <2>1. an \in AnimationOf(DOMAIN y.el)
    BY <1>8
  <2>2. /\ p.el \in ElementType /\ SameMarks(el, p.el) /\ p.el.queue = el.queue
        /\ p.anim \in AnimationOf(DOMAIN y.el) /\ p.anim.elem = an.elem /\ p.anim.queued = an.queued
        /\ p.anim.state = an.state /\ p.anim.stopped = an.stopped
        /\ item.what \notin Moves => p.el = el /\ p.anim.moves /\ p.anim.goal = item.what
        /\ item.what = "show" /\ IsHidden(el) => p.anim.moves
        /\ ~p.anim.moves => p.el = el
    <3>1. el \in ElementType
      BY <1>4
    <3> QED
      BY ONLY <1>9, <1>10, <2>1, <3>1, PrefilteredIs
  <2> QED
    BY <1>8, <1>11, <2>2
<1>13. PICK hs : hs = IF item.queued THEN y.hooks ELSE Counted(y.hooks, h, 1)
  OBVIOUS
<1>14. hs \in Seq(HookType)
  <2>1. y.hooks \in Seq(HookType)
    BY <1>2, FxParts
  <2> QED
    BY <1>13, <2>1, CountedIs
<1>15. PICK z : z = [y EXCEPT !.el[e] = k, !.anim = Append(@, bn),
                     !.hooks = IF item.queued THEN @ ELSE Counted(@, h, 1)]
  OBVIOUS
<1>16. PICK t : t = [z EXCEPT !.timers = Append(@, a), !.ticking = TRUE]
  OBVIOUS
<1>17. Len(y.anim) + 1 = a
  BY <1>2
<1>18. IF ~bn.moves
       THEN fx' = Resolved(z, a) /\ run' = rest \o Todo(Beside(z, a) \o <<CompleteCall(a)>>)
       ELSE IF el.finish
       THEN fx' = Stopped(t, a, TRUE) /\ run' = rest \o Todo(StopCalls(t, a, TRUE))
       ELSE fx' = t /\ run' = rest
  BY <1>1, <1>3, <1>5, <1>7, <1>9, <1>11, <1>15, <1>16, <1>17, Zenon DEF Animation
<1>19. y = [el |-> y.el, hooks |-> y.hooks, anim |-> y.anim, timers |-> y.timers, ticking |-> y.ticking]
  BY <1>2 DEF FxOK
<1>20. z = [el |-> [y.el EXCEPT ![e] = k], hooks |-> hs, anim |-> Append(x.anim, bn), timers |-> x.timers, ticking |-> x.ticking]
  <2>1. z = [y EXCEPT !.el[e] = k, !.anim = Append(@, bn), !.hooks = IF item.queued THEN @ ELSE Counted(@, h, 1)]
    BY <1>15
  <2> QED
    BY ONLY <1>2, <1>13, <1>19, <2>1
<1>21. /\ FxOK(z) /\ Only(y, z, e) /\ z.el[e] = k /\ z.timers = x.timers
       /\ Len(z.anim) = a /\ DOMAIN z.anim = 1..a /\ z.anim[a] = bn /\ \A b \in 1..a - 1 : z.anim[b] = x.anim[b]
  <2>1. PICK w : w = [y EXCEPT !.el[e] = k]
    OBVIOUS
  <2>2. FxOK(w) /\ Only(y, w, e) /\ w.el[e] = k /\ w.timers = y.timers /\ w.ticking = y.ticking
    BY <1>2, <1>4, <1>12, <2>1, WithElement
  <2>3. w.el = z.el
    BY <1>19, <1>20, <2>1
  <2>4. PICK A : A = AnimationOf(DOMAIN z.el)
    OBVIOUS
  <2>5. DOMAIN z.el = DOMAIN y.el /\ DOMAIN y.el = DOMAIN x.el
    BY <1>2, <2>2, <2>3 DEF Only
  <2>6. x.anim \in Seq(A) /\ bn \in A
    BY <1>12, <2>4, <2>5, FxParts
  <2>7. z.anim \in Seq(A) /\ Len(z.anim) = a /\ DOMAIN z.anim = 1..a /\ z.anim[a] = bn
        /\ \A b \in 1..a - 1 : z.anim[b] = x.anim[b]
    <3>1. z.anim = Append(x.anim, bn)
      BY <1>20
    <3> QED
      BY <1>4, <2>6, <3>1, AppendProperties
  <2>8. x.timers \in Seq(1..a - 1) /\ x.ticking \in BOOLEAN
    BY <1>4, FxParts DEF FxOK
  <2>9. x.timers \in Seq(1..a)
    BY <1>4, <2>8
  <2>10. z.el \in [DOMAIN z.el -> ElementType]
    BY <2>2, <2>3 DEF FxOK
  <2>11. FxOK(z)
    BY <1>14, <1>20, <2>4, <2>7, <2>8, <2>9, <2>10 DEF FxOK
  <2> QED
    BY <1>20, <2>2, <2>3, <2>7, <2>11 DEF Only
<1>22. /\ FxOK(t) /\ t.el = z.el /\ t.anim = z.anim /\ t.timers = Append(x.timers, a)
  <2>1. t = [el |-> z.el, hooks |-> z.hooks, anim |-> z.anim, timers |-> Append(z.timers, a), ticking |-> TRUE]
    BY <1>16, <1>20
  <2>2. z.timers \in Seq(1..a) /\ a \in 1..a
    BY <1>4, <1>21, FxParts
  <2>3. Append(z.timers, a) \in Seq(1..a)
    BY <2>2
  <2> QED
    BY <1>21, <2>1, <2>3 DEF FxOK
<1>23. a \in DOMAIN z.anim /\ z.anim[a].elem = e /\ z.anim[a].state = "pending" /\ ~z.anim[a].stopped
       /\ z.anim[a].queued = item.queued /\ (item.what \notin Moves => z.anim[a].goal = item.what)
  BY <1>4, <1>12, <1>21
<1>24. Only(x, z, e) /\ SameMarks(x.el[e], z.el[e]) /\ z.el[e].queue = x.el[e].queue
       /\ (item.what \notin Moves => z.el[e].visible = x.el[e].visible)
  BY <1>2, <1>3, <1>12, <1>21 DEF Only, SameMarks
<1>25. /\ el.finish = x.el[e].finish
       /\ IsHidden(el) <=> IsHidden(x.el[e])
  BY <1>2, <1>3 DEF SameMarks, IsHidden
<1>26. CASE ~bn.moves
  <2>1. /\ fx' = Resolved(z, a) /\ run' = rest \o Todo(Beside(z, a) \o <<CompleteCall(a)>>)
    BY <1>18, <1>26
  <2>2. a \in DOMAIN z.anim
    BY <1>23
  <2>3. /\ FxOK(fx') /\ Only(z, fx', e) /\ fx'.timers = z.timers
        /\ Settles(z, fx', a, "resolved") /\ SameQueue(z.el[e], fx'.el[e])
    <3>1. PICK f : f = fx'
      OBVIOUS
    <3>2. /\ FxOK(f) /\ Only(z, f, z.anim[a].elem) /\ f.timers = z.timers
          /\ Settles(z, f, a, "resolved") /\ SameQueue(z.el[z.anim[a].elem], f.el[z.anim[a].elem])
      BY <1>21, <2>1, <2>2, <3>1, ResolvedIs
    <3> QED
      BY <1>23, <3>1, <3>2
  <2>4. Beside(z, a) \o <<CompleteCall(a)>> \in Ended(a, item.queued)
    <3>1. z.anim[a].queued => Beside(z, a) \o <<CompleteCall(a)>> = <<CompleteCall(a)>>
      BY EmptyBefore DEF Beside
    <3>2. ~z.anim[a].queued => Beside(z, a) \o <<CompleteCall(a)>> = <<UnqueuedCall(a), CompleteCall(a)>>
      BY OneAndOne DEF Beside
    <3> QED
      BY <1>23, <3>1, <3>2 DEF Ended
  <2>5. Only(x, fx', e) /\ SameMarks(x.el[e], fx'.el[e]) /\ fx'.el[e].queue = x.el[e].queue
        /\ (item.what \notin Moves => (fx'.el[e].visible => x.el[e].visible))
    BY <1>24, <2>3 DEF Only, SameQueue, SameMarks
  <2>6. Began(x, fx', e, item) /\ fx'.anim[a].state = "resolved"
    BY <1>4, <1>21, <1>23, <2>3 DEF Began, Settles
  <2> QED
    BY <1>12, <1>21, <1>25, <1>26, <2>1, <2>3, <2>4, <2>5, <2>6
<1>27. CASE bn.moves /\ el.finish
  <2>1. /\ fx' = Stopped(t, a, TRUE) /\ run' = rest \o Todo(StopCalls(t, a, TRUE))
    BY <1>18, <1>27
  <2>2. a \in DOMAIN t.anim /\ t.anim[a].state = "pending" /\ ~t.anim[a].stopped /\ t.anim[a].elem = e
    BY <1>22, <1>23
  <2>3. /\ FxOK(fx') /\ Only(t, fx', e) /\ fx'.timers = t.timers
        /\ Settles(t, fx', a, "resolved") /\ SameQueue(t.el[e], fx'.el[e])
    <3>1. PICK f : f = fx'
      OBVIOUS
    <3>2. /\ FxOK(f) /\ Only(t, f, t.anim[a].elem) /\ f.timers = t.timers
          /\ Settles(t, f, a, IF TRUE THEN "resolved" ELSE "rejected")
          /\ SameQueue(t.el[t.anim[a].elem], f.el[t.anim[a].elem])
      <4>1. FxOK(t) /\ a \in DOMAIN t.anim /\ TRUE \in BOOLEAN /\ f = Stopped(t, a, TRUE)
        BY <1>22, <2>1, <2>2, <3>1
      <4> QED
        BY ONLY <2>2, <4>1, StoppedIs
    <3> QED
      BY <2>2, <3>1, <3>2
  <2>4. StopCalls(t, a, TRUE) \in Ended(a, item.queued)
    <3>1. StopCalls(t, a, TRUE) = <<CompleteCall(a)>> \o Beside(t, a)
      BY <2>2 DEF StopCalls, DoneCalls
    <3>2. t.anim[a].queued => <<CompleteCall(a)>> \o Beside(t, a) = <<CompleteCall(a)>>
      BY EmptyAfter DEF Beside
    <3>3. ~t.anim[a].queued => <<CompleteCall(a)>> \o Beside(t, a) = <<CompleteCall(a), UnqueuedCall(a)>>
      BY OneAndOne DEF Beside
    <3> QED
      BY <1>22, <1>23, <3>1, <3>2, <3>3 DEF Ended
  <2>5. Only(x, fx', e) /\ SameMarks(x.el[e], fx'.el[e]) /\ fx'.el[e].queue = x.el[e].queue
        /\ (item.what \notin Moves => (fx'.el[e].visible => x.el[e].visible))
    BY <1>22, <1>24, <2>3 DEF Only, SameQueue, SameMarks
  <2>6. Began(x, fx', e, item) /\ fx'.anim[a].state = "resolved"
    <3>1. /\ DOMAIN fx'.anim = 1..a /\ Len(fx'.anim) = a
          /\ \A b \in 1..a - 1 : fx'.anim[b] = x.anim[b]
      BY <1>4, <1>21, <1>22, <2>3 DEF Settles
    <3>2. /\ fx'.anim[a].elem = e /\ fx'.anim[a].queued = item.queued /\ fx'.anim[a].state = "resolved"
          /\ item.what \notin Moves => fx'.anim[a].goal = item.what
      BY <1>22, <1>23, <2>3 DEF Settles
    <3> QED
      BY <1>4, <3>1, <3>2 DEF Began
  <2> QED
    BY <1>22, <1>25, <1>27, <2>1, <2>3, <2>4, <2>5, <2>6
<1>28. CASE bn.moves /\ ~el.finish
  <2>1. fx' = t /\ run' = rest
    BY <1>18, <1>28
  <2>2. Began(x, fx', e, item) /\ fx'.anim[a].state = "pending"
    BY <1>4, <1>21, <1>22, <1>23, <2>1 DEF Began
  <2>3. Only(x, fx', e) /\ SameMarks(x.el[e], fx'.el[e]) /\ fx'.el[e].queue = x.el[e].queue
        /\ (item.what \notin Moves => (fx'.el[e].visible => x.el[e].visible))
    BY <1>22, <1>24, <2>1 DEF Only
  <2> QED
    BY <1>22, <1>25, <1>28, <2>1, <2>2, <2>3
<1> QED
  BY <1>26, <1>27, <1>28

-----------------------------------------------------------------------------
(***************************************************************************)
(* The stack.                                                              *)
(***************************************************************************)

\* Which slots a stack has.
LEMMA SlotsAre ==
  ASSUME NEW E, NEW A, NEW r \in Seq(FrameType(E, A))
  PROVE  /\ \A i, d : <<i, d>> \in Slots(r) <=>
              i \in 1..Len(r) /\ r[i].f = "todo" /\ d \in 0..Len(r[i].todo) - 1
         /\ \A s \in Slots(r) : s = <<s[1], s[2]>>
BY DEF Slots

\* What is in a frame of calls.
LEMMA TodoFrameIs ==
  ASSUME NEW E, NEW A, NEW g \in FrameType(E, A), g.f = "todo"
  PROVE  /\ g.todo \in Seq(CallType(E, A)) /\ g.todo # <<>> /\ g = [f |-> "todo", todo |-> g.todo]
         /\ Len(g.todo) \in Nat \ {0}
<1>1. g \in [f : {"todo"}, todo : Seq(CallType(E, A)) \ {<<>>}]
  BY DEF FrameType
<1> QED
  BY <1>1

\* Calls make a frame.
LEMMA TodoIsFrame ==
  ASSUME NEW E, NEW A, NEW cs \in Seq(CallType(E, A)), cs # <<>>
  PROVE  [f |-> "todo", todo |-> cs] \in FrameType(E, A)
BY DEF FrameType

\* Calls and frames stay what they are when animations are added.
LEMMA TypesGrow ==
  ASSUME NEW E, NEW A, NEW B, A \subseteq B
  PROVE  /\ CallType(E, A) \subseteq CallType(E, B) /\ FrameType(E, A) \subseteq FrameType(E, B)
         /\ Seq(FrameType(E, A)) \subseteq Seq(FrameType(E, B))
<1>1. CallType(E, A) \subseteq CallType(E, B)
  BY DEF CallType
<1>2. Seq(CallType(E, A)) \subseteq Seq(CallType(E, B))
  BY <1>1, SeqMonotonic
<1>3. FrameType(E, A) \subseteq FrameType(E, B)
  BY <1>2 DEF FrameType
<1> QED
  BY <1>1, <1>3, SeqMonotonic

\* The slots of r are in q too, with their calls.
Keeps(r, q) == \A s \in Slots(r) : s \in Slots(q) /\ CallOf(q, s) = CallOf(r, s)

Pushed(r, g) == r \o <<g>>

\* A frame is pushed.
LEMMA PushIs ==
  ASSUME NEW E, NEW A, NEW r \in Seq(FrameType(E, A)), NEW g \in FrameType(E, A),
         NEW q, q = Pushed(r, g)
  PROVE  /\ q \in Seq(FrameType(E, A)) /\ Len(q) = Len(r) + 1 /\ Len(r) \in Nat
         /\ q[Len(q)] = g /\ \A i \in 1..Len(r) : q[i] = r[i]
         /\ Keeps(r, q)
         /\ \A s \in Slots(q) : s \in Slots(r) \/ (s[1] = Len(r) + 1 /\ g.f = "todo")
<1>1. <<g>> \in Seq(FrameType(E, A)) /\ Len(<<g>>) = 1 /\ <<g>>[1] = g
  OBVIOUS
<1>2. Len(r) \in Nat
  OBVIOUS
<1>3. /\ q \in Seq(FrameType(E, A)) /\ Len(q) = Len(r) + 1
      /\ \A i \in 1..Len(r) + 1 : q[i] = IF i <= Len(r) THEN r[i] ELSE <<g>>[i - Len(r)]
  BY <1>1, ConcatProperties DEF Pushed
<1>4. \A i \in 1..Len(r) : q[i] = r[i]
  BY <1>2, <1>3
<1>5. q[Len(q)] = g
  <2>1. PICK m : m = Len(r) + 1
    OBVIOUS
  <2>2. m \in 1..Len(r) + 1 /\ ~(m <= Len(r)) /\ m - Len(r) = 1
    BY <1>2, <2>1
  <2> QED
    BY <1>1, <1>3, <2>1, <2>2
<1>6. ASSUME NEW i, NEW d
      PROVE  <<i, d>> \in Slots(q) <=> <<i, d>> \in Slots(r) \/ (i = Len(r) + 1 /\ g.f = "todo" /\ d \in 0..Len(g.todo) - 1)
  <2>1. <<i, d>> \in Slots(q) <=> i \in 1..Len(q) /\ q[i].f = "todo" /\ d \in 0..Len(q[i].todo) - 1
    BY <1>3, SlotsAre
  <2>2. <<i, d>> \in Slots(r) <=> i \in 1..Len(r) /\ r[i].f = "todo" /\ d \in 0..Len(r[i].todo) - 1
    BY SlotsAre
  <2>3. i \in 1..Len(q) <=> i \in 1..Len(r) \/ i = Len(q)
    BY <1>2, <1>3
  <2> QED
    BY <1>2, <1>3, <1>4, <1>5, <2>1, <2>2, <2>3
<1>7. \A s \in Slots(r) : s = <<s[1], s[2]>> /\ s[1] \in 1..Len(r)
  BY SlotsAre
<1>8. Keeps(r, q)
  BY <1>4, <1>6, <1>7 DEF Keeps, CallOf
<1>9. \A s \in Slots(q) : s = <<s[1], s[2]>>
  BY <1>3, SlotsAre
<1>10. \A s \in Slots(q) : s \in Slots(r) \/ (s[1] = Len(r) + 1 /\ g.f = "todo")
  BY <1>6, <1>9
<1> QED
  BY <1>2, <1>3, <1>4, <1>5, <1>8, <1>10

Asked(r, cs) == r \o Todo(cs)

\* q is r and a frame.
Topped(r, q, g) == Len(q) = Len(r) + 1 /\ q[Len(q)] = g /\ \A i \in 1..Len(r) : q[i] = r[i]

\* The slots of q that r has not are those of cs.
NewSlots(r, q, cs) ==
  \A s \in Slots(q) : s \in Slots(r) \/
    \E j \in 1..Len(cs) : s = <<Len(r) + 1, Len(cs) - j>> /\ CallOf(q, s) = cs[j]

\* A frame of calls is pushed: where they are.
LEMMA PushTodoIs ==
  ASSUME NEW E, NEW A, NEW r \in Seq(FrameType(E, A)), NEW cs \in Seq(CallType(E, A)), cs # <<>>,
         NEW q, q = Asked(r, cs)
  PROVE  /\ q \in Seq(FrameType(E, A)) /\ Len(r) \in Nat
         /\ Topped(r, q, [f |-> "todo", todo |-> cs])
         /\ Keeps(r, q) /\ NewSlots(r, q, cs)
<1>1. PICK g : g = [f |-> "todo", todo |-> cs]
  OBVIOUS
<1>2. g \in FrameType(E, A) /\ q = Pushed(r, g) /\ g.f = "todo" /\ g.todo = cs
  BY <1>1, TodoIsFrame DEF Todo, Pushed, Asked
<1>3. /\ q \in Seq(FrameType(E, A)) /\ Len(q) = Len(r) + 1 /\ Len(r) \in Nat
      /\ q[Len(q)] = g /\ \A i \in 1..Len(r) : q[i] = r[i]
      /\ Keeps(r, q)
      /\ \A s \in Slots(q) : s \in Slots(r) \/ (s[1] = Len(r) + 1 /\ g.f = "todo")
  <2>1. r \in Seq(FrameType(E, A)) /\ g \in FrameType(E, A) /\ q = Pushed(r, g)
    BY <1>2
  <2>2. /\ q \in Seq(FrameType(E, A)) /\ Len(q) = Len(r) + 1 /\ Len(r) \in Nat
    BY ONLY <2>1, PushIs
  <2>3. q = Append(r, g)
    BY <2>1 DEF Pushed
  <2>4. q[Len(q)] = g /\ \A i \in 1..Len(r) : q[i] = r[i]
    BY <2>1, <2>2, <2>3, AppendProperties
  <2>5. Keeps(r, q)
    BY ONLY <2>1, PushIs
  <2>6. \A s \in Slots(q) : s \in Slots(r) \/ (s[1] = Len(r) + 1 /\ g.f = "todo")
    BY ONLY <2>1, PushIs
  <2> QED
    BY <2>2, <2>4, <2>5, <2>6
<1>4. ASSUME NEW s \in Slots(q), s[1] = Len(r) + 1
      PROVE  \E j \in 1..Len(cs) : s = <<Len(r) + 1, Len(cs) - j>> /\ CallOf(q, s) = cs[j]
  <2>1. s = <<s[1], s[2]>> /\ s[2] \in 0..Len(q[s[1]].todo) - 1
    <3>1. s = <<s[1], s[2]>>
      BY <1>3, SlotsAre
    <3>2. PICK i, d : i = s[1] /\ d = s[2]
      OBVIOUS
    <3>3. <<i, d>> \in Slots(q)
      BY <3>1, <3>2
    <3>4. d \in 0..Len(q[i].todo) - 1
      BY <1>3, <3>3, SlotsAre
    <3> QED
      BY <3>1, <3>2, <3>4
  <2>2. q[s[1]] = g /\ s[2] \in 0..Len(cs) - 1 /\ Len(cs) \in Nat
    BY <1>2, <1>3, <1>4, <2>1
  <2>3. PICK j : j = Len(cs) - s[2]
    OBVIOUS
  <2>4. j \in 1..Len(cs) /\ Len(cs) - j = s[2]
    BY <2>2, <2>3
  <2>5. CallOf(q, s) = cs[j]
    BY <1>2, <2>2, <2>3 DEF CallOf
  <2> QED
    BY <1>4, <2>1, <2>4, <2>5
<1> QED
  BY <1>1, <1>3, <1>4 DEF Topped, NewSlots

\* The frame on top goes.
LEMMA PopIs ==
  ASSUME NEW E, NEW A, NEW r \in Seq(FrameType(E, A)), r # <<>>, NEW q, q = Front(r)
  PROVE  /\ q \in Seq(FrameType(E, A)) /\ Len(q) = Len(r) - 1 /\ Len(r) \in Nat \ {0}
         /\ \A i \in 1..Len(q) : q[i] = r[i]
         /\ Keeps(q, r)
         /\ \A s \in Slots(r) : s \in Slots(q) \/ (s[1] = Len(r) /\ r[Len(r)].f = "todo")
         /\ \A s \in Slots(q) : s[1] < Len(r)
<1>1. Len(r) \in Nat \ {0}
  OBVIOUS
<1>2. /\ q \in Seq(FrameType(E, A)) /\ Len(q) = Len(r) - 1
      /\ \A i \in 1..Len(q) : q[i] = r[i]
  <2>1. \A i \in 1..Len(r) - 1 : r[i] \in FrameType(E, A)
    BY <1>1
  <2>2. q = SubSeq(r, 1, Len(r) - 1)
    BY DEF Front
  <2> QED
    <3>1. PICK m : m = Len(r) - 1
      OBVIOUS
    <3>2. m \in Nat /\ 1 \in Int /\ m \in Int
      BY <1>1, <3>1
    <3>3. \A i \in 1..m : r[i] \in FrameType(E, A)
      BY <2>1, <3>1
    <3>4. q = SubSeq(r, 1, m)
      BY <2>2, <3>1
    <3>5. /\ q \in Seq(FrameType(E, A))
          /\ Len(q) = IF 1 <= m THEN m - 1 + 1 ELSE 0
          /\ \A i \in 1..m - 1 + 1 : q[i] = r[1 + i - 1]
      BY <3>2, <3>3, <3>4, SubSeqProperties
    <3>6. m - 1 + 1 = m /\ \A i \in 1..m : 1 + i - 1 = i
      BY <3>2
    <3> QED
      BY <3>1, <3>2, <3>5, <3>6
<1>3. ASSUME NEW i, NEW d
      PROVE  /\ <<i, d>> \in Slots(r) => <<i, d>> \in Slots(q) \/ (i = Len(r) /\ r[i].f = "todo")
             /\ <<i, d>> \in Slots(q) => <<i, d>> \in Slots(r) /\ i \in 1..Len(q) /\ i < Len(r)
  <2>1. <<i, d>> \in Slots(q) <=> i \in 1..Len(q) /\ q[i].f = "todo" /\ d \in 0..Len(q[i].todo) - 1
    BY <1>2, SlotsAre
  <2>2. <<i, d>> \in Slots(r) <=> i \in 1..Len(r) /\ r[i].f = "todo" /\ d \in 0..Len(r[i].todo) - 1
    BY SlotsAre
  <2>3. i \in 1..Len(r) <=> i \in 1..Len(q) \/ i = Len(r)
    BY <1>1, <1>2
  <2>4. i \in 1..Len(q) => i < Len(r)
    BY <1>1, <1>2
  <2> QED
    BY <1>2, <2>1, <2>2, <2>3, <2>4
<1>4. (\A s \in Slots(r) : s = <<s[1], s[2]>>) /\ (\A s \in Slots(q) : s = <<s[1], s[2]>>)
  BY <1>2, SlotsAre
<1>5. Keeps(q, r)
  BY <1>2, <1>3, <1>4 DEF Keeps, CallOf
<1> QED
  BY <1>1, <1>2, <1>3, <1>4, <1>5

\* q is r without a slot.
Without(r, q, s0) ==
  /\ \A s \in Slots(q) : s \in Slots(r) /\ s # s0 /\ CallOf(q, s) = CallOf(r, s)
  /\ \A s \in Slots(r) : s # s0 => s \in Slots(q)

\* q is r with fewer calls on top.
Shorter(r, q) ==
  /\ Len(q) \in {Len(r) - 1, Len(r)} /\ \A i \in 1..Len(q) : i < Len(r) => q[i] = r[i]
  /\ Len(q) = Len(r) => q[Len(q)] = [f |-> "todo", todo |-> Tail(r[Len(r)].todo)]

CallDone(r) == Front(r) \o Todo(Tail(r[Len(r)].todo))

\* The call on top has been made.
LEMMA CallMade ==
  ASSUME NEW E, NEW A, NEW r \in Seq(FrameType(E, A)), r # <<>>, r[Len(r)].f = "todo",
         NEW c, c = Head(r[Len(r)].todo),
         NEW q, q = CallDone(r)
  PROVE  /\ q \in Seq(FrameType(E, A)) /\ Len(r) \in Nat \ {0} /\ c \in CallType(E, A)
         /\ Shorter(r, q)
         /\ \E s0 \in Slots(r) : s0[1] = Len(r) /\ CallOf(r, s0) = c /\ Without(r, q, s0)
<1>1. PICK g, cs, n : g = r[Len(r)] /\ cs = g.todo /\ n = Len(r)
  OBVIOUS
<1>2. n \in Nat \ {0} /\ g \in FrameType(E, A) /\ g.f = "todo"
  BY <1>1
<1>3. cs \in Seq(CallType(E, A)) /\ cs # <<>> /\ Len(cs) \in Nat \ {0}
  BY <1>1, <1>2, TodoFrameIs
<1>4. PICK ds : ds = Tail(cs)
  OBVIOUS
<1>5. ds \in Seq(CallType(E, A)) /\ Len(ds) = Len(cs) - 1 /\ \A i \in 1..Len(ds) : ds[i] = cs[i + 1]
  BY <1>3, <1>4, HeadTailProperties
<1>6. c = cs[1] /\ c \in CallType(E, A)
  BY <1>1, <1>3
<1>7. PICK b : b = Front(r)
  OBVIOUS
<1>8. /\ b \in Seq(FrameType(E, A)) /\ Len(b) = n - 1
      /\ \A i \in 1..Len(b) : b[i] = r[i]
      /\ Keeps(b, r)
      /\ \A s \in Slots(r) : s \in Slots(b) \/ (s[1] = n /\ g.f = "todo")
      /\ \A s \in Slots(b) : s[1] < n
  <2>1. b = Front(r)
    BY <1>7
  <2>2. b \in Seq(FrameType(E, A)) /\ Len(b) = Len(r) - 1 /\ \A i \in 1..Len(b) : b[i] = r[i]
    BY <2>1, PopIs
  <2>3. Keeps(b, r)
    BY <2>1, PopIs
  <2>4. \A s \in Slots(r) : s \in Slots(b) \/ (s[1] = Len(r) /\ r[Len(r)].f = "todo")
    BY <2>1, PopIs
  <2>5. \A s \in Slots(b) : s[1] < Len(r)
    BY <2>1, PopIs
  <2> QED
    BY <1>1, <2>2, <2>3, <2>4, <2>5
<1>9. PICK s0 : s0 = <<n, Len(cs) - 1>>
  OBVIOUS
<1>10. s0 \in Slots(r) /\ s0[1] = n /\ CallOf(r, s0) = c
  <2>1. s0 \in Slots(r)
    <3>1. Len(cs) - 1 \in 0..Len(r[n].todo) - 1 /\ n \in 1..Len(r) /\ r[n].f = "todo"
      BY <1>1, <1>2, <1>3
    <3> QED
      BY <1>9, <3>1, SlotsAre
  <2>2. s0[1] = n /\ s0[2] = Len(cs) - 1 /\ Len(cs) - (Len(cs) - 1) = 1
    BY <1>3, <1>9
  <2> QED
    BY <1>1, <1>6, <2>1, <2>2 DEF CallOf
<1>11. ASSUME NEW d PROVE <<n, d>> \in Slots(r) <=> d \in 0..Len(cs) - 1
  BY <1>1, <1>2, SlotsAre
<1>12. CASE ds = <<>>
  <2>1. q = b
    BY <1>1, <1>4, <1>7, <1>8, <1>12, ConcatEmptySeq DEF Todo, CallDone
  <2>2. Len(cs) = 1
    BY <1>3, <1>5, <1>12
  <2>3. \A s \in Slots(r) : s \in Slots(b) \/ s = s0
    <3>1. SUFFICES ASSUME NEW s \in Slots(r), s[1] = n PROVE s = s0
      BY <1>8
    <3>2. PICK d : s = <<n, d>>
      BY <3>1, SlotsAre
    <3>3. d \in 0..0
      BY <1>11, <2>2, <3>2
    <3> QED
      BY <1>9, <2>2, <3>2, <3>3
  <2>4. \A s \in Slots(b) : s \in Slots(r) /\ s # s0 /\ CallOf(b, s) = CallOf(r, s)
    BY <1>2, <1>8, <1>10 DEF Keeps
  <2>5. Without(r, q, s0)
    BY <2>1, <2>3, <2>4 DEF Without
  <2> QED
    <3>1. q \in Seq(FrameType(E, A)) /\ Len(q) = n - 1 /\ \A i \in 1..Len(q) : q[i] = r[i]
      BY <1>8, <2>1
    <3>2. Len(q) # n
      BY <1>2, <3>1
    <3> QED
      BY <1>1, <1>2, <1>6, <1>10, <2>5, <3>1, <3>2 DEF Shorter
<1>13. CASE ds # <<>>
  <2>1. q = Asked(b, ds) /\ Len(b) + 1 = n
    BY <1>1, <1>2, <1>4, <1>7, <1>8 DEF CallDone, Asked
  <2>2. /\ q \in Seq(FrameType(E, A)) /\ Len(q) = n
        /\ q[Len(q)] = [f |-> "todo", todo |-> ds] /\ \A i \in 1..Len(b) : q[i] = b[i]
    <3>1. Topped(b, q, [f |-> "todo", todo |-> ds]) /\ q \in Seq(FrameType(E, A))
      BY <1>5, <1>8, <1>13, <2>1, PushTodoIs
    <3> QED
      BY <2>1, <3>1 DEF Topped
  <2>3. Keeps(b, q)
    BY <1>5, <1>8, <1>13, <2>1, PushTodoIs
  <2>4. ASSUME NEW d PROVE <<n, d>> \in Slots(q) <=> d \in 0..Len(ds) - 1
    <3>1. q[n].f = "todo" /\ q[n].todo = ds /\ n \in 1..Len(q)
      BY <1>2, <2>2
    <3> QED
      BY <2>2, <3>1, SlotsAre
  <2>5. \A s \in Slots(q) : s \in Slots(b) \/ s[1] = n
    <3>1. NewSlots(b, q, ds)
      BY <1>5, <1>8, <1>13, <2>1, PushTodoIs
    <3> QED
      BY <2>1, <3>1 DEF NewSlots
  <2>6. ASSUME NEW s \in Slots(q), s[1] = n
        PROVE  s \in Slots(r) /\ s # s0 /\ CallOf(q, s) = CallOf(r, s)
    <3>1. PICK d : s = <<n, d>>
      BY <2>2, <2>6, SlotsAre
    <3>2. d \in 0..Len(ds) - 1 /\ s[2] = d
      BY <2>4, <3>1
    <3>3. d \in 0..Len(cs) - 1 /\ d # Len(cs) - 1 /\ Len(ds) - d \in 1..Len(ds) /\ (Len(ds) - d) + 1 = Len(cs) - d
      BY <1>3, <1>5, <3>2
    <3>4. ds[Len(ds) - d] = cs[Len(cs) - d]
      BY <1>5, <3>3
    <3>5. s # s0 /\ s \in Slots(r)
      BY <1>9, <1>11, <3>1, <3>3
    <3>6. CallOf(q, s) = ds[Len(ds) - d] /\ CallOf(r, s) = cs[Len(cs) - d]
      BY <1>1, <2>2, <2>6, <3>2 DEF CallOf
    <3> QED
      BY <3>4, <3>5, <3>6
  <2>7. ASSUME NEW s \in Slots(r), s # s0
        PROVE  s \in Slots(q)
    <3>1. CASE s \in Slots(b)
      BY <2>3, <3>1 DEF Keeps
    <3>2. CASE s[1] = n
      <4>1. PICK d : s = <<n, d>>
        BY <3>2, SlotsAre
      <4>2. d \in 0..Len(cs) - 1 /\ d # Len(cs) - 1
        BY <1>9, <1>11, <2>7, <4>1
      <4>3. d \in 0..Len(ds) - 1
        BY <1>3, <1>5, <4>2
      <4> QED
        BY <2>4, <4>1, <4>3
    <3> QED
      BY <1>8, <2>7, <3>1, <3>2
  <2>8. ASSUME NEW s \in Slots(q)
        PROVE  s \in Slots(r) /\ s # s0 /\ CallOf(q, s) = CallOf(r, s)
    <3>1. CASE s \in Slots(b)
      <4>1. CallOf(q, s) = CallOf(b, s) /\ CallOf(r, s) = CallOf(b, s) /\ s \in Slots(r)
        BY <1>8, <2>3, <3>1 DEF Keeps
      <4>2. s # s0
        BY <1>2, <1>8, <1>10, <3>1
      <4> QED
        BY <4>1, <4>2
    <3> QED
      BY <2>5, <2>6, <2>8, <3>1
  <2>9. Without(r, q, s0)
    BY <2>7, <2>8 DEF Without
  <2>10. \A i \in 1..Len(q) : i < Len(r) => q[i] = r[i]
    <3>1. \A i \in 1..n : i < n => i \in 1..Len(b)
      BY <1>2, <1>8
    <3>2. \A i \in 1..Len(b) : q[i] = r[i]
      BY <1>8, <2>2
    <3> QED
      BY <1>1, <2>2, <3>1, <3>2
  <2> QED
    BY <1>1, <1>2, <1>4, <1>6, <1>10, <2>2, <2>9, <2>10 DEF Shorter
<1> QED
  BY <1>12, <1>13

-----------------------------------------------------------------------------
(***************************************************************************)
(* What moves on.                                                          *)
(***************************************************************************)

\* The call of a slot is a call.
LEMMA CallsTyped ==
  ASSUME NEW E, NEW A, NEW r \in Seq(FrameType(E, A)), NEW s \in Slots(r)
  PROVE  CallOf(r, s) \in CallType(E, A)
<1>1. PICK i, d : s = <<i, d>> /\ i \in 1..Len(r) /\ r[i].f = "todo" /\ d \in 0..Len(r[i].todo) - 1
  <2>1. s = <<s[1], s[2]>>
    BY SlotsAre
  <2> QED
    BY <2>1, SlotsAre
<1>2. r[i] \in FrameType(E, A)
  BY <1>1
<1>3. PICK cs : cs = r[i].todo
  OBVIOUS
<1>4. cs \in Seq(CallType(E, A)) /\ Len(cs) \in Nat
  BY <1>1, <1>2, <1>3, TodoFrameIs
<1>5. Len(cs) - d \in 1..Len(cs)
  BY <1>1, <1>3, <1>4
<1>6. CallOf(r, s) = cs[Len(cs) - d]
  BY <1>1, <1>3 DEF CallOf
<1> QED
  BY <1>4, <1>5, <1>6

\* The animations of x are in y too, and none is pending again.
Extends(x, y) ==
  \A b \in DOMAIN x.anim :
    /\ b \in DOMAIN y.anim /\ y.anim[b].elem = x.anim[b].elem /\ y.anim[b].queued = x.anim[b].queued
    /\ y.anim[b].state = "pending" => x.anim[b].state = "pending"

\* q has the slots of r, but for some in T.
Within(r, q, T) == \A s \in Slots(q) : s \in T \/ (s \in Slots(r) /\ CallOf(q, s) = CallOf(r, s))

\* A complete callback is that of an animation.
LEMMA CompleteIsTyped ==
  ASSUME NEW E, NEW A, NEW c \in CallType(E, A), c.op = "complete"
  PROVE  c.a \in A
BY DEF CallType

\* What moves on in y and q did so in x and r, or is new.
LEMMA MovingIs ==
  ASSUME NEW E, NEW x, NEW r \in Seq(FrameType(E, DOMAIN x.anim)),
         NEW y, NEW q, NEW T, Extends(x, y), Within(r, q, T), NEW e, NEW m \in Moving(y, q, e)
  PROVE  \/ m \in Moving(x, r, e)
         \/ \E a \in InQueue(y, e) \ DOMAIN x.anim : m = <<0, a>>
         \/ m \in T /\ m \in Slots(q) /\ GoesOn(y, CallOf(q, m), e)
<1>1. CASE \E a \in InQueue(y, e) : m = <<0, a>>
  <2>1. PICK a \in InQueue(y, e) : m = <<0, a>>
    BY <1>1
  <2>2. a \in DOMAIN x.anim => a \in InQueue(x, e)
    BY <2>1 DEF InQueue, Extends
  <2> QED
    BY <2>1, <2>2 DEF Moving
<1>2. CASE m \in Slots(q) /\ GoesOn(y, CallOf(q, m), e)
  <2>1. SUFFICES ASSUME m \in Slots(r), CallOf(q, m) = CallOf(r, m) PROVE m \in Moving(x, r, e)
    BY <1>2 DEF Within
  <2>2. CallOf(r, m) \in CallType(E, DOMAIN x.anim)
    BY <2>1, CallsTyped
  <2>3. CallOf(r, m).op = "complete" => CallOf(r, m).a \in DOMAIN x.anim
    BY <2>2, CompleteIsTyped
  <2>4. GoesOn(x, CallOf(r, m), e)
    BY <1>2, <2>1, <2>3 DEF GoesOn, Extends
  <2> QED
    BY <2>1, <2>4 DEF Moving
<1> QED
  BY <1>1, <1>2 DEF Moving

-----------------------------------------------------------------------------
(***************************************************************************)
(* An animation starts, from the queue or beside it.                       *)
(***************************************************************************)

\* What Animation makes of x and the stack `rest': y and q.
Starts(x, y, q, e, item, rest) ==
  LET a == Len(x.anim) + 1 IN
  /\ Only(x, y, e) /\ Began(x, y, e, item) /\ SameMarks(x.el[e], y.el[e])
  /\ item.what \notin Moves => (y.el[e].visible => x.el[e].visible)
  /\ \/ y.anim[a].state = "pending" /\ y.timers = Append(x.timers, a) /\ q = rest /\ ~x.el[e].finish
     \/ /\ y.anim[a].state = "resolved" /\ y.timers \in {x.timers, Append(x.timers, a)}
        /\ \E cs \in Ended(a, item.queued) : q = Asked(rest, cs)
        /\ ~x.el[e].finish => item.what \in Moves /\ ~(item.what = "show" /\ IsHidden(x.el[e]))

\* The new slots of q.
Fresh(rest, q) == Slots(q) \ Slots(rest)

\* What is called when an animation is over at once.
LEMMA EndedIs ==
  ASSUME NEW E, NEW A, NEW a \in A, NEW w, NEW cs \in Ended(a, w)
  PROVE  /\ cs \in Seq(CallType(E, A)) /\ cs # <<>> /\ Len(cs) \in Nat
         /\ \A j \in 1..Len(cs) : cs[j] \in {CompleteCall(a), UnqueuedCall(a)}
         /\ \A j, k \in 1..Len(cs) : cs[j] = CompleteCall(a) /\ cs[k] = CompleteCall(a) => j = k
         /\ \E j \in 1..Len(cs) : cs[j] = CompleteCall(a)
         /\ w => \A j \in 1..Len(cs) : cs[j] = CompleteCall(a)
<1>1. CompleteCall(a) \in CallType(E, A) /\ UnqueuedCall(a) \in CallType(E, A) /\ CompleteCall(a) # UnqueuedCall(a)
  BY DEF CallType, CompleteCall, UnqueuedCall
<1>2. PICK c, u : c = CompleteCall(a) /\ u = UnqueuedCall(a)
  OBVIOUS
<1>3. c \in CallType(E, A) /\ u \in CallType(E, A) /\ c # u
  BY <1>1, <1>2
<1>4. /\ cs \in Seq(CallType(E, A)) /\ cs # <<>> /\ Len(cs) \in Nat
      /\ \A j \in 1..Len(cs) : cs[j] \in {c, u}
      /\ \A j, k \in 1..Len(cs) : cs[j] = c /\ cs[k] = c => j = k
      /\ \E j \in 1..Len(cs) : cs[j] = c
      /\ w => \A j \in 1..Len(cs) : cs[j] = c
  <2>0. IF w THEN cs = <<c>> ELSE cs \in {<<c, u>>, <<u, c>>}
    BY <1>2 DEF Ended
  <2>1. PICK C : C = CallType(E, A)
    OBVIOUS
  <2>2. CASE cs = <<c>>
    BY <1>3, <2>0, <2>1, <2>2
  <2>3. CASE ~w /\ cs = <<c, u>>
    BY <1>3, <2>0, <2>1, <2>3
  <2>4. CASE ~w /\ cs = <<u, c>>
    BY <1>3, <2>0, <2>1, <2>4
  <2> QED
    BY <2>0, <2>2, <2>3, <2>4
<1> QED
  BY <1>2, <1>4

\* What is new on q is the end of animation a.
EndsOf(rest, q, a, w) ==
  /\ Keeps(rest, q) /\ Within(rest, q, Fresh(rest, q))
  /\ \A s \in Fresh(rest, q) : CallOf(q, s) \in {CompleteCall(a), UnqueuedCall(a)} /\ s[1] = Len(rest) + 1
  /\ \A s, t \in Fresh(rest, q) : CallOf(q, s) = CompleteCall(a) /\ CallOf(q, t) = CompleteCall(a) => s = t
  /\ w => \A s \in Fresh(rest, q) : CallOf(q, s) = CompleteCall(a)

\* The end of animation a is pushed on the stack.
LEMMA AskedEnds ==
  ASSUME NEW E, NEW B, NEW rest \in Seq(FrameType(E, B)), NEW a \in B, NEW w, NEW cs \in Ended(a, w), NEW q, q = Asked(rest, cs)
  PROVE  /\ q \in Seq(FrameType(E, B)) /\ Len(rest) \in Nat /\ Topped(rest, q, [f |-> "todo", todo |-> cs])
         /\ EndsOf(rest, q, a, w) /\ Waits(q, CompleteCall(a))
<1>1. /\ cs \in Seq(CallType(E, B)) /\ cs # <<>> /\ Len(cs) \in Nat
      /\ \A j \in 1..Len(cs) : cs[j] \in {CompleteCall(a), UnqueuedCall(a)}
      /\ \A j, k \in 1..Len(cs) : cs[j] = CompleteCall(a) /\ cs[k] = CompleteCall(a) => j = k
      /\ \E j \in 1..Len(cs) : cs[j] = CompleteCall(a)
      /\ w => \A j \in 1..Len(cs) : cs[j] = CompleteCall(a)
  BY EndedIs
<1>2. /\ q \in Seq(FrameType(E, B)) /\ Len(rest) \in Nat
      /\ Topped(rest, q, [f |-> "todo", todo |-> cs]) /\ Keeps(rest, q) /\ NewSlots(rest, q, cs)
  BY <1>1, PushTodoIs
<1>3. Within(rest, q, Fresh(rest, q))
  BY <1>2 DEF Within, Fresh, Keeps
<1>4. \A s \in Fresh(rest, q) : \E j \in 1..Len(cs) : s = <<Len(rest) + 1, Len(cs) - j>> /\ CallOf(q, s) = cs[j]
  BY <1>2 DEF NewSlots, Fresh
<1>5. \A s \in Fresh(rest, q) : CallOf(q, s) \in {CompleteCall(a), UnqueuedCall(a)} /\ s[1] = Len(rest) + 1
  BY <1>1, <1>4
<1>6. \A s, t \in Fresh(rest, q) : CallOf(q, s) = CompleteCall(a) /\ CallOf(q, t) = CompleteCall(a) => s = t
  <2>1. SUFFICES ASSUME NEW s \in Fresh(rest, q), NEW t \in Fresh(rest, q), CallOf(q, s) = CompleteCall(a), CallOf(q, t) = CompleteCall(a)
                 PROVE  s = t
    OBVIOUS
  <2>2. PICK j \in 1..Len(cs) : s = <<Len(rest) + 1, Len(cs) - j>> /\ CallOf(q, s) = cs[j]
    BY <1>4
  <2>3. PICK k \in 1..Len(cs) : t = <<Len(rest) + 1, Len(cs) - k>> /\ CallOf(q, t) = cs[k]
    BY <1>4
  <2>4. j = k
    BY <1>1, <2>1, <2>2, <2>3
  <2> QED
    BY <2>2, <2>3, <2>4
<1>7. \E s \in Slots(q) : CallOf(q, s) = CompleteCall(a)
  <2>1. PICK j \in 1..Len(cs) : cs[j] = CompleteCall(a)
    BY <1>1
  <2>2. PICK n : n = Len(rest) + 1
    OBVIOUS
  <2>3. n \in 1..Len(q) /\ q[n].f = "todo" /\ q[n].todo = cs
    BY <1>2, <2>2 DEF Topped
  <2>4. PICK s : s = <<n, Len(cs) - j>>
    OBVIOUS
  <2>5. Len(cs) - j \in 0..Len(cs) - 1 /\ Len(cs) - (Len(cs) - j) = j
    BY <1>1, <2>1
  <2>6. s \in Slots(q)
    BY <1>2, <2>3, <2>4, <2>5, SlotsAre
  <2>7. CallOf(q, s) = cs[j]
    BY <2>3, <2>4, <2>5 DEF CallOf
  <2> QED
    BY <2>1, <2>6, <2>7
<1>8. w => \A s \in Fresh(rest, q) : CallOf(q, s) = CompleteCall(a)
  BY <1>1, <1>4
<1> QED
  BY <1>2, <1>3, <1>5, <1>6, <1>7, <1>8 DEF EndsOf, Waits

\* The stack: what waited waits, and what is new is about the animation.
LEMMA StartsStack ==
  ASSUME NEW x, FxOK(x), NEW y, NEW q, NEW e, NEW item,
         NEW rest \in Seq(FrameType(DOMAIN x.el, 1..Len(x.anim))),
         Starts(x, y, q, e, item, rest), NEW a, a = Len(x.anim) + 1
  PROVE  /\ q \in Seq(FrameType(DOMAIN y.el, 1..Len(y.anim)))
         /\ q = rest \/ \E cs \in Ended(a, item.queued) : q = Asked(rest, cs) /\ Topped(rest, q, [f |-> "todo", todo |-> cs])
         /\ EndsOf(rest, q, a, item.queued)
         /\ y.anim[a].state = "pending" => q = rest
         /\ y.anim[a].state # "pending" => Waits(q, CompleteCall(a))
<1>1. PICK E, A : E = DOMAIN x.el /\ A = 1..Len(x.anim)
  OBVIOUS
<1>2. PICK B : B = 1..Len(y.anim)
  OBVIOUS
<1>3. DOMAIN y.el = E /\ Len(y.anim) = a /\ a \in Nat /\ A \subseteq B /\ a \in B
  BY <1>1, <1>2, FxParts DEF Starts, Only, Began
<1>4. rest \in Seq(FrameType(E, B))
  BY <1>1, <1>3, TypesGrow
<1>5. CASE y.anim[a].state = "pending"
  <2>1. q = rest
    BY <1>5 DEF Starts
  <2> QED
    BY <1>2, <1>3, <1>4, <1>5, <2>1 DEF EndsOf, Keeps, Within, Fresh
<1>6. CASE y.anim[a].state # "pending"
  <2>1. PICK cs \in Ended(a, item.queued) : q = Asked(rest, cs)
    BY <1>6 DEF Starts
  <2>2. /\ q \in Seq(FrameType(E, B)) /\ Topped(rest, q, [f |-> "todo", todo |-> cs])
        /\ EndsOf(rest, q, a, item.queued) /\ Waits(q, CompleteCall(a))
    BY <1>3, <1>4, <2>1, AskedEnds
  <2> QED
    BY <1>2, <1>3, <1>6, <2>1, <2>2
<1> QED
  BY <1>5, <1>6

\* A new animation of the queue is one mover more; one beside it is none.
LEMMA StartsMoving ==
  ASSUME NEW x, FxOK(x), NEW y, NEW q, NEW e, NEW item,
         NEW rest \in Seq(FrameType(DOMAIN x.el, 1..Len(x.anim))),
         Starts(x, y, q, e, item, rest)
  PROVE  /\ \A d : d # e \/ ~item.queued => Moving(y, q, d) \subseteq Moving(x, rest, d)
         /\ \E n : \A m \in Moving(y, q, e) : m \in Moving(x, rest, e) \/ m = n
<1>1. PICK a : a = Len(x.anim) + 1
  OBVIOUS
<1>2. /\ Within(rest, q, Fresh(rest, q))
      /\ \A s \in Fresh(rest, q) : CallOf(q, s) \in {CompleteCall(a), UnqueuedCall(a)} /\ s[1] = Len(rest) + 1
      /\ \A s, t \in Fresh(rest, q) : CallOf(q, s) = CompleteCall(a) /\ CallOf(q, t) = CompleteCall(a) => s = t
      /\ y.anim[a].state = "pending" => q = rest
  <2>1. EndsOf(rest, q, a, item.queued) /\ (y.anim[a].state = "pending" => q = rest)
    BY <1>1, StartsStack
  <2> QED
    BY <2>1 DEF EndsOf
<1>3. /\ DOMAIN x.anim = 1..Len(x.anim) /\ Len(x.anim) \in Nat /\ a \notin DOMAIN x.anim
      /\ DOMAIN y.anim = DOMAIN x.anim \union {a}
  BY <1>1, FxParts DEF Starts, Began
<1>4. Extends(x, y) /\ y.anim[a].elem = e /\ y.anim[a].queued = item.queued
  BY <1>1, <1>3 DEF Starts, Began, Extends
<1>5. rest \in Seq(FrameType(DOMAIN x.el, DOMAIN x.anim))
  BY <1>3
<1>6. \A d : \A s \in Fresh(rest, q) : GoesOn(y, CallOf(q, s), d) => d = e /\ item.queued /\ CallOf(q, s) = CompleteCall(a)
  BY <1>2, <1>4 DEF GoesOn, CompleteCall, UnqueuedCall, DequeueCall
<1>7. ASSUME NEW d, NEW m \in Moving(y, q, d)
      PROVE  \/ m \in Moving(x, rest, d)
             \/ d = e /\ item.queued /\ m = <<0, a>> /\ y.anim[a].state = "pending"
             \/ d = e /\ item.queued /\ m \in Fresh(rest, q) /\ CallOf(q, m) = CompleteCall(a)
  <2>1. \/ m \in Moving(x, rest, d)
        \/ \E b \in InQueue(y, d) \ DOMAIN x.anim : m = <<0, b>>
        \/ m \in Fresh(rest, q) /\ m \in Slots(q) /\ GoesOn(y, CallOf(q, m), d)
    BY <1>2, <1>4, <1>5, <1>7, MovingIs
  <2>2. \A b \in InQueue(y, d) \ DOMAIN x.anim : b = a /\ y.anim[a].state = "pending" /\ d = e /\ item.queued
    BY <1>3, <1>4 DEF InQueue
  <2> QED
    BY <1>6, <2>1, <2>2
<1>8. ASSUME NEW d, d # e \/ ~item.queued PROVE Moving(y, q, d) \subseteq Moving(x, rest, d)
  BY <1>7, <1>8
<1>9. \E n : \A m \in Moving(y, q, e) : m \in Moving(x, rest, e) \/ m = n
  <2>1. CASE y.anim[a].state = "pending"
    <3>1. Fresh(rest, q) = {}
      BY <1>2, <2>1 DEF Fresh
    <3> QED
      BY <1>7, <3>1
  <2>2. CASE y.anim[a].state # "pending"
    <3>1. PICK n : \A m \in Fresh(rest, q) : CallOf(q, m) = CompleteCall(a) => m = n
      BY <1>2
    <3> QED
      BY <1>7, <2>2, <3>1
  <2> QED
    BY <2>1, <2>2
<1> QED
  BY <1>8, <1>9

\* Animation, in the words of Starts.
LEMMA AnimationStarts ==
  ASSUME NEW x, FxOK(x), NEW e \in DOMAIN x.el, NEW item \in ItemType, NEW rest, Animation(x, e, item, rest)
  PROVE  FxOK(fx') /\ fx'.el[e].queue = x.el[e].queue /\ Starts(x, fx', run', e, item, rest)
<1>1. PICK a : a = Len(x.anim) + 1
  OBVIOUS
<1>2. /\ FxOK(fx') /\ Only(x, fx', e) /\ Began(x, fx', e, item)
      /\ SameMarks(x.el[e], fx'.el[e]) /\ fx'.el[e].queue = x.el[e].queue
      /\ item.what \notin Moves => (fx'.el[e].visible => x.el[e].visible)
      /\ \/ /\ fx'.anim[a].state = "pending" /\ fx'.timers = Append(x.timers, a) /\ run' = rest
            /\ ~x.el[e].finish
         \/ /\ fx'.anim[a].state = "resolved" /\ fx'.timers \in {x.timers, Append(x.timers, a)}
            /\ \E cs \in Ended(a, item.queued) : run' = rest \o Todo(cs)
            /\ ~x.el[e].finish => item.what \in Moves /\ ~(item.what = "show" /\ IsHidden(x.el[e]))
  BY <1>1, AnimationIs, SMTT(30)
<1> QED
  BY <1>1, <1>2 DEF Starts, Asked

\* The call that is made next.
LEMMA TopCall ==
  ASSUME RunOK, NEW op, CallIs(op)
  PROVE  /\ run # <<>> /\ run[Len(run)].f = "todo" /\ Call = Head(run[Len(run)].todo)
         /\ Call \in CallType(Elem, 1..Len(fx.anim)) /\ Call.op = op
         /\ AfterCall = CallDone(run)
<1>1. run # <<>> /\ run[Len(run)].f = "todo" /\ Call = Head(run[Len(run)].todo) /\ Call.op = op
  BY DEF CallIs, TopIs, Top, Call
<1>2. AfterCall = CallDone(run)
  BY DEF AfterCall, CallDone, Below, Top
<1>3. Call \in CallType(Elem, 1..Len(fx.anim))
  <2>1. run \in Seq(FrameType(Elem, 1..Len(fx.anim)))
    BY DEF RunOK, Elem
  <2>2. PICK q : q = CallDone(run)
    OBVIOUS
  <2> QED
    BY <1>1, <2>1, <2>2, CallMade
<1> QED
  BY <1>1, <1>2, <1>3

\* The stack without the call that is made.
LEMMA RestOK ==
  ASSUME RunOK, run # <<>>, run[Len(run)].f = "todo", NEW rest, rest = CallDone(run)
  PROVE  /\ rest \in Seq(FrameType(DOMAIN fx.el, 1..Len(fx.anim))) /\ Shorter(run, rest)
         /\ \E s0 \in Slots(run) : s0[1] = Len(run) /\ CallOf(run, s0) = Head(run[Len(run)].todo) /\ Without(run, rest, s0)
<1>1. PICK E, A : E = DOMAIN fx.el /\ A = 1..Len(fx.anim)
  OBVIOUS
<1>2. PICK r : r = run
  OBVIOUS
<1>3. r \in Seq(FrameType(E, A)) /\ r # <<>> /\ r[Len(r)].f = "todo"
  BY <1>1, <1>2 DEF RunOK
<1>4. PICK c : c = Head(r[Len(r)].todo)
  OBVIOUS
<1>5. /\ rest \in Seq(FrameType(E, A)) /\ Shorter(r, rest)
      /\ \E s0 \in Slots(r) : s0[1] = Len(r) /\ CallOf(r, s0) = c /\ Without(r, rest, s0)
  BY <1>2, <1>3, <1>4, CallMade
<1> QED
  BY <1>1, <1>2, <1>4, <1>5

\* Nothing is left in the queue: it stays, or becomes, empty.
Empties(x, y, q, e, rest) ==
  /\ y.anim = x.anim /\ y.timers = x.timers /\ Queue(y, e) = <<>> /\ y.el[e].visible = x.el[e].visible
  /\ Queue(x, e) \in {<<>>, <<Sentinel>>} /\ q = rest

\* The next in the queue starts.
StartsNext(x, y, q, e, rest) ==
  \E item \in ItemType :
    /\ item.queued /\ Starts(x, y, q, e, item, rest) /\ HasSentinel(y, e)
    /\ Queue(x, e) \notin {<<>>, <<Sentinel>>}
    /\ \A i \in ItemType : Queue(x, e) = <<i>> => i = item /\ Queue(y, e) = <<Sentinel>>

\* What Queue says.
LEMMA QueueIs ==
  ASSUME NEW x, FxOK(x), NEW e \in DOMAIN x.el
  PROVE  /\ Queue(x, e) \in Seq(Place)
         /\ x.el[e].queue \in Seq(Place) => Queue(x, e) = x.el[e].queue
<1>1. x.el[e] \in ElementType
  BY FxParts
<1>2. Nothing \notin Seq(Place)
  BY EffectsAssumption DEF Place, ItemType, Whats, Sentinel
<1>3. x.el[e].queue \in Seq(Place) \union {Nothing}
  BY <1>1 DEF ElementType, Maybe
<1>4. <<>> \in Seq(Place)
  OBVIOUS
<1> QED
  BY <1>2, <1>3, <1>4 DEF Queue

\* The sentinel is no item.
LEMMA SentinelIs == Sentinel \in Place /\ Sentinel \notin ItemType
<1>1. \A i \in ItemType : "queued" \in DOMAIN i
  BY DEF ItemType
<1>2. "queued" \notin DOMAIN Sentinel
  BY DEF Sentinel
<1> QED
  BY <1>1, <1>2 DEF Place

\* What is taken from a queue, and what is left.
LEMMA TakenIs ==
  ASSUME NEW x, FxOK(x), QueuesOK(x), NEW e \in DOMAIN x.el, NEW q, q = Queue(x, e), 
         NEW rest, rest = Waiting(q)
  PROVE  /\ rest \in Seq(ItemType) /\ \A j \in 1..Len(rest) : rest[j].queued
         /\ rest = <<>> => q \in {<<>>, <<Sentinel>>}
         /\ rest # <<>> => q \notin {<<>>, <<Sentinel>>} /\ \A i \in ItemType : q = <<i>> => rest = q
<1>1. q \in Seq(Place) /\ Len(q) \in Nat
  BY QueueIs
<1>2. \A j \in 1..Len(q) : (q[j] \in ItemType /\ q[j].queued) \/ (j = 1 /\ q[1] = Sentinel)
  BY DEF QueuesOK
<1>3. CASE q = <<>>
  BY <1>3 DEF Waiting
<1>4. CASE q # <<>> /\ Head(q) = Sentinel
  <2>1. rest = Tail(q) /\ q[1] = Sentinel
    BY <1>1, <1>4 DEF Waiting
  <2>2. /\ rest \in Seq(Place) /\ Len(rest) = Len(q) - 1 /\ \A j \in 1..Len(rest) : rest[j] = q[j + 1]
    BY <1>1, <1>4, <2>1, HeadTailProperties
  <2>3. \A j \in 1..Len(rest) : rest[j] \in ItemType /\ rest[j].queued
    BY <1>1, <1>2, <2>2
  <2>4. rest \in Seq(ItemType) /\ Len(rest) \in Nat
    <3>1. PICK n : n = Len(rest)
      OBVIOUS
    <3>2. n \in Nat /\ rest = [j \in 1..n |-> rest[j]]
      BY <2>2, <3>1
    <3>3. \A j \in 1..n : rest[j] \in ItemType
      BY <2>3, <3>1
    <3>4. rest \in [1..n -> ItemType]
      BY ONLY <3>2, <3>3
    <3>5. rest \in Seq(ItemType)
      BY ONLY <3>2, <3>4, SeqDef
    <3> QED
      BY <3>1, <3>2, <3>5
  <2>5. rest = <<>> => q = <<Sentinel>>
    <3>1. SUFFICES ASSUME rest = <<>> PROVE q = <<Sentinel>>
      OBVIOUS
    <3>2. Len(rest) = 0
      BY ONLY <3>1
    <3>3. Len(q) = 1
      BY <1>1, <2>2, <3>2
    <3> QED
      BY <1>1, <2>1, <3>3
  <2>6. \A i \in ItemType : q # <<i>>
    BY <2>1, SentinelIs
  <2>7. rest # <<>> => q # <<Sentinel>>
    <3>1. SUFFICES ASSUME q = <<Sentinel>> PROVE rest = <<>>
      OBVIOUS
    <3>2. Len(q) = 1
      BY <3>1
    <3> QED
      BY <2>2, <3>2
  <2> QED
    BY <1>4, <2>3, <2>4, <2>5, <2>6, <2>7
<1>5. CASE q # <<>> /\ Head(q) # Sentinel
  <2>1. rest = q /\ q[1] # Sentinel
    BY <1>1, <1>5 DEF Waiting
  <2>2. \A j \in 1..Len(q) : q[j] \in ItemType /\ q[j].queued
    BY <1>2, <2>1
  <2>3. q \in Seq(ItemType)
    BY <1>1, <2>2
  <2>4. q # <<Sentinel>>
    BY <2>1
  <2> QED
    BY <1>5, <2>1, <2>2, <2>3, <2>4
<1> QED
  BY <1>3, <1>4, <1>5

\* A queue is set.
LEMMA WithQueueIs ==
  ASSUME NEW x, FxOK(x), NEW e \in DOMAIN x.el, NEW q \in Seq(Place), NEW y, y = WithQueue(x, e, q)
  PROVE  /\ FxOK(y) /\ Only(x, y, e) /\ y.anim = x.anim /\ y.timers = x.timers /\ y.ticking = x.ticking
         /\ SameMarks(x.el[e], y.el[e]) /\ y.el[e].queue = q /\ Queue(y, e) = q
         /\ y.el[e].visible = x.el[e].visible
<1>1. PICK k : k = [x.el[e] EXCEPT !.queue = q]
  OBVIOUS
<1>2. x.el[e] \in ElementType
  BY FxParts
<1>3. k \in ElementType /\ k.queue = q /\ SameMarks(x.el[e], k) /\ k.visible = x.el[e].visible
  BY <1>1, <1>2 DEF ElementType, Maybe, SameMarks
<1>4. y = [x EXCEPT !.el[e] = k]
  <2>1. x = [el |-> x.el, hooks |-> x.hooks, anim |-> x.anim, timers |-> x.timers, ticking |-> x.ticking]
    BY DEF FxOK
  <2> QED
    BY <1>1, <2>1 DEF WithQueue
<1>5. /\ FxOK(y) /\ Only(x, y, e) /\ y.el[e] = k /\ y.anim = x.anim /\ y.timers = x.timers /\ y.ticking = x.ticking
  <2>1. FxOK(x) /\ e \in DOMAIN x.el /\ k \in ElementType
    BY <1>3
  <2> QED
    BY ONLY <1>4, <2>1, WithElement
<1>6. Queue(y, e) = q
  <2>1. e \in DOMAIN y.el
    BY <1>5 DEF Only
  <2> QED
    BY <1>3, <1>5, <2>1, QueueIs
<1> QED
  BY <1>3, <1>5, <1>6

\* A dequeue is that of an element.
LEMMA DequeueTyped ==
  ASSUME NEW E, NEW A, NEW c \in CallType(E, A), c.op = "dequeue"
  PROVE  c.e \in E /\ c = DequeueCall(c.e)
BY DEF CallType, DequeueCall

\* jQuery.dequeue: nothing was left in the queue, or the next starts behind a sentinel.
LEMMA DequeueIs ==
  ASSUME FxOK(fx), RunOK, QueuesOK(fx), DoDequeue, NEW e, e = Call.e
  PROVE  /\ e \in Elem /\ run # <<>> /\ run[Len(run)].f = "todo" /\ Head(run[Len(run)].todo) = DequeueCall(e)
         /\ FxOK(fx') /\ QueuesOK(fx') /\ Only(fx, fx', e) /\ SameMarks(fx.el[e], fx'.el[e])
         /\ \/ Empties(fx, fx', run', e, CallDone(run))
            \/ StartsNext(fx, fx', run', e, CallDone(run))
<1>1. CallIs("dequeue")
  BY DEF DoDequeue
<1>2. /\ run # <<>> /\ run[Len(run)].f = "todo" /\ Call = Head(run[Len(run)].todo)
      /\ Call \in CallType(Elem, 1..Len(fx.anim)) /\ Call.op = "dequeue"
      /\ AfterCall = CallDone(run)
  BY <1>1, TopCall
<1>3. e \in Elem /\ Call = DequeueCall(e)
  BY <1>2, DequeueTyped
<1>4. PICK x, q, rest, done : x = Hooked(fx, e) /\ q = Queue(fx, e) /\ done = CallDone(run)
                              /\ rest = Waiting(q)
  OBVIOUS
<1>5. PICK emptied : emptied = Emptied(x, e)
  OBVIOUS
<1>6. PICK h : h = x.el[e].hooks
  OBVIOUS
<1>7. /\ FxOK(x) /\ Only(fx, x, e) /\ x.anim = fx.anim /\ x.timers = fx.timers
      /\ SameMarks(fx.el[e], x.el[e]) /\ x.el[e].queue = fx.el[e].queue
      /\ x.el[e].visible = fx.el[e].visible
  <2>1. FxOK(fx) /\ e \in DOMAIN fx.el /\ x = Hooked(fx, e)
    BY <1>3, <1>4 DEF Elem
  <2> QED
    BY ONLY <2>1, HookedIs
<1>8. IF rest = <<>>
      THEN fx' = EmptyFired(emptied, e, h) /\ run' = done
      ELSE Animation(WithQueue(x, e, WithSentinel(rest)), e, Head(rest), done)
  <2>2. IF rest = <<>>
        THEN fx' = EmptyFired(emptied, e, x.el[e].hooks) /\ run' = AfterCall
        ELSE Animation(WithQueue(x, e, WithSentinel(rest)), e, Head(rest), AfterCall)
    <3>1. Queue(x, e) = q
      BY <1>4, <1>7 DEF Queue
    <3> QED
      BY <1>4, <1>5, <3>1 DEF DoDequeue
  <2> QED
    BY <1>2, <1>4, <1>6, <2>2
<1>9. e \in DOMAIN x.el
  BY <1>3, <1>7 DEF Only, Elem
<1>10. /\ rest \in Seq(ItemType) /\ \A j \in 1..Len(rest) : rest[j].queued
       /\ rest = <<>> => q \in {<<>>, <<Sentinel>>}
       /\ rest # <<>> => q \notin {<<>>, <<Sentinel>>} /\ \A i \in ItemType : q = <<i>> => rest = q
  <2>1. /\ FxOK(fx) /\ QueuesOK(fx) /\ e \in DOMAIN fx.el /\ q = Queue(fx, e)
        /\ rest = Waiting(q)
    BY <1>3, <1>4 DEF Elem
  <2> QED
    BY ONLY <2>1, TakenIs
<1>11. ASSUME Only(fx, fx', e),
              \A j \in 1..Len(Queue(fx', e)) : (Queue(fx', e)[j] \in ItemType /\ Queue(fx', e)[j].queued)
                                               \/ (j = 1 /\ Queue(fx', e)[1] = Sentinel)
       PROVE  QueuesOK(fx')
  <2>1. \A d \in DOMAIN fx.el \ {e} : Queue(fx', d) = Queue(fx, d)
    BY <1>11 DEF Only, Queue
  <2> QED
    BY <1>11, <2>1 DEF Only, QueuesOK
<1>12. CASE rest = <<>>
  <2>1. fx' = EmptyFired(emptied, e, h) /\ run' = done
    BY <1>8, <1>12
  <2>0. Queue(x, e) = q
    BY <1>4, <1>7 DEF Queue
  <2>2. /\ FxOK(emptied) /\ Only(x, emptied, e) /\ emptied.anim = x.anim /\ emptied.timers = x.timers
        /\ SameMarks(x.el[e], emptied.el[e]) /\ Queue(emptied, e) = <<>>
        /\ emptied.el[e].visible = x.el[e].visible
    <3>1. CASE q = <<>>
      <4>1. emptied = x
        BY <1>5, <2>0, <3>1 DEF Emptied
      <4>2. Queue(x, e) = <<>>
        BY <2>0, <3>1
      <4> QED
        BY <1>7, <4>1, <4>2 DEF Only, SameMarks
    <3>2. CASE q # <<>>
      <4>1. emptied = WithQueue(x, e, <<>>) /\ <<>> \in Seq(Place)
        BY <1>5, <2>0, <3>2 DEF Emptied
      <4>2. PICK none : none = <<>>
        OBVIOUS
      <4>3. emptied = WithQueue(x, e, none) /\ none \in Seq(Place)
        BY ONLY <4>1, <4>2
      <4> QED
        <5>1. /\ FxOK(emptied) /\ Only(x, emptied, e) /\ emptied.anim = x.anim /\ emptied.timers = x.timers
              /\ SameMarks(x.el[e], emptied.el[e]) /\ Queue(emptied, e) = none
              /\ emptied.el[e].visible = x.el[e].visible
          BY ONLY <1>7, <1>9, <4>3, WithQueueIs
        <5> QED
          BY <4>2, <5>1
    <3> QED
      BY <3>1, <3>2
  <2>3. e \in DOMAIN emptied.el
    BY <1>9, <2>2 DEF Only
  <2>4. /\ FxOK(fx') /\ Only(emptied, fx', e) /\ fx'.anim = emptied.anim /\ fx'.timers = emptied.timers
        /\ SameMarks(emptied.el[e], fx'.el[e]) /\ Queue(fx', e) = <<>>
        /\ fx'.el[e].visible = emptied.el[e].visible
    <3>1. PICK y : y = fx'
      OBVIOUS
    <3>2. y = EmptyFired(emptied, e, h)
      BY <2>1, <3>1
    <3>3. /\ FxOK(y) /\ Only(emptied, y, e) /\ y.anim = emptied.anim /\ y.timers = emptied.timers
          /\ SameMarks(emptied.el[e], y.el[e]) /\ Queue(y, e) = <<>>
          /\ y.el[e].visible = emptied.el[e].visible
      BY <2>2, <2>3, <3>2, EmptyFiredIs
    <3> QED
      BY <3>1, <3>3
  <2>5. Only(fx, fx', e) /\ SameMarks(fx.el[e], fx'.el[e])
    BY <1>7, <2>2, <2>4 DEF Only, SameMarks
  <2>6. QueuesOK(fx')
    BY <1>11, <2>4, <2>5
  <2>7. Empties(fx, fx', run', e, done)
    BY <1>4, <1>7, <1>10, <1>12, <2>1, <2>2, <2>4 DEF Empties
  <2> QED
    BY <1>2, <1>3, <1>4, <2>4, <2>5, <2>6, <2>7, Zenon
<1>13. CASE rest # <<>>
  <2>1. PICK item, left : item = Head(rest) /\ left = WithSentinel(rest)
    OBVIOUS
  <2>2. PICK z : z = WithQueue(x, e, left)
    OBVIOUS
  <2>3. Animation(z, e, item, done)
    BY <1>8, <1>13, <2>1, <2>2
  <2>4. item \in ItemType /\ item.queued /\ item = rest[1] /\ Len(rest) \in Nat \ {0}
    BY <1>10, <1>13, <2>1
  <2>5. /\ left \in Seq(Place) /\ left # <<>> /\ Head(left) = Sentinel /\ Len(left) \in Nat
        /\ \A j \in 1..Len(left) : (left[j] \in ItemType /\ left[j].queued) \/ (j = 1 /\ left[1] = Sentinel)
        /\ Len(rest) = 1 => left = <<Sentinel>>
    <3>1. PICK t : t = Tail(rest)
      OBVIOUS
    <3>2. t \in Seq(ItemType) /\ Len(t) = Len(rest) - 1 /\ \A j \in 1..Len(t) : t[j] = rest[j + 1]
      BY <1>10, <1>13, <3>1, HeadTailProperties
    <3>3. PICK one : one = <<Sentinel>>
      OBVIOUS
    <3>4. one \in Seq(Place) /\ Len(one) = 1 /\ one[1] = Sentinel
      BY <3>3, SentinelIs
    <3>5. t \in Seq(Place)
      BY <3>2 DEF Place
    <3>6. left = one \o t
      BY <2>1, <3>1, <3>3 DEF WithSentinel
    <3>7. /\ left \in Seq(Place) /\ Len(left) = Len(one) + Len(t)
          /\ \A j \in 1..Len(one) + Len(t) : left[j] = IF j <= Len(one) THEN one[j] ELSE t[j - Len(one)]
      BY <3>4, <3>5, <3>6, ConcatProperties
    <3>8. Len(t) \in Nat /\ Len(left) = 1 + Len(t) /\ left[1] = Sentinel
      BY <2>4, <3>2, <3>4, <3>7
    <3>9. \A j \in 2..Len(left) : left[j] = t[j - 1] /\ j - 1 \in 1..Len(t) /\ t[j - 1] = rest[j] /\ j \in 1..Len(rest)
      BY <2>4, <3>2, <3>4, <3>7, <3>8
    <3>10. \A j \in 2..Len(left) : left[j] \in ItemType /\ left[j].queued
      BY <1>10, <3>9
    <3>11. \A j \in 1..Len(left) : j = 1 \/ j \in 2..Len(left)
      BY <3>8
    <3>12. Len(rest) = 1 => left = <<Sentinel>>
      BY <3>2, <3>7, <3>8
    <3> QED
      BY <3>7, <3>8, <3>10, <3>11, <3>12
  <2>6. /\ FxOK(z) /\ Only(x, z, e) /\ z.anim = x.anim /\ z.timers = x.timers
        /\ SameMarks(x.el[e], z.el[e]) /\ z.el[e].queue = left /\ z.el[e].visible = x.el[e].visible
    BY <1>7, <1>9, <2>2, <2>5, WithQueueIs
  <2>7. e \in DOMAIN z.el
    BY <1>9, <2>6 DEF Only
  <2>8. FxOK(fx') /\ fx'.el[e].queue = left /\ Starts(z, fx', run', e, item, done)
    BY <2>3, <2>4, <2>6, <2>7, AnimationStarts
  <2>9. Only(fx, z, e) /\ SameMarks(fx.el[e], z.el[e]) /\ z.anim = fx.anim /\ z.timers = fx.timers
        /\ z.el[e].visible = fx.el[e].visible
    BY <1>7, <2>6 DEF Only, SameMarks
  <2>10. Starts(fx, fx', run', e, item, done)
    <3>1. Only(fx, fx', e) /\ SameMarks(fx.el[e], fx'.el[e]) /\ z.el[e].finish = fx.el[e].finish
          /\ (IsHidden(z.el[e]) <=> IsHidden(fx.el[e]))
      BY <2>8, <2>9 DEF Starts, Only, SameMarks, IsHidden
    <3>2. Began(fx, fx', e, item)
      BY <2>8, <2>9 DEF Starts, Began
    <3> QED
      BY <2>8, <2>9, <3>1, <3>2 DEF Starts
  <2>11. Queue(fx', e) = left /\ Only(fx, fx', e) /\ SameMarks(fx.el[e], fx'.el[e])
    <3>1. Only(fx, fx', e) /\ SameMarks(fx.el[e], fx'.el[e])
      BY <2>10 DEF Starts
    <3>2. e \in DOMAIN fx'.el
      BY <1>3, <3>1 DEF Only, Elem
    <3> QED
      BY <2>5, <2>8, <3>1, <3>2, QueueIs
  <2>12. QueuesOK(fx')
    BY <1>11, <2>5, <2>11
  <2>13. \A i \in ItemType : q = <<i>> => i = item /\ left = <<Sentinel>>
    BY <1>10, <1>13, <2>4, <2>5
  <2>14. StartsNext(fx, fx', run', e, done)
    BY <1>4, <1>10, <1>13, <2>4, <2>5, <2>10, <2>11, <2>13 DEF StartsNext, HasSentinel
  <2> QED
    BY <1>2, <1>3, <1>4, <2>8, <2>11, <2>12, <2>14, Zenon
<1> QED
  BY <1>12, <1>13

-----------------------------------------------------------------------------
(***************************************************************************)
(* The tick.                                                               *)
(***************************************************************************)

\* The slots are the same.
SameSlots(r, q) == Keeps(r, q) /\ Keeps(q, r)

\* A frame without calls is pushed, popped, or takes the place of one.
LEMMA PushPlain ==
  ASSUME NEW E, NEW A, NEW r \in Seq(FrameType(E, A)), NEW g \in FrameType(E, A), g.f # "todo",
         NEW q, q = Pushed(r, g)
  PROVE  q \in Seq(FrameType(E, A)) /\ Topped(r, q, g) /\ SameSlots(r, q)
<1>1. q \in Seq(FrameType(E, A)) /\ Len(q) = Len(r) + 1 /\ Len(r) \in Nat
  BY PushIs
<1>2. Keeps(r, q)
  BY PushIs
<1>3. \A s \in Slots(q) : s \in Slots(r) \/ (s[1] = Len(r) + 1 /\ g.f = "todo")
  BY PushIs
<1>4. Keeps(q, r)
  BY <1>2, <1>3 DEF Keeps
<1>5. q = Append(r, g)
  BY DEF Pushed
<1>6. q[Len(q)] = g /\ \A i \in 1..Len(r) : q[i] = r[i]
  BY <1>1, <1>5, AppendProperties
<1> QED
  BY <1>1, <1>2, <1>4, <1>6 DEF SameSlots, Topped

\* A frame without calls is popped.
LEMMA PopPlain ==
  ASSUME NEW E, NEW A, NEW r \in Seq(FrameType(E, A)), r # <<>>, r[Len(r)].f # "todo", NEW q, q = Front(r)
  PROVE  /\ q \in Seq(FrameType(E, A)) /\ Len(q) = Len(r) - 1 /\ Len(r) \in Nat \ {0}
         /\ \A i \in 1..Len(q) : q[i] = r[i]
         /\ SameSlots(r, q)
<1>1. q \in Seq(FrameType(E, A)) /\ Len(q) = Len(r) - 1 /\ Len(r) \in Nat \ {0} /\ \A i \in 1..Len(q) : q[i] = r[i]
  BY PopIs
<1>2. Keeps(q, r)
  BY PopIs
<1>3. \A s \in Slots(r) : s \in Slots(q) \/ (s[1] = Len(r) /\ r[Len(r)].f = "todo")
  BY PopIs
<1>4. Keeps(r, q)
  BY <1>2, <1>3 DEF Keeps
<1> QED
  BY <1>1, <1>2, <1>4 DEF SameSlots

\* q is r with another frame on top.
Retopped(r, q, g) == Len(q) = Len(r) /\ q[Len(q)] = g /\ \A i \in 1..Len(r) : i < Len(r) => q[i] = r[i]

\* ... or replaced.
LEMMA Retop ==
  ASSUME NEW E, NEW A, NEW r \in Seq(FrameType(E, A)), r # <<>>, r[Len(r)].f # "todo",
         NEW g \in FrameType(E, A), g.f # "todo", NEW q, q = Pushed(Front(r), g)
  PROVE  q \in Seq(FrameType(E, A)) /\ Retopped(r, q, g) /\ SameSlots(r, q)
<1>1. PICK b : b = Front(r)
  OBVIOUS
<1>2. /\ b \in Seq(FrameType(E, A)) /\ Len(b) = Len(r) - 1 /\ Len(r) \in Nat \ {0}
      /\ \A i \in 1..Len(b) : b[i] = r[i]
      /\ SameSlots(r, b)
  BY <1>1, PopPlain
<1>3. q \in Seq(FrameType(E, A)) /\ Topped(b, q, g) /\ SameSlots(b, q)
  BY <1>1, <1>2, PushPlain
<1>4. SameSlots(r, q)
  BY <1>2, <1>3 DEF SameSlots, Keeps
<1>5. Len(q) = Len(r) /\ q[Len(q)] = g /\ \A i \in 1..Len(b) : q[i] = r[i]
  BY <1>2, <1>3 DEF Topped
<1>6. \A i \in 1..Len(r) : i < Len(r) => i \in 1..Len(b)
  BY <1>2
<1> QED
  BY <1>3, <1>4, <1>5, <1>6 DEF Retopped

\* A frame of the tick is a frame.
LEMMA TickFrameIs ==
  ASSUME NEW E, NEW A, NEW i \in Nat \ {0}, NEW over \in A \union {0}
  PROVE  TickFrame(i, over) \in FrameType(E, A) /\ TickFrame(i, over).f # "todo"
BY DEF TickFrame, FrameType

\* ... and every frame of the tick is such a one.
LEMMA TickTyped ==
  ASSUME NEW E, NEW A, NEW g \in FrameType(E, A), g.f = "tick"
  PROVE  g = TickFrame(g.i, g.over) /\ g.i \in Nat \ {0} /\ g.over \in A \union {0}
BY DEF TickFrame, FrameType

\* What is called when an animation comes to its end.
LEMMA DoneCallsIs ==
  ASSUME NEW x, NEW a
  PROVE  DoneCalls(x, a) \in Ended(a, x.anim[a].queued)
<1>1. DoneCalls(x, a) = <<CompleteCall(a)>> \o Beside(x, a)
  BY DEF DoneCalls
<1>2. x.anim[a].queued => DoneCalls(x, a) = <<CompleteCall(a)>>
  BY <1>1, EmptyAfter DEF Beside
<1>3. ~x.anim[a].queued => DoneCalls(x, a) = <<CompleteCall(a), UnqueuedCall(a)>>
  BY <1>1, OneAndOne DEF Beside
<1> QED
  BY <1>2, <1>3 DEF Ended

\* The animations are the same, but for how far they are.
SameAnims(x, y) ==
  /\ DOMAIN y.anim = DOMAIN x.anim /\ Len(y.anim) = Len(x.anim)
  /\ \A b \in DOMAIN x.anim :
       /\ y.anim[b].elem = x.anim[b].elem /\ y.anim[b].queued = x.anim[b].queued /\ y.anim[b].goal = x.anim[b].goal
       /\ y.anim[b].state = x.anim[b].state /\ y.anim[b].stopped = x.anim[b].stopped

\* An animation is further.
LEMMA PercentIs ==
  ASSUME NEW x, FxOK(x), NEW a \in DOMAIN x.anim, NEW p \in 0..2, NEW y, y = [x EXCEPT !.anim[a].percent = p]
  PROVE  /\ FxOK(y) /\ y.el = x.el /\ y.timers = x.timers /\ y.ticking = x.ticking /\ SameAnims(x, y)
         /\ \A b \in DOMAIN x.anim \ {a} : y.anim[b] = x.anim[b]
<1>1. PICK an, bn : an = x.anim[a] /\ bn = [an EXCEPT !.percent = p]
  OBVIOUS
<1>2. an \in AnimationOf(DOMAIN x.el)
  BY <1>1, FxParts
<1>3. bn \in AnimationOf(DOMAIN x.el) /\ bn.elem = an.elem /\ bn.queued = an.queued /\ bn.goal = an.goal
      /\ bn.state = an.state /\ bn.stopped = an.stopped
  BY <1>1, <1>2 DEF AnimationOf
<1>4. PICK z : z = [x EXCEPT !.anim[a] = bn]
  OBVIOUS
<1>5. y = z
  <2>1. x = [el |-> x.el, hooks |-> x.hooks, anim |-> x.anim, timers |-> x.timers, ticking |-> x.ticking]
    BY DEF FxOK
  <2> QED
    BY <1>1, <1>4, <2>1
<1>6. /\ FxOK(z) /\ z.el = x.el /\ z.timers = x.timers /\ z.ticking = x.ticking
      /\ DOMAIN z.anim = DOMAIN x.anim /\ Len(z.anim) = Len(x.anim) /\ z.anim[a] = bn
      /\ \A b \in DOMAIN x.anim \ {a} : z.anim[b] = x.anim[b]
  <2>1. FxOK(x) /\ a \in DOMAIN x.anim /\ bn \in AnimationOf(DOMAIN x.el)
    BY <1>3
  <2> QED
    BY ONLY <1>4, <2>1, WithAnimation, SMTT(60)
<1> QED
  BY <1>1, <1>3, <1>5, <1>6, SMTT(30) DEF SameAnims

\* A timer is called: an animation goes on, or is resolved.
Goes(x, y, r, q, a) ==
  /\ SameAnims(x, y)
  /\ \E i \in Nat \ {0}, over \in {0, a} :
       /\ q = Pushed(Front(r), TickFrame(i, over))
       /\ over # 0 => x.anim[a].stopped \/ x.anim[a].state # "pending"

Resolves(x, y, r, q, a) ==
  /\ x.anim[a].state = "pending" /\ ~x.anim[a].stopped /\ Settles(x, y, a, "resolved") /\ ~y.anim[a].stopped
  /\ \E i \in Nat \ {0}, cs \in Ended(a, x.anim[a].queued) : q = Asked(Pushed(Front(r), TickFrame(i, a)), cs)

\* A timer is called: what it makes of its animation.
LEMMA TimerCalledIs ==
  ASSUME FxOK(fx), RunOK, TimerCalled
  PROVE  /\ run # <<>> /\ run[Len(run)].f = "tick" /\ FxOK(fx') /\ fx'.timers = fx.timers
         /\ \E a \in DOMAIN fx.anim :
              /\ Only(fx, fx', fx.anim[a].elem) /\ SameQueue(fx.el[fx.anim[a].elem], fx'.el[fx.anim[a].elem])
              /\ Goes(fx, fx', run, run', a) \/ Resolves(fx, fx', run, run', a)
<1>1. run # <<>> /\ run[Len(run)].f = "tick" /\ Top = run[Len(run)]
  BY Zenon DEF TimerCalled, TopIs, Top
<1>2. PICK E, A : E = DOMAIN fx.el /\ A = 1..Len(fx.anim)
  OBVIOUS
<1>3. run \in Seq(FrameType(E, A))
  BY <1>2 DEF RunOK
<1>4. PICK i : i = Top.i
  OBVIOUS
<1>5. i \in Nat \ {0}
  <2>1. Len(run) \in 1..Len(run)
    BY <1>1, <1>3
  <2>2. Top \in FrameType(E, A)
    BY <1>1, <1>3, <2>1
  <2> QED
    BY <1>1, <1>4, <2>2, TickTyped
<1>6. PICK a : a = fx.timers[i]
  OBVIOUS
<1>7. a \in DOMAIN fx.anim /\ a \in Nat
  <2>1. i <= Len(fx.timers)
    BY <1>4, Zenon DEF TimerCalled
  <2>2. i \in 1..Len(fx.timers)
    BY <1>5, <2>1, FxParts
  <2> QED
    BY <1>6, <2>2, FxParts
<1>8. fx.anim[a] \in AnimationOf(DOMAIN fx.el) /\ fx.anim[a].elem \in DOMAIN fx.el
  BY <1>7, FxParts
<1>9. \A g : WithTop(g) = Pushed(Front(run), g)
  BY DEF WithTop, Below, Pushed
<1>10. CASE fx.anim[a].stopped
  <2>1. run' = WithTop(TickFrame(i, a)) /\ fx' = fx
    BY <1>4, <1>6, <1>10 DEF TimerCalled
  <2>2. Goes(fx, fx', run, run', a)
    BY <1>5, <1>9, <1>10, <2>1 DEF Goes, SameAnims
  <2> QED
    BY <1>1, <1>7, <2>1, <2>2 DEF Only, SameQueue, SameMarks
<1>11. CASE ~fx.anim[a].stopped
  <2>1. PICK p \in {1, 2} :
          LET x == Tweened([fx EXCEPT !.anim[a].percent = p], a, p)
          IN IF p < 2 THEN fx' = x /\ run' = WithTop(TickFrame(i + 1, 0))
             ELSE IF fx.anim[a].state = "pending"
             THEN fx' = Resolved(x, a) /\ run' = WithTop(TickFrame(i, a)) \o Todo(DoneCalls(x, a))
             ELSE fx' = x /\ run' = WithTop(TickFrame(i, a))
    BY <1>4, <1>6, <1>11, Zenon DEF TimerCalled
  <2>2. PICK y : y = [fx EXCEPT !.anim[a].percent = p]
    OBVIOUS
  <2>3. PICK x : x = Tweened(y, a, p)
    OBVIOUS
  <2>4. /\ FxOK(y) /\ y.el = fx.el /\ y.timers = fx.timers /\ SameAnims(fx, y)
        /\ \A b \in DOMAIN fx.anim \ {a} : y.anim[b] = fx.anim[b]
    <3>1. p \in 0..2
      OBVIOUS
    <3> QED
      BY <1>7, <2>2, <3>1, PercentIs
  <2>5. a \in DOMAIN y.anim /\ y.anim[a].elem = fx.anim[a].elem
    BY <1>7, <2>4 DEF SameAnims
  <2>6. /\ FxOK(x) /\ Only(fx, x, fx.anim[a].elem) /\ x.anim = y.anim /\ x.timers = fx.timers
        /\ SameQueue(fx.el[fx.anim[a].elem], x.el[fx.anim[a].elem])
    <3>1. /\ FxOK(x) /\ Only(y, x, y.anim[a].elem) /\ x.anim = y.anim /\ x.timers = y.timers
          /\ SameQueue(y.el[y.anim[a].elem], x.el[y.anim[a].elem])
      BY <2>3, <2>4, <2>5, TweenedIs
    <3> QED
      BY <2>4, <2>5, <3>1 DEF Only
  <2>7. SameAnims(fx, x)
    BY <2>4, <2>6, SMTT(30) DEF SameAnims
  <2>8. CASE p = 2 /\ fx.anim[a].state = "pending"
    <3>1. fx' = Resolved(x, a) /\ run' = WithTop(TickFrame(i, a)) \o Todo(DoneCalls(x, a))
      <4>1. IF p < 2 THEN fx' = x /\ run' = WithTop(TickFrame(i + 1, 0))
            ELSE IF fx.anim[a].state = "pending"
            THEN fx' = Resolved(x, a) /\ run' = WithTop(TickFrame(i, a)) \o Todo(DoneCalls(x, a))
            ELSE fx' = x /\ run' = WithTop(TickFrame(i, a))
        BY ONLY <2>1, <2>2, <2>3
      <4>2. ~(p < 2) /\ fx.anim[a].state = "pending"
        BY <2>8
      <4> QED
        BY ONLY <4>1, <4>2
    <3>2. a \in DOMAIN x.anim /\ x.anim[a].elem = fx.anim[a].elem /\ x.anim[a].stopped = fx.anim[a].stopped
      BY <1>7, <2>7 DEF SameAnims
    <3>3. /\ FxOK(fx') /\ Only(x, fx', fx.anim[a].elem) /\ fx'.timers = x.timers
          /\ Settles(x, fx', a, "resolved") /\ fx'.anim[a].stopped = x.anim[a].stopped
          /\ SameQueue(x.el[fx.anim[a].elem], fx'.el[fx.anim[a].elem])
      <4>1. PICK z : z = fx'
        OBVIOUS
      <4>2. FxOK(x) /\ a \in DOMAIN x.anim /\ z = Resolved(x, a)
        BY <2>6, <3>1, <3>2, <4>1
      <4>3. /\ FxOK(z) /\ Only(x, z, x.anim[a].elem) /\ z.timers = x.timers
            /\ Settles(x, z, a, "resolved") /\ z.anim[a].stopped = x.anim[a].stopped
            /\ SameQueue(x.el[x.anim[a].elem], z.el[x.anim[a].elem])
        BY ONLY <4>2, ResolvedIs, SMTT(30)
      <4> QED
        BY <3>2, <4>1, <4>3
    <3>4. Only(fx, fx', fx.anim[a].elem) /\ SameQueue(fx.el[fx.anim[a].elem], fx'.el[fx.anim[a].elem])
      BY <2>6, <3>3 DEF Only, SameQueue, SameMarks
    <3>5. Settles(fx, fx', a, "resolved") /\ ~fx'.anim[a].stopped
      <4>1. DOMAIN fx'.anim = DOMAIN fx.anim /\ Len(fx'.anim) = Len(fx.anim)
        BY <2>7, <3>3 DEF Settles, SameAnims
      <4>2. \A b \in DOMAIN fx.anim \ {a} : fx'.anim[b] = fx.anim[b]
        <5>1. \A b \in DOMAIN fx.anim \ {a} : b \in DOMAIN x.anim /\ x.anim[b] = fx.anim[b]
          BY <2>4, <2>6, <2>7 DEF SameAnims
        <5> QED
          BY <3>3, <5>1 DEF Settles
      <4>3. fx'.anim[a].elem = fx.anim[a].elem /\ fx'.anim[a].queued = fx.anim[a].queued
            /\ fx'.anim[a].goal = fx.anim[a].goal /\ fx'.anim[a].state = "resolved"
        BY <1>7, <2>7, <3>3 DEF Settles, SameAnims
      <4> QED
        BY <1>11, <3>2, <3>3, <4>1, <4>2, <4>3 DEF Settles, SameAnims
    <3>6. Resolves(fx, fx', run, run', a)
      <4>1. x.anim[a].queued = fx.anim[a].queued
        BY <1>7, <2>7 DEF SameAnims
      <4>2. PICK cs : cs = DoneCalls(x, a)
        OBVIOUS
      <4>3. cs \in Ended(a, fx.anim[a].queued)
        BY <4>1, <4>2, DoneCallsIs
      <4>4. run' = Asked(Pushed(Front(run), TickFrame(i, a)), cs)
        BY <1>9, <3>1, <4>2 DEF Asked
      <4> QED
        BY <1>5, <1>11, <2>8, <3>5, <4>3, <4>4 DEF Resolves
    <3> QED
      BY <1>1, <1>7, <2>6, <3>3, <3>4, <3>6
  <2>9. CASE ~(p = 2 /\ fx.anim[a].state = "pending")
    <3>1. fx' = x /\ \E j \in Nat \ {0}, over \in {0, a} : run' = WithTop(TickFrame(j, over)) /\ (over # 0 => fx.anim[a].state # "pending")
      BY <1>5, <2>1, <2>2, <2>3, <2>9
    <3>2. Goes(fx, fx', run, run', a)
      BY <1>9, <2>7, <3>1 DEF Goes
    <3> QED
      BY <1>1, <1>7, <2>6, <3>1, <3>2
  <2> QED
    BY <2>8, <2>9
<1> QED
  BY <1>10, <1>11

-----------------------------------------------------------------------------
(***************************************************************************)
(* A mover passes on to one, whatever step is taken.                       *)
(***************************************************************************)

Passes(x, r, y, q, e) ==
  \/ Moving(y, q, e) \subseteq Moving(x, r, e)
  \/ \E n : \E m \in Moving(x, r, e) : \A k \in Moving(y, q, e) : (k \in Moving(x, r, e) /\ k # m) \/ k = n

\* What passes on was at most one, and stays so.
LEMMA PassesKeeps ==
  ASSUME NEW x, NEW r, NEW y, NEW q, NEW e, Passes(x, r, y, q, e)
  PROVE  /\ AtMostOne(x, r, e) => AtMostOne(y, q, e)
         /\ Moving(x, r, e) = {} => Moving(y, q, e) = {}
BY DEF Passes, AtMostOne

\* No slot is taken for an animation.
LEMMA SlotsArePositive ==
  ASSUME NEW E, NEW A, NEW r \in Seq(FrameType(E, A)), NEW s \in Slots(r), NEW a
  PROVE  s # <<0, a>>
<1>1. s = <<s[1], s[2]>> /\ s[1] \in 1..Len(r)
  BY SlotsAre
<1> QED
  BY <1>1

\* The same animations, and no slot that was not there.
LEMMA SlotsMoving ==
  ASSUME NEW E, NEW x, DOMAIN x.anim = 1..Len(x.anim), NEW r \in Seq(FrameType(E, 1..Len(x.anim))),
         NEW y, DOMAIN y.anim = DOMAIN x.anim, Extends(x, y), NEW q, Keeps(q, r), NEW e
  PROVE  Moving(y, q, e) \subseteq Moving(x, r, e)
<1>1. PICK T : T = {}
  OBVIOUS
<1>2. Within(r, q, T)
  BY DEF Keeps, Within
<1>3. r \in Seq(FrameType(E, DOMAIN x.anim))
  OBVIOUS
<1>4. InQueue(y, e) \subseteq DOMAIN x.anim
  BY DEF InQueue
<1>5. ASSUME NEW k \in Moving(y, q, e) PROVE k \in Moving(x, r, e)
  <2>1. \/ k \in Moving(x, r, e)
        \/ \E a \in InQueue(y, e) \ DOMAIN x.anim : k = <<0, a>>
        \/ k \in T /\ k \in Slots(q) /\ GoesOn(y, CallOf(q, k), e)
    BY <1>2, <1>3, MovingIs
  <2> QED
    BY <1>1, <1>4, <2>1
<1> QED
  BY <1>5

\* A call that is made does not move any more.
LEMMA WithoutMoving ==
  ASSUME NEW E, NEW A, NEW x, NEW r \in Seq(FrameType(E, A)), NEW s0 \in Slots(r), NEW q, Without(r, q, s0), NEW e
  PROVE  Moving(x, q, e) \subseteq Moving(x, r, e) \ {s0}
<1>1. \A a : s0 # <<0, a>>
  BY SlotsArePositive
<1> QED
  BY <1>1 DEF Moving, Without

\* dequeue passes the mover of an element on to the animation that starts.
LEMMA DequeuePasses ==
  ASSUME FxOK(fx), RunOK, QueuesOK(fx), DoDequeue, NEW d
  PROVE  Passes(fx, run, fx', run', d)
<1>1. PICK e, rest : e = Call.e /\ rest = CallDone(run)
  OBVIOUS
<1>2. /\ e \in Elem /\ run # <<>> /\ run[Len(run)].f = "todo" /\ Head(run[Len(run)].todo) = DequeueCall(e)
      /\ Empties(fx, fx', run', e, rest) \/ StartsNext(fx, fx', run', e, rest)
  BY <1>1, DequeueIs
<1>3. PICK s0 \in Slots(run) : CallOf(run, s0) = DequeueCall(e) /\ Without(run, rest, s0)
  BY <1>1, <1>2, RestOK
<1>4. rest \in Seq(FrameType(DOMAIN fx.el, 1..Len(fx.anim)))
  BY <1>1, <1>2, RestOK
<1>5. Moving(fx, rest, d) \subseteq Moving(fx, run, d) \ {s0}
  BY <1>3, WithoutMoving DEF RunOK
<1>6. CASE Empties(fx, fx', run', e, rest)
  <2>1. fx'.anim = fx.anim /\ run' = rest
    BY <1>6 DEF Empties
  <2>2. Moving(fx', run', d) = Moving(fx, rest, d)
    BY <2>1 DEF Moving, InQueue, GoesOn
  <2> QED
    BY <1>5, <2>2 DEF Passes
<1>7. CASE StartsNext(fx, fx', run', e, rest)
  <2>1. PICK item \in ItemType : Starts(fx, fx', run', e, item, rest)
    BY <1>7 DEF StartsNext
  <2>2. /\ \A c : c # e \/ ~item.queued => Moving(fx', run', c) \subseteq Moving(fx, rest, c)
        /\ \E n : \A m \in Moving(fx', run', e) : m \in Moving(fx, rest, e) \/ m = n
    <3>1. PICK y, q : y = fx' /\ q = run'
      OBVIOUS
    <3>2. Starts(fx, y, q, e, item, rest)
      BY <2>1, <3>1
    <3>3. /\ \A c : c # e \/ ~item.queued => Moving(y, q, c) \subseteq Moving(fx, rest, c)
          /\ \E n : \A m \in Moving(y, q, e) : m \in Moving(fx, rest, e) \/ m = n
      BY <1>4, <3>2, StartsMoving
    <3> QED
      BY <3>1, <3>3
  <2>3. CASE d # e
    BY <1>5, <2>2, <2>3 DEF Passes
  <2>4. CASE d = e
    <3>1. s0 \in Moving(fx, run, d)
      BY <1>3, <2>4 DEF Moving, GoesOn
    <3> QED
      BY <1>5, <2>2, <2>4, <3>1 DEF Passes
  <2> QED
    BY <2>3, <2>4
<1> QED
  BY <1>2, <1>6, <1>7

\* The timer passes the mover on to the complete callback.
LEMMA TimerPasses ==
  ASSUME FxOK(fx), RunOK, TimerCalled, NEW d
  PROVE  /\ Passes(fx, run, fx', run', d)
         /\ run' \in Seq(FrameType(DOMAIN fx'.el, 1..Len(fx'.anim)))
<1>1. PICK a \in DOMAIN fx.anim :
        /\ run # <<>> /\ run[Len(run)].f = "tick" /\ FxOK(fx') /\ Only(fx, fx', fx.anim[a].elem)
        /\ Goes(fx, fx', run, run', a) \/ Resolves(fx, fx', run, run', a)
  BY TimerCalledIs
<1>2. PICK E, A, x, y, r, q : E = DOMAIN fx.el /\ A = 1..Len(fx.anim) /\ x = fx /\ y = fx' /\ r = run /\ q = run'
  OBVIOUS
<1>3. r \in Seq(FrameType(E, A)) /\ r # <<>> /\ r[Len(r)].f # "todo" /\ DOMAIN y.el = E /\ DOMAIN x.anim = A /\ a \in A
      /\ A = 1..Len(x.anim)
  BY <1>1, <1>2, FxParts DEF RunOK, Only
<1>4. CASE Goes(x, y, r, q, a)
  <2>1. PICK i \in Nat \ {0}, over \in {0, a} : q = Pushed(Front(r), TickFrame(i, over))
    BY <1>4 DEF Goes
  <2>2. PICK g : g = TickFrame(i, over)
    OBVIOUS
  <2>3. g \in FrameType(E, A) /\ g.f # "todo"
    BY <1>3, <2>2, TickFrameIs
  <2>4. q \in Seq(FrameType(E, A)) /\ SameSlots(r, q)
    BY <1>3, <2>1, <2>2, <2>3, Retop
  <2>5. Extends(x, y) /\ DOMAIN y.anim = DOMAIN x.anim /\ Len(y.anim) = Len(x.anim)
    BY <1>4 DEF Goes, SameAnims, Extends
  <2>6. Moving(y, q, d) \subseteq Moving(x, r, d)
    BY <1>3, <2>4, <2>5, SlotsMoving DEF SameSlots
  <2> QED
    BY <1>2, <1>3, <2>4, <2>5, <2>6 DEF Passes
<1>5. CASE Resolves(x, y, r, q, a)
  <2>1. PICK i \in Nat \ {0}, cs \in Ended(a, x.anim[a].queued) : q = Asked(Pushed(Front(r), TickFrame(i, a)), cs)
    BY <1>5 DEF Resolves
  <2>2. PICK g, mid : g = TickFrame(i, a) /\ mid = Pushed(Front(r), g)
    OBVIOUS
  <2>3. g \in FrameType(E, A) /\ g.f # "todo"
    BY <1>3, <2>2, TickFrameIs
  <2>4. mid \in Seq(FrameType(E, A)) /\ SameSlots(r, mid)
    BY <1>3, <2>2, <2>3, Retop
  <2>5. q \in Seq(FrameType(E, A)) /\ EndsOf(mid, q, a, x.anim[a].queued)
    BY <1>3, <2>1, <2>2, <2>4, AskedEnds, Zenon
  <2>6. Extends(x, y) /\ DOMAIN y.anim = DOMAIN x.anim /\ Len(y.anim) = Len(x.anim)
    BY <1>5 DEF Resolves, Settles, Extends
  <2>7. Within(r, q, Fresh(mid, q))
    BY <2>4, <2>5 DEF EndsOf, SameSlots, Keeps, Within
  <2>8. ASSUME NEW k \in Moving(y, q, d)
        PROVE  \/ k \in Moving(x, r, d)
               \/ k \in Fresh(mid, q) /\ CallOf(q, k) = CompleteCall(a) /\ d = x.anim[a].elem /\ x.anim[a].queued
    <3>1. r \in Seq(FrameType(E, DOMAIN x.anim)) /\ InQueue(y, d) \subseteq DOMAIN x.anim
      BY <1>3, <2>6 DEF InQueue
    <3>2. \/ k \in Moving(x, r, d)
          \/ k \in Fresh(mid, q) /\ k \in Slots(q) /\ GoesOn(y, CallOf(q, k), d)
      BY <2>6, <2>7, <3>1, MovingIs
    <3>3. ASSUME k \in Fresh(mid, q), GoesOn(y, CallOf(q, k), d)
          PROVE  CallOf(q, k) = CompleteCall(a) /\ d = x.anim[a].elem /\ x.anim[a].queued
      <4>1. CallOf(q, k) \in {CompleteCall(a), UnqueuedCall(a)}
        BY <2>5, <3>3 DEF EndsOf
      <4> QED
        BY <1>3, <2>6, <3>3, <4>1 DEF GoesOn, CompleteCall, UnqueuedCall, DequeueCall, Extends
    <3> QED
      BY <3>2, <3>3
  <2>9. CASE d = x.anim[a].elem /\ x.anim[a].queued
    <3>1. PICK m : m = <<0, a>>
      OBVIOUS
    <3>2. m \in Moving(x, r, d)
      BY <1>3, <1>5, <2>9, <3>1 DEF Moving, InQueue, Resolves
    <3>3. m \notin Moving(y, q, d)
      <4>1. \A b \in InQueue(y, d) : b # a
        BY <1>5 DEF InQueue, Resolves, Settles
      <4>2. m \notin Slots(q)
        BY <2>5, <3>1, SlotsArePositive
      <4> QED
        BY <3>1, <4>1, <4>2 DEF Moving
    <3>4. \E n : \A k \in Fresh(mid, q) : CallOf(q, k) = CompleteCall(a) => k = n
      BY <2>5 DEF EndsOf
    <3>5. PICK n : \A k \in Fresh(mid, q) : CallOf(q, k) = CompleteCall(a) => k = n
      BY <3>4
    <3>6. \A k \in Moving(y, q, d) : (k \in Moving(x, r, d) /\ k # m) \/ k = n
      BY <2>8, <3>3, <3>5
    <3>7. Passes(x, r, y, q, d)
      BY <3>2, <3>6 DEF Passes
    <3> QED
      BY <1>2, <1>3, <2>5, <2>6, <3>7
  <2>10. CASE ~(d = x.anim[a].elem /\ x.anim[a].queued)
    BY <1>2, <1>3, <2>5, <2>6, <2>8, <2>10 DEF Passes
  <2> QED
    BY <2>9, <2>10
<1> QED
  BY <1>1, <1>2, <1>4, <1>5

-----------------------------------------------------------------------------
(***************************************************************************)
(* What a step does to the stack: the calls of M may be gone, those of S   *)
(* are new.                                                                *)
(***************************************************************************)

Turns(r, q, M, S) ==
  /\ \A s \in Slots(q) : Waits(r, CallOf(q, s)) \/ CallOf(q, s) \in S
  /\ \A s \in Slots(r) : CallOf(r, s) \in M \/ Waits(q, CallOf(r, s))
  /\ \A i \in 1..Len(r) : r[i].f = "fn" => \E j \in 1..Len(q) : q[j] = r[i]
  /\ \A j \in 1..Len(q) : q[j].f = "stop" => \E i \in 1..Len(r) : r[i].f = "stop"

\* What turns the stack twice.
LEMMA TurnsOn ==
  ASSUME NEW r, NEW m, NEW q, NEW M, NEW S, NEW T, Turns(r, m, M, S), Turns(m, q, {}, T)
  PROVE  Turns(r, q, M, S \union T)
<1>1. \A s \in Slots(q) : Waits(r, CallOf(q, s)) \/ CallOf(q, s) \in S \union T
  <2>1. SUFFICES ASSUME NEW s \in Slots(q), CallOf(q, s) \notin T PROVE Waits(r, CallOf(q, s)) \/ CallOf(q, s) \in S
    OBVIOUS
  <2>2. PICK t \in Slots(m) : CallOf(m, t) = CallOf(q, s)
    BY <2>1 DEF Turns, Waits
  <2> QED
    BY <2>2 DEF Turns
<1>2. \A s \in Slots(r) : CallOf(r, s) \in M \/ Waits(q, CallOf(r, s))
  <2>1. SUFFICES ASSUME NEW s \in Slots(r), CallOf(r, s) \notin M PROVE Waits(q, CallOf(r, s))
    OBVIOUS
  <2>2. PICK t \in Slots(m) : CallOf(m, t) = CallOf(r, s)
    BY <2>1 DEF Turns, Waits
  <2> QED
    BY <2>2 DEF Turns
<1>3. \A i \in 1..Len(r) : r[i].f = "fn" => \E j \in 1..Len(q) : q[j] = r[i]
  <2>1. SUFFICES ASSUME NEW i \in 1..Len(r), r[i].f = "fn" PROVE \E j \in 1..Len(q) : q[j] = r[i]
    OBVIOUS
  <2>2. PICK k \in 1..Len(m) : m[k] = r[i]
    BY <2>1 DEF Turns
  <2> QED
    BY <2>1, <2>2 DEF Turns
<1>4. \A j \in 1..Len(q) : q[j].f = "stop" => \E i \in 1..Len(r) : r[i].f = "stop"
  BY DEF Turns
<1> QED
  BY <1>1, <1>2, <1>3, <1>4 DEF Turns

\* A call is made.
LEMMA CallDoneTurns ==
  ASSUME NEW E, NEW A, NEW r \in Seq(FrameType(E, A)), r # <<>>, r[Len(r)].f = "todo",
         NEW q, q = CallDone(r), NEW c, c = Head(r[Len(r)].todo)
  PROVE  q \in Seq(FrameType(E, A)) /\ Turns(r, q, {c}, {})
<1>1. q \in Seq(FrameType(E, A)) /\ Shorter(r, q) /\ Len(r) \in Nat \ {0}
  BY CallMade
<1>2. PICK s0 \in Slots(r) : CallOf(r, s0) = c /\ Without(r, q, s0)
  BY CallMade
<1>3. \A s \in Slots(q) : Waits(r, CallOf(q, s))
  BY <1>2 DEF Without, Waits
<1>4. \A s \in Slots(r) : CallOf(r, s) \in {c} \/ Waits(q, CallOf(r, s))
  BY <1>2 DEF Without, Waits
<1>5. \A i \in 1..Len(r) : i < Len(r) => i \in 1..Len(q) /\ q[i] = r[i]
  BY <1>1 DEF Shorter
<1>6. \A i \in 1..Len(q) : i < Len(r) \/ (i = Len(r) /\ q[i].f = "todo")
  BY <1>1 DEF Shorter
<1>7. \A i \in 1..Len(r) : r[i].f = "fn" => \E j \in 1..Len(q) : q[j] = r[i]
  <2>1. SUFFICES ASSUME NEW i \in 1..Len(r), r[i].f = "fn" PROVE \E j \in 1..Len(q) : q[j] = r[i]
    OBVIOUS
  <2>2. i < Len(r)
    BY <1>1, <2>1
  <2> QED
    BY <1>5, <2>2
<1>8. \A j \in 1..Len(q) : q[j].f = "stop" => \E i \in 1..Len(r) : r[i].f = "stop"
  <2>1. SUFFICES ASSUME NEW j \in 1..Len(q), q[j].f = "stop" PROVE \E i \in 1..Len(r) : r[i].f = "stop"
    OBVIOUS
  <2>2. j < Len(r) /\ j \in 1..Len(r)
    BY <1>1, <1>6, <2>1
  <2> QED
    BY <1>5, <2>1, <2>2
<1> QED
  BY <1>1, <1>3, <1>4, <1>7, <1>8 DEF Turns

\* Frames are pushed.
LEMMA ToppedTurns ==
  ASSUME NEW r, Len(r) \in Nat, NEW q, NEW g, Topped(r, q, g), Keeps(r, q), g.f # "stop", NEW S,
         \A s \in Slots(q) : s \in Slots(r) \/ CallOf(q, s) \in S
  PROVE  Turns(r, q, {}, S)
<1>1. \A s \in Slots(q) : Waits(r, CallOf(q, s)) \/ CallOf(q, s) \in S
  BY DEF Waits, Keeps
<1>2. \A s \in Slots(r) : Waits(q, CallOf(r, s))
  BY DEF Waits, Keeps
<1>3. \A i \in 1..Len(r) : i \in 1..Len(q) /\ q[i] = r[i]
  BY DEF Topped
<1>4. \A j \in 1..Len(q) : j \in 1..Len(r) \/ q[j] = g
  BY DEF Topped
<1>5. \A j \in 1..Len(q) : q[j].f = "stop" => \E i \in 1..Len(r) : r[i].f = "stop"
  BY <1>3, <1>4
<1> QED
  BY <1>1, <1>2, <1>3, <1>5 DEF Turns

\* Calls are pushed.
LEMMA AskedTurns ==
  ASSUME NEW E, NEW A, NEW r \in Seq(FrameType(E, A)), NEW cs \in Seq(CallType(E, A)), cs # <<>>,
         NEW q, q = Asked(r, cs), NEW S, \A j \in 1..Len(cs) : cs[j] \in S
  PROVE  q \in Seq(FrameType(E, A)) /\ Turns(r, q, {}, S)
<1>1. PICK g : g = [f |-> "todo", todo |-> cs]
  OBVIOUS
<1>2. /\ q \in Seq(FrameType(E, A)) /\ Len(r) \in Nat /\ Topped(r, q, g)
      /\ Keeps(r, q) /\ NewSlots(r, q, cs)
  BY <1>1, PushTodoIs
<1>3. \A s \in Slots(q) : s \in Slots(r) \/ CallOf(q, s) \in S
  BY <1>2 DEF NewSlots
<1>4. g.f # "stop"
  BY <1>1
<1> QED
  BY <1>2, <1>3, <1>4, ToppedTurns

\* A frame without calls is pushed.
LEMMA PlainTurns ==
  ASSUME NEW E, NEW A, NEW r \in Seq(FrameType(E, A)), NEW g \in FrameType(E, A), g.f \notin {"todo", "stop"},
         NEW q, q = Pushed(r, g)
  PROVE  q \in Seq(FrameType(E, A)) /\ Turns(r, q, {}, {}) /\ q[Len(q)] = g /\ Len(q) \in 1..Len(q)
<1>1. q \in Seq(FrameType(E, A)) /\ Topped(r, q, g) /\ SameSlots(r, q)
  BY PushPlain
<1>2. Len(r) \in Nat /\ Keeps(r, q) /\ \A s \in Slots(q) : s \in Slots(r) \/ CallOf(q, s) \in {}
  BY <1>1 DEF SameSlots, Keeps
<1>3. Turns(r, q, {}, {})
  BY <1>1, <1>2, ToppedTurns
<1> QED
  BY <1>1, <1>2, <1>3 DEF Topped

\* A frame without calls is replaced.
LEMMA RetopTurns ==
  ASSUME NEW E, NEW A, NEW r \in Seq(FrameType(E, A)), r # <<>>, r[Len(r)].f \notin {"todo", "fn"},
         NEW g \in FrameType(E, A), g.f \notin {"todo", "stop"}, NEW q, q = Pushed(Front(r), g)
  PROVE  q \in Seq(FrameType(E, A)) /\ Turns(r, q, {}, {})
<1>1. q \in Seq(FrameType(E, A)) /\ Retopped(r, q, g) /\ SameSlots(r, q)
  BY Retop
<1>2. Len(r) \in Nat \ {0}
  OBVIOUS
<1>3. \A s \in Slots(q) : Waits(r, CallOf(q, s))
  BY <1>1 DEF SameSlots, Keeps, Waits
<1>4. \A s \in Slots(r) : Waits(q, CallOf(r, s))
  BY <1>1 DEF SameSlots, Keeps, Waits
<1>5. \A i \in 1..Len(r) : i = Len(r) \/ (i \in 1..Len(q) /\ q[i] = r[i])
  BY <1>1, <1>2 DEF Retopped
<1>6. \A j \in 1..Len(q) : j \in 1..Len(r) /\ (q[j] = g \/ q[j] = r[j])
  BY <1>1, <1>2 DEF Retopped
<1> QED
  BY <1>1, <1>3, <1>4, <1>5, <1>6 DEF Turns

\* What turned the stack, and what is on it.
LEMMA DequeueTurns ==
  ASSUME FxOK(fx), RunOK, QueuesOK(fx), DoDequeue, NEW e, e = Call.e, NEW a, a = Len(fx.anim) + 1
  PROVE  /\ run' \in Seq(FrameType(DOMAIN fx'.el, 1..Len(fx'.anim)))
         /\ Turns(run, run', {DequeueCall(e)}, {CompleteCall(a)})
         /\ ~Empties(fx, fx', run', e, CallDone(run)) => fx'.anim[a].state = "pending" \/ Waits(run', CompleteCall(a))
<1>1. PICK E, A, r, q, rest : E = DOMAIN fx.el /\ A = 1..Len(fx.anim) /\ r = run /\ q = run' /\ rest = CallDone(run)
  OBVIOUS
<1>2. /\ e \in E /\ r # <<>> /\ r[Len(r)].f = "todo" /\ Head(r[Len(r)].todo) = DequeueCall(e)
      /\ Empties(fx, fx', q, e, rest) \/ StartsNext(fx, fx', q, e, rest)
      /\ FxOK(fx') /\ DOMAIN fx'.el = E
  <2>1. /\ e \in Elem /\ run # <<>> /\ run[Len(run)].f = "todo" /\ Head(run[Len(run)].todo) = DequeueCall(e)
        /\ FxOK(fx') /\ Only(fx, fx', e)
        /\ \/ Empties(fx, fx', run', e, CallDone(run))
           \/ StartsNext(fx, fx', run', e, CallDone(run))
    BY DequeueIs
  <2> QED
    BY <1>1, <2>1 DEF Only, Elem
<1>3. r \in Seq(FrameType(E, A)) /\ rest = CallDone(r)
  BY <1>1 DEF RunOK
<1>4. rest \in Seq(FrameType(E, A)) /\ Turns(r, rest, {DequeueCall(e)}, {})
  <2>1. PICK c : c = DequeueCall(e)
    OBVIOUS
  <2>2. c = Head(r[Len(r)].todo)
    BY <1>2, <2>1
  <2>3. rest \in Seq(FrameType(E, A)) /\ Turns(r, rest, {c}, {})
    BY ONLY <1>2, <1>3, <2>2, CallDoneTurns
  <2> QED
    BY <2>1, <2>3
<1>5. CASE Empties(fx, fx', q, e, rest)
  <2>1. q = rest /\ fx'.anim = fx.anim
    BY <1>5 DEF Empties
  <2>2. Turns(r, q, {DequeueCall(e)}, {CompleteCall(a)})
    BY <1>4, <2>1 DEF Turns
  <2> QED
    BY <1>1, <1>2, <1>4, <1>5, <2>1, <2>2
<1>6. CASE StartsNext(fx, fx', q, e, rest)
  <2>1. PICK item \in ItemType : item.queued /\ Starts(fx, fx', q, e, item, rest)
    BY <1>6 DEF StartsNext
  <2>2. PICK y, x : y = fx' /\ x = fx
    OBVIOUS
  <2>3. /\ q \in Seq(FrameType(DOMAIN y.el, 1..Len(y.anim)))
        /\ q = rest \/ \E cs \in Ended(a, item.queued) : q = Asked(rest, cs) /\ Topped(rest, q, [f |-> "todo", todo |-> cs])
        /\ y.anim[a].state = "pending" => q = rest
        /\ y.anim[a].state # "pending" => Waits(q, CompleteCall(a))
    <3>1. FxOK(x) /\ rest \in Seq(FrameType(DOMAIN x.el, 1..Len(x.anim))) /\ Starts(x, y, q, e, item, rest) /\ a = Len(x.anim) + 1
      BY <1>1, <1>4, <2>1, <2>2
    <3> QED
      BY ONLY <3>1, StartsStack
  <2>4. Turns(rest, q, {}, {CompleteCall(a)})
    <3>1. CASE q = rest
      BY <3>1 DEF Turns, Waits
    <3>2. CASE q = Asked(rest, <<CompleteCall(a)>>)
      <4>1. PICK B, cs : B = 1..a /\ cs = <<CompleteCall(a)>>
        OBVIOUS
      <4>2. Len(fx.anim) \in Nat
        BY FxParts
      <4>3. A \subseteq B /\ a \in B
        BY <1>1, <4>1, <4>2
      <4>4. rest \in Seq(FrameType(E, B))
        BY <1>4, <4>3, TypesGrow
      <4>5. CompleteCall(a) \in CallType(E, B)
        BY <4>3 DEF CompleteCall, CallType
      <4>6. cs \in Seq(CallType(E, B)) /\ cs # <<>> /\ q = Asked(rest, cs) /\ \A j \in 1..Len(cs) : cs[j] \in {CompleteCall(a)}
        BY <3>2, <4>1, <4>5
      <4> QED
        BY ONLY <4>4, <4>6, AskedTurns
    <3> QED
      BY <2>1, <2>3, <3>1, <3>2 DEF Ended
  <2>5. Turns(r, q, {DequeueCall(e)}, {} \union {CompleteCall(a)})
    BY <1>4, <2>4, TurnsOn
  <2>6. y.anim[a].state = "pending" \/ Waits(q, CompleteCall(a))
    BY <2>3
  <2> QED
    BY <1>1, <2>2, <2>3, <2>5, <2>6
<1> QED
  BY <1>2, <1>5, <1>6

\* The frame of a complete callback.
LEMMA FnFrameIs ==
  ASSUME NEW E, NEW A, NEW a \in A
  PROVE  FnFrame(a) \in FrameType(E, A) /\ FnFrame(a).f \notin {"todo", "stop"}
BY DEF FnFrame, FrameType

\* The complete callback is pushed on what goes on with the queue.
LEMMA CompleteIs ==
  ASSUME FxOK(fx), RunOK, DoComplete, NEW a, a = Call.a, NEW an, an = fx.anim[a], NEW rest, rest = CallDone(run)
  PROVE  /\ a \in DOMAIN fx.anim /\ run # <<>> /\ run[Len(run)].f = "todo" /\ Head(run[Len(run)].todo) = CompleteCall(a)
         /\ fx' = fx
         /\ run' = Pushed(IF an.queued THEN Asked(rest, <<DequeueCall(an.elem)>>) ELSE rest, FnFrame(a))
<1>1. CallIs("complete")
  BY DEF DoComplete
<1>2. /\ run # <<>> /\ run[Len(run)].f = "todo" /\ Call = Head(run[Len(run)].todo)
      /\ Call \in CallType(Elem, 1..Len(fx.anim)) /\ Call.op = "complete" /\ AfterCall = rest
  BY <1>1, TopCall
<1>3. Call = CompleteCall(a) /\ a \in 1..Len(fx.anim)
  BY <1>2 DEF CallType, CompleteCall
<1>4. a \in DOMAIN fx.anim
  BY <1>3, FxParts
<1>5. rest \in Seq(FrameType(DOMAIN fx.el, 1..Len(fx.anim)))
  BY <1>2, RestOK
<1>6. run' = rest \o (IF an.queued THEN Todo(<<DequeueCall(an.elem)>>) ELSE <<>>) \o <<FnFrame(a)>>
  BY <1>2, Zenon DEF DoComplete
<1>7. rest \o <<>> = rest
  BY <1>5, ConcatEmptySeq
<1> QED
  BY <1>2, <1>3, <1>4, <1>6, <1>7, Zenon DEF Pushed, Asked, DoComplete

\* opt.complete turns the stack, and passes the mover on to dequeue.
LEMMA CompleteTurns ==
  ASSUME FxOK(fx), RunOK, DoComplete, NEW a, a = Call.a
  PROVE  /\ a \in DOMAIN fx.anim /\ fx' = fx /\ run' \in Seq(FrameType(DOMAIN fx.el, 1..Len(fx.anim)))
         /\ Turns(run, run', {CompleteCall(a)}, {DequeueCall(fx.anim[a].elem)})
         /\ \E j \in 1..Len(run') : run'[j] = FnFrame(a)
         /\ \A d : Passes(fx, run, fx, run', d)
<1>1. PICK E, A, r, q, rest, an, e, g : E = DOMAIN fx.el /\ A = 1..Len(fx.anim) /\ r = run /\ q = run' /\ rest = CallDone(run)
                                     /\ an = fx.anim[a] /\ e = an.elem /\ g = FnFrame(a)
  OBVIOUS
<1>2. PICK mid : mid = IF an.queued THEN Asked(rest, <<DequeueCall(e)>>) ELSE rest
  OBVIOUS
<1>3. /\ a \in DOMAIN fx.anim /\ r # <<>> /\ r[Len(r)].f = "todo" /\ Head(r[Len(r)].todo) = CompleteCall(a)
      /\ fx' = fx /\ q = Pushed(mid, g)
  BY <1>1, <1>2, CompleteIs
<1>4. a \in A /\ e \in E
  BY <1>1, <1>3, FxParts
<1>5. r \in Seq(FrameType(E, A)) /\ rest = CallDone(r)
  BY <1>1 DEF RunOK
<1>6. PICK c, k : c = CompleteCall(a) /\ k = DequeueCall(e)
  OBVIOUS
<1>7. c = Head(r[Len(r)].todo)
  BY <1>3, <1>6
<1>8. rest \in Seq(FrameType(E, A)) /\ Turns(r, rest, {c}, {})
  BY ONLY <1>3, <1>5, <1>7, CallDoneTurns
<1>9. PICK s0 \in Slots(r) : CallOf(r, s0) = c /\ Without(r, rest, s0)
  BY <1>1, <1>3, <1>6, RestOK
<1>10. k \in CallType(E, A)
  BY <1>4, <1>6 DEF CallType, DequeueCall
<1>11. PICK cs : cs = <<k>>
  OBVIOUS
<1>12. cs \in Seq(CallType(E, A)) /\ cs # <<>> /\ Len(cs) = 1 /\ cs[1] = k
  BY <1>10, <1>11
<1>14. mid \in Seq(FrameType(E, A)) /\ Turns(rest, mid, {}, {k}) /\ Keeps(rest, mid)
       /\ \A s \in Slots(mid) : s \in Slots(rest) \/ (an.queued /\ s = <<Len(rest) + 1, 0>> /\ CallOf(mid, s) = k)
  <2>1. CASE an.queued
    <3>1. mid = Asked(rest, cs) /\ \A j \in 1..Len(cs) : cs[j] \in {k}
      BY <1>2, <1>6, <1>11, <1>12, <2>1
    <3>2. mid \in Seq(FrameType(E, A)) /\ Turns(rest, mid, {}, {k})
      BY ONLY <1>8, <1>12, <3>1, AskedTurns
    <3>3. Keeps(rest, mid) /\ NewSlots(rest, mid, cs)
      BY ONLY <1>8, <1>12, <3>1, PushTodoIs
    <3> QED
      BY <1>12, <2>1, <3>2, <3>3 DEF NewSlots
  <2>2. CASE ~an.queued
    <3>1. mid = rest
      BY <1>2, <2>2
    <3> QED
      BY <1>8, <3>1 DEF Turns, Waits, Keeps
  <2> QED
    BY <2>1, <2>2
<1>15. g \in FrameType(E, A) /\ g.f \notin {"todo", "stop"}
  BY <1>1, <1>4, FnFrameIs
<1>16. q \in Seq(FrameType(E, A)) /\ Turns(mid, q, {}, {}) /\ q[Len(q)] = g /\ Len(q) \in 1..Len(q)
  BY ONLY <1>3, <1>14, <1>15, PlainTurns
<1>17. SameSlots(mid, q)
  BY ONLY <1>3, <1>14, <1>15, PushPlain
<1>18. Turns(r, q, {c}, {k})
  <2>1. Turns(r, mid, {c}, {} \union {k})
    BY <1>8, <1>14, TurnsOn
  <2>2. Turns(r, mid, {c}, {k})
    BY <2>1
  <2>3. Turns(r, q, {c}, {k} \union {})
    BY <1>16, <2>2, TurnsOn
  <2> QED
    BY <2>3
<1>19. ASSUME NEW d PROVE Passes(fx, r, fx, q, d)
  <2>1. PICK n : n = <<Len(rest) + 1, 0>>
    OBVIOUS
  <2>2. Moving(fx, rest, d) \subseteq Moving(fx, r, d) \ {s0}
    BY <1>5, <1>9, WithoutMoving
  <2>3. ASSUME NEW m \in Moving(fx, q, d) PROVE m \in Moving(fx, rest, d) \/ (an.queued /\ d = e /\ m = n)
    <3>1. CASE m \in Slots(q) /\ GoesOn(fx, CallOf(q, m), d)
      <4>1. m \in Slots(mid) /\ CallOf(mid, m) = CallOf(q, m)
        BY <1>17, <3>1 DEF SameSlots, Keeps
      <4>2. CASE m \in Slots(rest)
        <5>1. CallOf(rest, m) = CallOf(q, m)
          BY <1>14, <4>1, <4>2 DEF Keeps
        <5> QED
          BY <3>1, <4>2, <5>1 DEF Moving
      <4>3. CASE an.queued /\ m = n /\ CallOf(q, m) = k
        <5>1. GoesOn(fx, DequeueCall(e), d)
          BY <1>6, <3>1, <4>3
        <5>2. d = e
          BY <5>1 DEF GoesOn, DequeueCall
        <5> QED
          BY <4>3, <5>2
      <4> QED
        BY <1>14, <2>1, <4>1, <4>2, <4>3
    <3>2. CASE \E b \in InQueue(fx, d) : m = <<0, b>>
      BY <3>2 DEF Moving
    <3> QED
      BY <3>1, <3>2 DEF Moving
  <2>4. CASE an.queued /\ d = e
    <3>1. GoesOn(fx, CallOf(r, s0), d)
      BY <1>1, <1>6, <1>9, <2>4 DEF GoesOn, CompleteCall
    <3>2. s0 \in Moving(fx, r, d)
      BY <1>9, <3>1 DEF Moving
    <3> QED
      BY <2>2, <2>3, <3>2 DEF Passes
  <2>5. CASE ~(an.queued /\ d = e)
    BY <2>2, <2>3, <2>5, SMTT(30) DEF Passes
  <2> QED
    BY <2>4, <2>5
<1> QED
  BY <1>1, <1>3, <1>6, <1>16, <1>18, <1>19

\* A timer is called, and what is then on the stack.
LEMMA TimerTurns ==
  ASSUME FxOK(fx), RunOK, TimerCalled
  PROVE  \E a \in DOMAIN fx.anim :
           /\ Only(fx, fx', fx.anim[a].elem) /\ SameQueue(fx.el[fx.anim[a].elem], fx'.el[fx.anim[a].elem])
           /\ \/ SameAnims(fx, fx') /\ Turns(run, run', {}, {})
              \/ /\ fx.anim[a].state = "pending" /\ ~fx.anim[a].stopped /\ Settles(fx, fx', a, "resolved") /\ ~fx'.anim[a].stopped
                 /\ Turns(run, run', {}, IF fx.anim[a].queued THEN {CompleteCall(a)} ELSE {CompleteCall(a), UnqueuedCall(a)})
                 /\ Waits(run', CompleteCall(a))
<1>1. PICK a \in DOMAIN fx.anim :
        /\ run # <<>> /\ run[Len(run)].f = "tick" /\ Only(fx, fx', fx.anim[a].elem)
        /\ SameQueue(fx.el[fx.anim[a].elem], fx'.el[fx.anim[a].elem])
        /\ Goes(fx, fx', run, run', a) \/ Resolves(fx, fx', run, run', a)
  BY TimerCalledIs
<1>2. PICK E, A, r, q, w : E = DOMAIN fx.el /\ A = 1..Len(fx.anim) /\ r = run /\ q = run' /\ w = fx.anim[a].queued
  OBVIOUS
<1>3. r \in Seq(FrameType(E, A)) /\ r # <<>> /\ r[Len(r)].f \notin {"todo", "fn"} /\ a \in A
  BY <1>1, <1>2, FxParts DEF RunOK
<1>4. CASE Goes(fx, fx', r, q, a)
  <2>1. PICK i \in Nat \ {0}, over \in {0, a} : q = Pushed(Front(r), TickFrame(i, over))
    BY <1>4 DEF Goes
  <2>2. PICK g : g = TickFrame(i, over)
    OBVIOUS
  <2>3. g \in FrameType(E, A) /\ g.f \notin {"todo", "stop"} /\ q = Pushed(Front(r), g)
    BY <1>3, <2>1, <2>2, TickFrameIs DEF TickFrame
  <2>4. Turns(r, q, {}, {})
    BY ONLY <1>3, <2>3, RetopTurns
  <2> QED
    BY <1>1, <1>2, <1>4, <2>4 DEF Goes
<1>5. CASE Resolves(fx, fx', r, q, a)
  <2>1. PICK i \in Nat \ {0}, cs \in Ended(a, w) : q = Asked(Pushed(Front(r), TickFrame(i, a)), cs)
    BY <1>2, <1>5 DEF Resolves
  <2>2. PICK g, mid : g = TickFrame(i, a) /\ mid = Pushed(Front(r), g)
    OBVIOUS
  <2>3. g \in FrameType(E, A) /\ g.f \notin {"todo", "stop"}
    BY <1>3, <2>2, TickFrameIs DEF TickFrame
  <2>4. mid \in Seq(FrameType(E, A)) /\ Turns(r, mid, {}, {})
    BY ONLY <1>3, <2>2, <2>3, RetopTurns
  <2>5. PICK S : S = IF w THEN {CompleteCall(a)} ELSE {CompleteCall(a), UnqueuedCall(a)}
    OBVIOUS
  <2>6. cs \in Seq(CallType(E, A)) /\ cs # <<>> /\ \A j \in 1..Len(cs) : cs[j] \in S
    BY <1>3, <2>5, EndedIs
  <2>7. q = Asked(mid, cs)
    BY <2>1, <2>2
  <2>8. Turns(mid, q, {}, S)
    BY ONLY <2>4, <2>6, <2>7, AskedTurns
  <2>9. Turns(r, q, {}, {} \union S)
    BY <2>4, <2>8, TurnsOn
  <2>10. Turns(r, q, {}, S)
    BY <2>9
  <2>11. Waits(q, CompleteCall(a))
    BY ONLY <1>3, <2>1, <2>4, <2>7, AskedEnds
  <2> QED
    BY <1>1, <1>2, <1>5, <2>5, <2>10, <2>11 DEF Resolves
<1> QED
  BY <1>1, <1>2, <1>4, <1>5

\* Where no animation changes and no slot, movers stay.
LEMMA SlotsPass ==
  ASSUME FxOK(fx), RunOK, fx'.anim = fx.anim, SameSlots(run, run'), NEW d
  PROVE  Passes(fx, run, fx', run', d)
<1>1. PICK E, x, y, r, q : E = DOMAIN fx.el /\ x = fx /\ y = fx' /\ r = run /\ q = run'
  OBVIOUS
<1>2. /\ DOMAIN x.anim = 1..Len(x.anim) /\ r \in Seq(FrameType(E, 1..Len(x.anim))) /\ DOMAIN y.anim = DOMAIN x.anim
      /\ Extends(x, y) /\ Keeps(q, r)
  BY <1>1, FxParts DEF RunOK, Extends, SameSlots
<1>3. Moving(y, q, d) \subseteq Moving(x, r, d)
  BY ONLY <1>2, SlotsMoving
<1> QED
  BY <1>1, <1>3 DEF Passes

\* What RemoveAt leaves.
LEMMA RemoveAtIs ==
  ASSUME NEW S, NEW s \in Seq(S), NEW i \in 1..Len(s), NEW t, t = RemoveAt(s, i)
  PROVE  /\ t \in Seq(S) /\ Len(t) = Len(s) - 1
         /\ \A j \in 1..Len(t) : t[j] = IF j < i THEN s[j] ELSE s[j + 1]
<1>1. PICK u, v : u = SubSeq(s, 1, i - 1) /\ v = SubSeq(s, i + 1, Len(s))
  OBVIOUS
<1>2. t = u \o v
  BY <1>1 DEF RemoveAt
<1>3. u \in Seq(S) /\ Len(u) = i - 1 /\ \A j \in 1..i - 1 : u[j] = s[j]
  BY <1>1
<1>4. v \in Seq(S) /\ Len(v) = Len(s) - i /\ \A j \in 1..Len(s) - i : v[j] = s[i + j]
  BY <1>1
<1>5. t \in Seq(S) /\ Len(t) = Len(s) - 1
  BY <1>2, <1>3, <1>4
<1>6. \A j \in 1..Len(t) : t[j] = IF j < i THEN s[j] ELSE s[j + 1]
  <2>1. SUFFICES ASSUME NEW j \in 1..Len(t) PROVE t[j] = IF j < i THEN s[j] ELSE s[j + 1]
    OBVIOUS
  <2>2. CASE j < i
    BY <1>2, <1>3, <1>4, <1>5, <2>2
  <2>3. CASE j >= i
    <3>1. t[j] = v[j - (i - 1)] /\ j - (i - 1) \in 1..Len(s) - i
      BY <1>2, <1>3, <1>4, <1>5, <2>3
    <3> QED
      BY <1>4, <2>3, <3>1
  <2> QED
    BY <2>2, <2>3
<1> QED
  BY <1>5, <1>6

\* Timers are set.
LEMMA WithTimers ==
  ASSUME NEW x, FxOK(x), NEW ts \in Seq(1..Len(x.anim)), NEW b \in BOOLEAN,
         NEW y, y = [el |-> x.el, hooks |-> x.hooks, anim |-> x.anim, timers |-> ts, ticking |-> b]
  PROVE  FxOK(y) /\ y.el = x.el /\ y.anim = x.anim /\ y.timers = ts
BY DEF FxOK

\* A timer that is over is taken out.
LEMMA TimerOverIs ==
  ASSUME FxOK(fx), RunOK, TimerOver
  PROVE  /\ run # <<>> /\ run[Len(run)].f = "tick" /\ FxOK(fx') /\ fx'.el = fx.el /\ fx'.anim = fx.anim
         /\ fx'.timers = TakenOut(fx.timers, run[Len(run)].i, run[Len(run)].over)
         /\ run' \in Seq(FrameType(DOMAIN fx.el, 1..Len(fx.anim)))
         /\ \E i \in Nat \ {0} : Retopped(run, run', TickFrame(i, 0))
         /\ SameSlots(run, run') /\ Turns(run, run', {}, {})
<1>1. PICK E, A, r, q, t, left : E = DOMAIN fx.el /\ A = 1..Len(fx.anim) /\ r = run /\ q = run' /\ t = run[Len(run)]
                               /\ left = TakenOut(fx.timers, t.i, t.over)
  OBVIOUS
<1>2. /\ r \in Seq(FrameType(E, A)) /\ r # <<>> /\ r[Len(r)].f = "tick" /\ t = r[Len(r)] /\ t \in FrameType(E, A)
      /\ fx' = [fx EXCEPT !.timers = left]
      /\ q = Pushed(Front(r), TickFrame(IF left = fx.timers THEN t.i + 1 ELSE t.i, 0))
  <2>1. \A g : WithTop(g) = Pushed(Front(run), g)
    BY DEF WithTop, Below, Pushed
  <2>2. r \in Seq(FrameType(E, A)) /\ r # <<>> /\ r[Len(r)].f = "tick" /\ t = Top /\ t = r[Len(r)]
    BY <1>1 DEF RunOK, TimerOver, TopIs, Top
  <2>3. t \in FrameType(E, A)
    BY ONLY <2>2
  <2>4. /\ fx' = [fx EXCEPT !.timers = left]
        /\ run' = WithTop(TickFrame(IF left = fx.timers THEN t.i + 1 ELSE t.i, 0))
    BY <1>1, <2>2 DEF TimerOver
  <2> QED
    BY <1>1, <2>1, <2>2, <2>3, <2>4
<1>3. t.i \in Nat \ {0}
  BY <1>2, TickTyped
<1>4. PICK i : i = IF left = fx.timers THEN t.i + 1 ELSE t.i
  OBVIOUS
<1>5. PICK g : g = TickFrame(i, 0)
  OBVIOUS
<1>6. i \in Nat \ {0}
  BY <1>3, <1>4
<1>7. g \in FrameType(E, A) /\ g.f \notin {"todo", "fn", "stop"} /\ q = Pushed(Front(r), g) /\ r[Len(r)].f \notin {"todo", "fn"}
  BY <1>2, <1>4, <1>5, <1>6, TickFrameIs DEF TickFrame
<1>8. q \in Seq(FrameType(E, A)) /\ Turns(r, q, {}, {})
  BY ONLY <1>2, <1>7, RetopTurns
<1>9. Retopped(r, q, g) /\ SameSlots(r, q)
  BY ONLY <1>2, <1>7, Retop
<1>10. left \in Seq(1..Len(fx.anim))
  <2>1. fx.timers \in Seq(1..Len(fx.anim))
    BY FxParts
  <2>2. CASE t.i <= Len(fx.timers) /\ fx.timers[t.i] = t.over
    <3>1. left = RemoveAt(fx.timers, t.i) /\ t.i \in 1..Len(fx.timers)
      BY <1>1, <1>3, <2>1, <2>2 DEF TakenOut
    <3> QED
      BY ONLY <2>1, <3>1, RemoveAtIs
  <2>3. CASE ~(t.i <= Len(fx.timers) /\ fx.timers[t.i] = t.over)
    BY <1>1, <2>1, <2>3 DEF TakenOut
  <2> QED
    BY <2>2, <2>3
<1>11. FxOK(fx') /\ fx'.el = fx.el /\ fx'.anim = fx.anim /\ fx'.timers = left
  <2>1. PICK x, y, b : x = fx /\ y = fx' /\ b = fx.ticking
    OBVIOUS
  <2>2. x = [el |-> x.el, hooks |-> x.hooks, anim |-> x.anim, timers |-> x.timers, ticking |-> b] /\ b \in BOOLEAN
    BY <2>1 DEF FxOK
  <2>3. y = [x EXCEPT !.timers = left]
    BY <1>2, <2>1
  <2>4. y = [el |-> x.el, hooks |-> x.hooks, anim |-> x.anim, timers |-> left, ticking |-> b]
    BY ONLY <2>2, <2>3
  <2>5. FxOK(x) /\ left \in Seq(1..Len(x.anim))
    BY <1>10, <2>1
  <2>6. FxOK(y) /\ y.el = x.el /\ y.anim = x.anim /\ y.timers = left
    BY ONLY <2>2, <2>4, <2>5, WithTimers
  <2> QED
    BY <2>1, <2>6
<1> QED
  BY <1>1, <1>2, <1>5, <1>6, <1>8, <1>9, <1>11

\* The stack where a frame without calls goes.
LEMMA PopTurns ==
  ASSUME NEW E, NEW A, NEW r \in Seq(FrameType(E, A)), r # <<>>, r[Len(r)].f \in {"tick", "stop"}, NEW q, q = Front(r)
  PROVE  q \in Seq(FrameType(E, A)) /\ SameSlots(r, q) /\ Turns(r, q, {}, {})
<1>1. /\ q \in Seq(FrameType(E, A)) /\ Len(q) = Len(r) - 1 /\ Len(r) \in Nat \ {0}
      /\ \A i \in 1..Len(q) : q[i] = r[i]
      /\ SameSlots(r, q)
  BY PopPlain
<1>2. \A s \in Slots(q) : Waits(r, CallOf(q, s))
  BY <1>1 DEF SameSlots, Keeps, Waits
<1>3. \A s \in Slots(r) : Waits(q, CallOf(r, s))
  BY <1>1 DEF SameSlots, Keeps, Waits
<1>4. \A i \in 1..Len(r) : i = Len(r) \/ (i \in 1..Len(q) /\ q[i] = r[i])
  BY <1>1
<1>5. \A j \in 1..Len(q) : j \in 1..Len(r) /\ q[j] = r[j]
  BY <1>1
<1> QED
  BY <1>1, <1>2, <1>3, <1>4, <1>5 DEF Turns

\* The tick is over.
LEMMA TickOverIs ==
  ASSUME FxOK(fx), RunOK, TickOver
  PROVE  /\ run # <<>> /\ run[Len(run)].f = "tick" /\ FxOK(fx') /\ fx'.el = fx.el /\ fx'.anim = fx.anim /\ fx'.timers = fx.timers
         /\ run' \in Seq(FrameType(DOMAIN fx.el, 1..Len(fx.anim))) /\ run' = Front(run)
         /\ SameSlots(run, run') /\ Turns(run, run', {}, {})
<1>1. PICK E, A, r, q : E = DOMAIN fx.el /\ A = 1..Len(fx.anim) /\ r = run /\ q = run'
  OBVIOUS
<1>2. /\ r \in Seq(FrameType(E, A)) /\ r # <<>> /\ r[Len(r)].f = "tick" /\ q = Front(r)
      /\ fx' = [fx EXCEPT !.ticking = fx.timers # <<>>]
  BY <1>1 DEF RunOK, TickOver, TopIs, Top, Below
<1>3. r[Len(r)].f \in {"tick", "stop"}
  BY <1>2
<1>4. q \in Seq(FrameType(E, A)) /\ SameSlots(r, q) /\ Turns(r, q, {}, {})
  BY ONLY <1>2, <1>3, PopTurns
<1>5. FxOK(fx') /\ fx'.el = fx.el /\ fx'.anim = fx.anim /\ fx'.timers = fx.timers
  <2>1. PICK x, y, b, ts : x = fx /\ y = fx' /\ b = (fx.timers # <<>>) /\ ts = fx.timers
    OBVIOUS
  <2>2. FxOK(x) /\ b \in BOOLEAN /\ y = [x EXCEPT !.ticking = b] /\ ts = x.timers
    BY <1>2, <2>1
  <2>3. x = [el |-> x.el, hooks |-> x.hooks, anim |-> x.anim, timers |-> x.timers, ticking |-> x.ticking]
    BY <2>2 DEF FxOK
  <2>4. y = [el |-> x.el, hooks |-> x.hooks, anim |-> x.anim, timers |-> x.timers, ticking |-> b]
    BY ONLY <2>2, <2>3
  <2>5. FxOK(y) /\ y.el = x.el /\ y.anim = x.anim /\ y.timers = x.timers
    BY ONLY <2>2, <2>4 DEF FxOK
  <2> QED
    BY <2>1, <2>5
<1> QED
  BY <1>1, <1>2, <1>4, <1>5

\* An empty stack has no slot.
LEMMA NoSlots ==
  /\ Slots(<<>>) = {}
  /\ \A e : InQueue(fx, e) = {} => Moving(fx, <<>>, e) = {}
<1>1. Slots(<<>>) = {}
  BY DEF Slots
<1> QED
  BY <1>1 DEF Moving

\* The interval fires.
LEMMA TickIs ==
  ASSUME FxOK(fx), RunOK, Tick
  PROVE  /\ fx' = fx /\ run = <<>> /\ Len(run') = 1 /\ run'[1] = TickFrame(1, 0)
         /\ run' \in Seq(FrameType(DOMAIN fx.el, 1..Len(fx.anim)))
         /\ SameSlots(run, run') /\ Turns(run, run', {}, {})
<1>1. PICK E, A, r, q, g : E = DOMAIN fx.el /\ A = 1..Len(fx.anim) /\ r = run /\ q = run' /\ g = TickFrame(1, 0)
  OBVIOUS
<1>2. r \in Seq(FrameType(E, A)) /\ r = <<>> /\ q = <<g>> /\ fx' = fx
  BY <1>1 DEF RunOK, Tick
<1>3. g \in FrameType(E, A) /\ g.f \notin {"todo", "stop"}
  <2>1. g \in FrameType(E, A)
    BY <1>1, TickFrameIs
  <2> QED
    BY <1>1, <2>1 DEF TickFrame
<1>4. q = Pushed(r, g)
  BY <1>2, EmptyBefore DEF Pushed
<1>5. q \in Seq(FrameType(E, A)) /\ SameSlots(r, q)
  BY ONLY <1>2, <1>3, <1>4, PushPlain
<1>6. Turns(r, q, {}, {})
  BY ONLY <1>2, <1>3, <1>4, PlainTurns
<1>7. Len(q) = 1 /\ q[1] = g
  BY <1>2
<1> QED
  BY <1>1, <1>2, <1>5, <1>6, <1>7

\* A complete callback returns.
LEMMA ReturnIs ==
  ASSUME FxOK(fx), RunOK, Return
  PROVE  /\ fx' = fx /\ run # <<>> /\ run[Len(run)] = FnFrame(Top.a) /\ Top.a \in DOMAIN fx.anim
         /\ run' \in Seq(FrameType(DOMAIN fx.el, 1..Len(fx.anim))) /\ run' = Front(run)
         /\ Len(run') = Len(run) - 1 /\ Len(run) \in Nat \ {0} /\ \A i \in 1..Len(run') : run'[i] = run[i]
         /\ SameSlots(run, run')
<1>1. PICK E, A, r, q, t : E = DOMAIN fx.el /\ A = 1..Len(fx.anim) /\ r = run /\ q = run' /\ t = Top
  OBVIOUS
<1>2. r \in Seq(FrameType(E, A)) /\ r # <<>> /\ t.f = "fn" /\ q = Front(r) /\ fx' = fx /\ t = r[Len(r)]
  BY <1>1 DEF RunOK, Return, TopIs, Top, Below
<1>3. t \in FrameType(E, A)
  BY ONLY <1>2
<1>4. t = FnFrame(t.a) /\ t.a \in A
  BY <1>2, <1>3 DEF FrameType, FnFrame
<1>5. r[Len(r)].f # "todo"
  BY <1>2
<1>6. /\ q \in Seq(FrameType(E, A)) /\ Len(q) = Len(r) - 1 /\ Len(r) \in Nat \ {0}
      /\ \A i \in 1..Len(q) : q[i] = r[i]
      /\ SameSlots(r, q)
  BY ONLY <1>2, <1>5, PopPlain
<1>7. A = DOMAIN fx.anim
  BY <1>1, FxParts
<1> QED
  BY <1>1, <1>2, <1>4, <1>6, <1>7

-----------------------------------------------------------------------------
(***************************************************************************)
(* The desktop: what its steps keep.                                       *)
(***************************************************************************)

\* Calls that wait on the desktop.
LEMMA DesktopStackStays ==
  ASSUME NEW x, NEW r, DesktopStack(x, r), NEW y, NEW q, NEW M, NEW S, Turns(r, q, M, S),
         \A c \in S : c.op \in {"dequeue", "complete", "insert"},
         \A a \in DOMAIN y.anim : y.anim[a].queued /\ (y.anim[a].stopped => y.anim[a].state # "pending")
  PROVE  DesktopStack(y, q)
<1>1. \A i \in 1..Len(q) : q[i].f # "stop"
  BY DEF Turns, DesktopStack
<1>2. \A s \in Slots(q) : CallOf(q, s).op \in {"dequeue", "complete", "insert"}
  BY DEF Turns, DesktopStack, Waits
<1> QED
  BY <1>1, <1>2 DEF DesktopStack

\* No window is being opened.
Calm(x, r, d) ==
  /\ \A s \in Slots(r) : CallOf(r, s).op # "insert"
  /\ \A n \in 1..d.opened : Queue(x, Win(n)) \in {<<>>, <<Sentinel>>}

\* While a window is opened, its insertion waits.
LEMMA OpeningWaits ==
  ASSUME NEW r, NEW n, Opening(r, n) \/ Inserting(r, n)
  PROVE  /\ Waits(r, InsertCall(n)) /\ r # <<>> /\ Len(r) = 1 /\ r[Len(r)].f = "todo"
         /\ Opening(r, n) => Head(r[Len(r)].todo) = DequeueCall(Win(n)) /\ CallDone(r) = Todo(<<InsertCall(n), DequeueCall(Button(n))>>)
         /\ Inserting(r, n) => Head(r[Len(r)].todo) = InsertCall(n) /\ CallDone(r) = Todo(<<DequeueCall(Button(n))>>)
<1>1. PICK c, i, k : c = DequeueCall(Win(n)) /\ i = InsertCall(n) /\ k = DequeueCall(Button(n))
  OBVIOUS
<1>2. PICK S : S = {c, i, k}
  OBVIOUS
<1>3. <<c, i, k>> \in Seq(S) /\ <<i, k>> \in Seq(S)
  BY <1>2
<1>4. CASE Opening(r, n)
  <2>1. PICK cs : cs = <<c, i, k>>
    OBVIOUS
  <2>2. cs # <<>> /\ Len(cs) = 3 /\ cs[2] = i /\ Head(cs) = c /\ Tail(cs) = <<i, k>>
    BY <2>1, <1>3
  <2>3. r = <<[f |-> "todo", todo |-> cs]>>
    BY <1>1, <1>4, <2>1, <2>2 DEF Opening, Todo
  <2>4. r # <<>> /\ Len(r) = 1 /\ r[1] = [f |-> "todo", todo |-> cs]
    BY <2>3
  <2>5. <<1, 1>> \in Slots(r) /\ CallOf(r, <<1, 1>>) = i
    BY <2>2, <2>4 DEF Slots, CallOf
  <2>6. CallDone(r) = Todo(<<i, k>>)
    <3>1. Front(r) = <<>>
      BY <2>4 DEF Front
    <3>2. Todo(<<i, k>>) = <<[f |-> "todo", todo |-> <<i, k>>]>>
      BY <1>3 DEF Todo
    <3>3. PICK g : g = [f |-> "todo", todo |-> <<i, k>>]
      OBVIOUS
    <3>4. <<>> \o <<g>> = <<g>>
      BY EmptyBefore
    <3>5. r[Len(r)].todo = cs
      BY <2>4
    <3>6. Tail(r[Len(r)].todo) = <<i, k>>
      BY ONLY <2>2, <3>5
    <3>7. CallDone(r) = Front(r) \o Todo(Tail(r[Len(r)].todo))
      BY DEF CallDone
    <3> QED
      BY <3>1, <3>2, <3>3, <3>4, <3>6, <3>7
  <2>7. r # Todo(<<i, k>>)
    <3>1. Len(<<i, k>>) = 2 /\ <<i, k>> # <<>>
      BY <1>3
    <3>2. PICK g : g = [f |-> "todo", todo |-> <<i, k>>]
      OBVIOUS
    <3>3. Todo(<<i, k>>) = <<g>>
      BY <3>1, <3>2 DEF Todo
    <3>4. g.todo = <<i, k>> /\ <<g>>[1] = g
      BY <3>2
    <3>5. r[1].todo = cs
      BY <2>4
    <3> QED
      BY <2>2, <3>1, <3>3, <3>4, <3>5, SMTT(30)
  <2> QED
    BY <1>1, <2>2, <2>4, <2>5, <2>6, <2>7 DEF Waits, Inserting
<1>5. CASE Inserting(r, n)
  <2>1. PICK cs : cs = <<i, k>>
    OBVIOUS
  <2>2. cs # <<>> /\ Len(cs) = 2 /\ cs[1] = i /\ Head(cs) = i /\ Tail(cs) = <<k>>
    BY <2>1, <1>3
  <2>3. r = <<[f |-> "todo", todo |-> cs]>>
    BY <1>1, <1>5, <2>1, <2>2 DEF Inserting, Todo
  <2>4. r # <<>> /\ Len(r) = 1 /\ r[1] = [f |-> "todo", todo |-> cs]
    BY <2>3
  <2>5. <<1, 1>> \in Slots(r) /\ CallOf(r, <<1, 1>>) = i
    BY <2>2, <2>4 DEF Slots, CallOf
  <2>6. CallDone(r) = Todo(<<k>>)
    <3>1. Front(r) = <<>>
      BY <2>4 DEF Front
    <3>2. Todo(<<k>>) = <<[f |-> "todo", todo |-> <<k>>]>>
      BY DEF Todo
    <3>3. PICK g : g = [f |-> "todo", todo |-> <<k>>]
      OBVIOUS
    <3>4. <<>> \o <<g>> = <<g>>
      BY EmptyBefore
    <3>5. r[Len(r)].todo = cs
      BY <2>4
    <3>6. Tail(r[Len(r)].todo) = <<k>>
      BY ONLY <2>2, <3>5
    <3>7. CallDone(r) = Front(r) \o Todo(Tail(r[Len(r)].todo))
      BY DEF CallDone
    <3> QED
      BY <3>1, <3>2, <3>3, <3>4, <3>6, <3>7
  <2>7. ~Opening(r, n)
    <3>1. Len(<<c, i, k>>) = 3 /\ <<c, i, k>> # <<>>
      BY <1>3
    <3> QED
      BY <1>1, <2>2, <2>4, <3>1 DEF Opening, Todo
  <2> QED
    BY <1>1, <2>2, <2>4, <2>5, <2>6, <2>7 DEF Waits
<1> QED
  BY <1>4, <1>5

\* Where no window is being opened, all are well.
LEMMA CalmWindows ==
  ASSUME NEW x, NEW r, NEW d, Calm(x, r, d)
  PROVE  Windows(x, r, d)
<1>1. ASSUME NEW n, Opening(r, n) \/ Inserting(r, n) PROVE FALSE
  <2>1. Waits(r, InsertCall(n))
    BY <1>1, OpeningWaits
  <2> QED
    BY <2>1 DEF Calm, Waits, InsertCall
<1> QED
  BY <1>1 DEF Calm, Windows

\* The task bar is what its buttons make it.
LEMMA LaidOutStays ==
  ASSUME NEW x, NEW y, NEW d, DOMAIN x.el = ElementsOf(d), \A e \in DOMAIN x.el : y.el[e].inDocument = x.el[e].inDocument, LaidOut(x, d)
  PROVE  LaidOut(y, d)
<1>1. \A n \in 1..d.opened : y.el[Button(n)].inDocument = x.el[Button(n)].inDocument
  BY DEF ElementsOf
<1>2. {n \in 1..d.opened : y.el[Button(n)].inDocument} = {n \in 1..d.opened : x.el[Button(n)].inDocument}
  BY <1>1
<1> QED
  BY <1>2 DEF LaidOut, ToolBRAuto

\* A button goes on to fade in.
LEMMA FadingGoesOn ==
  ASSUME NEW x, NEW r, NEW e, Fading(x, r, e), NEW y, NEW q, NEW M, NEW S, Turns(r, q, M, S),
         \A a \in DOMAIN x.anim : a \in DOMAIN y.anim /\ y.anim[a].elem = x.anim[a].elem,
         \A a \in DOMAIN x.anim : x.anim[a].state = "pending" => y.anim[a].state = "pending" \/ Waits(q, CompleteCall(a)),
         \A a : CompleteCall(a) \in M => \E j \in 1..Len(q) : q[j] = FnFrame(a),
         Waits(r, DequeueCall(e)) /\ Queue(x, e) = <<Item("opaque")>> => Fading(y, q, e)
  PROVE  Fading(y, q, e)
<1>1. CASE \E a \in DOMAIN x.anim : x.anim[a].elem = e /\ x.anim[a].state = "pending"
  BY <1>1 DEF Fading
<1>2. CASE \E a \in DOMAIN x.anim : x.anim[a].elem = e /\ Waits(r, CompleteCall(a))
  <2>1. PICK a \in DOMAIN x.anim : x.anim[a].elem = e /\ Waits(r, CompleteCall(a))
    BY <1>2
  <2>2. Waits(q, CompleteCall(a)) \/ \E j \in 1..Len(q) : q[j] = FnFrame(a)
    BY <2>1 DEF Turns, Waits
  <2> QED
    BY <2>1, <2>2 DEF Fading
<1>3. CASE \E a \in DOMAIN x.anim : x.anim[a].elem = e /\ \E i \in 1..Len(r) : r[i] = FnFrame(a)
  <2>1. PICK a \in DOMAIN x.anim, i \in 1..Len(r) : x.anim[a].elem = e /\ r[i] = FnFrame(a)
    BY <1>3
  <2>2. r[i].f = "fn"
    BY <2>1 DEF FnFrame
  <2>3. \E j \in 1..Len(q) : q[j] = FnFrame(a)
    BY <2>1, <2>2 DEF Turns
  <2> QED
    BY <2>1, <2>3 DEF Fading
<1> QED
  BY <1>1, <1>2, <1>3 DEF Fading

\* Only List has a List that moves with a sentinel.
LEMMA OneStays ==
  ASSUME NEW x, NEW r, NEW y, NEW q, DesktopOne(x, r), List \in DOMAIN x.el, DOMAIN y.el = DOMAIN x.el,
         \A d : Passes(x, r, y, q, d),
         InQueue(y, List) # {} => HasSentinel(y, List)
  PROVE  DesktopOne(y, q)
<1>1. \A e \in DOMAIN y.el : AtMostOne(y, q, e)
  BY PassesKeeps DEF DesktopOne
<1> QED
  BY <1>1 DEF DesktopOne

\* A step of the library that takes nothing from a queue.
LEMMA QuietStep ==
  ASSUME DeskInv, Calm(fx, run, desk), UNCHANGED <<calls, threw, meddled, desk>>,
         FxOK(fx'), run' \in Seq(FrameType(DOMAIN fx'.el, 1..Len(fx'.anim))),
         DOMAIN fx'.el = Elem, \A e \in Elem : SameQueue(fx.el[e], fx'.el[e]),
         \A d : Passes(fx, run, fx', run', d),
         NEW M, NEW S, Turns(run, run', M, S), \A c \in S : c.op \in {"dequeue", "complete"}, \A e : DequeueCall(e) \notin M,
         \A a : CompleteCall(a) \in M => \E j \in 1..Len(run') : run'[j] = FnFrame(a),
         DOMAIN fx'.anim = DOMAIN fx.anim,
         \A a \in DOMAIN fx.anim :
           /\ fx'.anim[a].elem = fx.anim[a].elem /\ fx'.anim[a].queued = fx.anim[a].queued
           /\ fx'.anim[a].stopped => fx.anim[a].stopped
           /\ fx.anim[a].state = "pending" => fx'.anim[a].state = "pending" \/ Waits(run', CompleteCall(a))
           /\ fx'.anim[a].state = "pending" => fx.anim[a].state = "pending"
  PROVE  DeskInv'
<1>1. PICK x, y, r, q, d : x = fx /\ y = fx' /\ r = run /\ q = run' /\ d = desk
  OBVIOUS
<1>2. desk' = d /\ d = desk
  BY <1>1
<1>3. \A e \in DOMAIN x.el : Queue(y, e) = Queue(x, e) /\ y.el[e].inDocument = x.el[e].inDocument /\ y.el[e].finish = x.el[e].finish
  BY <1>1 DEF SameQueue, SameMarks, Queue, Elem
<1>4. DOMAIN y.el = DOMAIN x.el /\ DOMAIN x.el = ElementsOf(d)
  BY <1>1 DEF DeskInv, Elem
<1>5. FxTypeOK' /\ DeskType'
  BY DEF DeskInv, FxTypeOK, DeskType, RunOK
<1>6. QueuesOK(y)
  BY <1>1, <1>3, <1>4 DEF DeskInv, QueuesOK
<1>7. \A e \in DOMAIN y.el : ~y.el[e].finish
  BY <1>1, <1>3, <1>4 DEF DeskInv, Elem
<1>8. DesktopStack(y, q)
  <2>1. DesktopStack(x, r) /\ Turns(r, q, M, S)
    BY <1>1 DEF DeskInv
  <2>2. \A c \in S : c.op \in {"dequeue", "complete", "insert"}
    OBVIOUS
  <2>3. \A a \in DOMAIN y.anim : y.anim[a].queued /\ (y.anim[a].stopped => y.anim[a].state # "pending")
    BY <1>1, <2>1 DEF DesktopStack
  <2> QED
    BY ONLY <2>1, <2>2, <2>3, DesktopStackStays
<1>9. Windows(y, q, d)
  <2>1. \A s \in Slots(q) : CallOf(q, s).op # "insert"
    BY <1>1 DEF Turns, Calm, Waits
  <2>2. \A n \in 1..d.opened : Win(n) \in DOMAIN x.el
    BY <1>4 DEF ElementsOf
  <2>3. \A n \in 1..d.opened : Queue(y, Win(n)) \in {<<>>, <<Sentinel>>}
    BY <1>1, <1>3, <2>2 DEF Calm
  <2> QED
    BY <2>1, <2>3, CalmWindows DEF Calm
<1>10. DesktopOne(y, q)
  <2>1. DesktopOne(x, r) /\ List \in DOMAIN x.el /\ \A e : Passes(x, r, y, q, e)
    BY <1>1, <1>4 DEF DeskInv, ElementsOf
  <2>2. InQueue(y, List) \subseteq InQueue(x, List)
    BY <1>1 DEF InQueue
  <2>3. InQueue(y, List) # {} => HasSentinel(y, List)
    BY <1>3, <2>1, <2>2 DEF DesktopOne, HasSentinel
  <2> QED
    BY ONLY <1>4, <2>1, <2>3, OneStays
<1>11. LaidOut(y, d) \/ \E n \in 1..d.opened : Fading(y, q, Button(n))
  <2>1. CASE LaidOut(x, d)
    BY <1>3, <1>4, <2>1, LaidOutStays
  <2>2. CASE \E n \in 1..d.opened : Fading(x, r, Button(n))
    <3>1. PICK n \in 1..d.opened : Fading(x, r, Button(n))
      BY <2>2
    <3>2. PICK e : e = Button(n)
      OBVIOUS
    <3>3. e \in DOMAIN x.el
      BY <1>4, <3>2 DEF ElementsOf
    <3>4. Waits(r, DequeueCall(e)) /\ Queue(x, e) = <<Item("opaque")>> => Fading(y, q, e)
      <4>1. Waits(r, DequeueCall(e)) => Waits(q, DequeueCall(e))
        BY <1>1 DEF Turns, Waits
      <4> QED
        BY <1>3, <3>3, <4>1 DEF Fading
    <3>5. /\ \A a \in DOMAIN x.anim : a \in DOMAIN y.anim /\ y.anim[a].elem = x.anim[a].elem
          /\ \A a \in DOMAIN x.anim : x.anim[a].state = "pending" => y.anim[a].state = "pending" \/ Waits(q, CompleteCall(a))
          /\ \A a : CompleteCall(a) \in M => \E j \in 1..Len(q) : q[j] = FnFrame(a)
          /\ Turns(r, q, M, S) /\ Fading(x, r, e)
      BY <1>1, <3>1, <3>2
    <3>6. Fading(y, q, e)
      BY ONLY <3>4, <3>5, FadingGoesOn
    <3> QED
      BY <3>2, <3>6
  <2> QED
    BY <1>1, <2>1, <2>2 DEF DeskInv, Opened
<1> QED
  BY <1>1, <1>2, <1>4, <1>5, <1>6, <1>7, <1>8, <1>9, <1>10, <1>11 DEF DeskInv, Elem, Opened

\* What calls the top of the stack when a window is opened.
LEMMA CalmOr ==
  ASSUME DeskInv
  PROVE  \/ Calm(fx, run, desk)
         \/ \E n \in 1..desk.opened : Opening(run, n) /\ run # <<>> /\ run[Len(run)].f = "todo" /\ Head(run[Len(run)].todo) = DequeueCall(Win(n))
         \/ \E n \in 1..desk.opened : Inserting(run, n) /\ run # <<>> /\ run[Len(run)].f = "todo" /\ Head(run[Len(run)].todo) = InsertCall(n)
<1>1. CASE \E n \in 1..desk.opened : Opening(run, n)
  BY <1>1, OpeningWaits
<1>2. CASE \E n \in 1..desk.opened : Inserting(run, n)
  BY <1>2, OpeningWaits
<1>3. CASE \A n \in 1..desk.opened : ~(Opening(run, n) \/ Inserting(run, n))
  BY <1>3 DEF DeskInv, Windows, Calm
<1> QED
  BY <1>1, <1>2, <1>3

\* A step that shows no window of the document.
ShowsNone == \A n \in Opened : fx.el[Win(n)].inDocument /\ fx'.el[Win(n)].visible => fx.el[Win(n)].visible

\* A step that shows nothing shows no window.
LEMMA ShowsNoneIs ==
  ASSUME DeskInv, \A e \in Elem : fx'.el[e].visible => fx.el[e].visible
  PROVE  ShowsNone
BY DEF ShowsNone, DeskInv, Opened, ElementsOf

\* Nothing stops on the desktop, and nothing runs beside a queue.
LEMMA NeverOnDesktop ==
  ASSUME DeskInv
  PROVE  ~(DoStart \/ DoUnqueued \/ DoFinished \/ StopNext \/ StopSplice \/ StopOver)
<1>1. RunOK /\ DesktopStack(fx, run)
  BY DEF DeskInv, FxTypeOK
<1>2. ASSUME NEW op, CallIs(op) PROVE op \in {"dequeue", "complete", "insert"}
  <2>1. run # <<>> /\ run[Len(run)].f = "todo" /\ Call = Head(run[Len(run)].todo) /\ Call.op = op
    BY <1>1, <1>2, TopCall
  <2>2. PICK s0 \in Slots(run) : CallOf(run, s0) = Call
    BY <1>1, <2>1, RestOK
  <2> QED
    BY <1>1, <2>1, <2>2 DEF DesktopStack
<1>3. ~TopIs("stop")
  <2>1. run \in Seq(FrameType(DOMAIN fx.el, 1..Len(fx.anim)))
    BY <1>1 DEF RunOK
  <2>2. run # <<>> => Len(run) \in 1..Len(run)
    BY <2>1
  <2> QED
    BY <1>1, <2>2 DEF DesktopStack, TopIs, Top
<1>4. ~CallIs("start") /\ ~CallIs("unqueued") /\ ~CallIs("finished")
  BY <1>2
<1> QED
  BY <1>3, <1>4 DEF DoStart, DoUnqueued, DoFinished, StopNext, StopSplice, StopOver

\* What holds of the parts.
LEMMA DeskParts ==
  ASSUME DeskInv
  PROVE  /\ FxOK(fx) /\ RunOK /\ QueuesOK(fx) /\ Elem = ElementsOf(desk) /\ DesktopStack(fx, run)
         /\ \A e \in Elem : SameQueue(fx.el[e], fx.el[e])
         /\ desk.opened \in Nat /\ desk \in [clicks : Nat, room : Fits, opened : Nat, vertical : BOOLEAN, listButton : BOOLEAN]
BY DEF DeskInv, FxTypeOK, SameQueue, SameMarks, DeskType

\* A complete callback is called.
LEMMA CompleteOnDesktop ==
  ASSUME DeskInv, DoComplete, UNCHANGED desk
  PROVE  DeskInv' /\ ShowsNone
<1>1. FxOK(fx) /\ RunOK
  BY DeskParts
<1>2. PICK a : a = Call.a
  OBVIOUS
<1>3. PICK M, S : M = {CompleteCall(a)} /\ S = {DequeueCall(fx.anim[a].elem)}
  OBVIOUS
<1>4. /\ fx' = fx /\ run' \in Seq(FrameType(DOMAIN fx.el, 1..Len(fx.anim)))
      /\ Turns(run, run', M, S)
      /\ \E j \in 1..Len(run') : run'[j] = FnFrame(a)
      /\ \A d : Passes(fx, run, fx, run', d)
  BY <1>1, <1>2, <1>3, CompleteTurns
<1>5. run # <<>> /\ Head(run[Len(run)].todo) = CompleteCall(a)
  BY <1>1, <1>2, CompleteIs
<1>6. Calm(fx, run, desk)
  <2>1. ASSUME NEW e PROVE CompleteCall(a) # DequeueCall(e)
    BY DEF CompleteCall, DequeueCall
  <2>2. ASSUME NEW n PROVE CompleteCall(a) # InsertCall(n)
    BY DEF CompleteCall, InsertCall
  <2> QED
    BY <1>5, <2>1, <2>2, CalmOr
<1>7. \A c \in S : c.op \in {"dequeue", "complete"}
  BY <1>3 DEF DequeueCall
<1>8. (\A e : DequeueCall(e) \notin M) /\ \A b : CompleteCall(b) \in M => b = a
  BY <1>3 DEF DequeueCall, CompleteCall
<1>9. UNCHANGED <<calls, threw, meddled, desk>>
  BY DEF DoComplete
<1>10. \A e \in Elem : SameQueue(fx.el[e], fx'.el[e])
  BY <1>4, DeskParts
<1>11. DeskInv'
  <2>1. /\ FxOK(fx') /\ DOMAIN fx'.el = Elem /\ DOMAIN fx'.anim = DOMAIN fx.anim
        /\ run' \in Seq(FrameType(DOMAIN fx'.el, 1..Len(fx'.anim)))
        /\ \A d : Passes(fx, run, fx', run', d)
    BY <1>1, <1>4 DEF Elem
  <2>2. \A b : CompleteCall(b) \in M => \E j \in 1..Len(run') : run'[j] = FnFrame(b)
    BY <1>4, <1>8
  <2> QED
    BY <1>4, <1>6, <1>7, <1>8, <1>9, <1>10, <2>1, <2>2, QuietStep
<1> QED
  BY <1>10, <1>11, ShowsNoneIs DEF SameQueue

\* The steps that change neither an animation nor a slot.
LEMMA SlotsStep ==
  ASSUME DeskInv, Calm(fx, run, desk), UNCHANGED <<calls, threw, meddled, desk>>,
         FxOK(fx'), fx'.el = fx.el, fx'.anim = fx.anim,
         run' \in Seq(FrameType(DOMAIN fx.el, 1..Len(fx.anim))), SameSlots(run, run'), Turns(run, run', {}, {})
  PROVE  DeskInv' /\ ShowsNone
<1>1. PICK N : N = {}
  OBVIOUS
<1>2. Turns(run, run', N, N) /\ (\A c \in N : c.op \in {"dequeue", "complete"}) /\ (\A e : DequeueCall(e) \notin N)
      /\ \A a : CompleteCall(a) \in N => \E j \in 1..Len(run') : run'[j] = FnFrame(a)
  BY <1>1
<1>3. FxOK(fx) /\ RunOK /\ \A e \in Elem : SameQueue(fx.el[e], fx.el[e])
  BY DeskParts
<1>4. \A d : Passes(fx, run, fx', run', d)
  BY <1>3, SlotsPass
<1>5. DOMAIN fx'.el = Elem /\ DOMAIN fx'.anim = DOMAIN fx.anim /\ run' \in Seq(FrameType(DOMAIN fx'.el, 1..Len(fx'.anim)))
      /\ \A e \in Elem : SameQueue(fx.el[e], fx'.el[e])
  BY <1>3 DEF Elem
<1>6. \A a \in DOMAIN fx.anim :
        /\ fx'.anim[a].elem = fx.anim[a].elem /\ fx'.anim[a].queued = fx.anim[a].queued
        /\ fx'.anim[a].stopped => fx.anim[a].stopped
        /\ fx.anim[a].state = "pending" => fx'.anim[a].state = "pending" \/ Waits(run', CompleteCall(a))
        /\ fx'.anim[a].state = "pending" => fx.anim[a].state = "pending"
  OBVIOUS
<1>7. DeskInv'
  BY <1>2, <1>4, <1>5, <1>6, QuietStep
<1> QED
  BY <1>5, <1>7, ShowsNoneIs DEF SameQueue

\* The interval.
LEMMA TickOnDesktop ==
  ASSUME DeskInv, Tick \/ TimerOver \/ TickOver, UNCHANGED desk
  PROVE  DeskInv' /\ ShowsNone
<1>1. FxOK(fx) /\ RunOK
  BY DeskParts
<1>2. UNCHANGED <<calls, threw, meddled, desk>>
  BY DEF Tick, TimerOver, TickOver
<1>3. /\ FxOK(fx') /\ fx'.el = fx.el /\ fx'.anim = fx.anim
      /\ run' \in Seq(FrameType(DOMAIN fx.el, 1..Len(fx.anim))) /\ SameSlots(run, run') /\ Turns(run, run', {}, {})
      /\ run = <<>> \/ run[Len(run)].f = "tick"
  <2>1. CASE Tick
    BY <1>1, <2>1, TickIs
  <2>2. CASE TimerOver
    BY <1>1, <2>2, TimerOverIs
  <2>3. CASE TickOver
    BY <1>1, <2>3, TickOverIs
  <2> QED
    BY <2>1, <2>2, <2>3
<1>4. Calm(fx, run, desk)
  BY <1>3, CalmOr
<1> QED
  BY <1>2, <1>3, <1>4, SlotsStep

\* A timer is called.
LEMMA TimerOnDesktop ==
  ASSUME DeskInv, TimerCalled, UNCHANGED desk
  PROVE  DeskInv' /\ ShowsNone
<1>1. FxOK(fx) /\ RunOK /\ DesktopStack(fx, run) /\ \A e \in Elem : SameQueue(fx.el[e], fx.el[e])
  BY DeskParts
<1>2. UNCHANGED <<calls, threw, meddled, desk>>
  BY Zenon DEF TimerCalled
<1>3. /\ run # <<>> /\ run[Len(run)].f = "tick" /\ FxOK(fx')
      /\ run' \in Seq(FrameType(DOMAIN fx'.el, 1..Len(fx'.anim))) /\ \A d : Passes(fx, run, fx', run', d)
  BY <1>1, TimerCalledIs, TimerPasses
<1>4. Calm(fx, run, desk)
  BY <1>3, CalmOr
<1>5. PICK a \in DOMAIN fx.anim :
        /\ Only(fx, fx', fx.anim[a].elem) /\ SameQueue(fx.el[fx.anim[a].elem], fx'.el[fx.anim[a].elem])
        /\ \/ SameAnims(fx, fx') /\ Turns(run, run', {}, {})
           \/ /\ fx.anim[a].state = "pending" /\ ~fx.anim[a].stopped /\ Settles(fx, fx', a, "resolved") /\ ~fx'.anim[a].stopped
              /\ Turns(run, run', {}, IF fx.anim[a].queued THEN {CompleteCall(a)} ELSE {CompleteCall(a), UnqueuedCall(a)})
              /\ Waits(run', CompleteCall(a))
  BY <1>1, TimerTurns
<1>6. DOMAIN fx'.el = Elem /\ \A e \in Elem : SameQueue(fx.el[e], fx'.el[e])
  BY <1>1, <1>5 DEF Only, Elem
<1>7. PICK N : N = {}
  OBVIOUS
<1>8. (\A e : DequeueCall(e) \notin N) /\ \A b : CompleteCall(b) \in N => \E j \in 1..Len(run') : run'[j] = FnFrame(b)
  BY <1>7
<1>9. CASE SameAnims(fx, fx') /\ Turns(run, run', {}, {})
  <2>1. Turns(run, run', N, N) /\ \A c \in N : c.op \in {"dequeue", "complete"}
    BY <1>7, <1>9
  <2>2. /\ DOMAIN fx'.anim = DOMAIN fx.anim
        /\ \A b \in DOMAIN fx.anim :
             /\ fx'.anim[b].elem = fx.anim[b].elem /\ fx'.anim[b].queued = fx.anim[b].queued
             /\ fx'.anim[b].stopped => fx.anim[b].stopped
             /\ fx.anim[b].state = "pending" => fx'.anim[b].state = "pending" \/ Waits(run', CompleteCall(b))
             /\ fx'.anim[b].state = "pending" => fx.anim[b].state = "pending"
    BY <1>9 DEF SameAnims
  <2>3. DeskInv'
    BY <1>2, <1>3, <1>4, <1>6, <1>8, <2>1, <2>2, QuietStep
  <2> QED
    BY <1>6, <2>3, ShowsNoneIs DEF SameQueue
<1>10. CASE /\ fx.anim[a].state = "pending" /\ ~fx.anim[a].stopped /\ Settles(fx, fx', a, "resolved") /\ ~fx'.anim[a].stopped
            /\ Turns(run, run', {}, IF fx.anim[a].queued THEN {CompleteCall(a)} ELSE {CompleteCall(a), UnqueuedCall(a)})
            /\ Waits(run', CompleteCall(a))
  <2>1. PICK S : S = {CompleteCall(a)}
    OBVIOUS
  <2>2. fx.anim[a].queued
    BY <1>1 DEF DesktopStack
  <2>3. Turns(run, run', N, S) /\ \A c \in S : c.op \in {"dequeue", "complete"}
    BY <1>7, <1>10, <2>1, <2>2 DEF CompleteCall
  <2>4. /\ DOMAIN fx'.anim = DOMAIN fx.anim
        /\ \A b \in DOMAIN fx.anim :
             /\ fx'.anim[b].elem = fx.anim[b].elem /\ fx'.anim[b].queued = fx.anim[b].queued
             /\ fx'.anim[b].stopped => fx.anim[b].stopped
             /\ fx.anim[b].state = "pending" => fx'.anim[b].state = "pending" \/ Waits(run', CompleteCall(b))
             /\ fx'.anim[b].state = "pending" => fx.anim[b].state = "pending"
    BY <1>10 DEF Settles
  <2>5. DeskInv'
    BY <1>2, <1>3, <1>4, <1>6, <1>8, <2>3, <2>4, QuietStep
  <2> QED
    BY <1>6, <2>5, ShowsNoneIs DEF SameQueue
<1> QED
  BY <1>5, <1>9, <1>10

\* Of the windows one is opened at a time.
LEMMA OpeningOne ==
  ASSUME NEW r, NEW m, NEW n, Opening(r, m) \/ Inserting(r, m), Opening(r, n) \/ Inserting(r, n)
  PROVE  m = n
<1>1. ASSUME NEW e, NEW k PROVE DequeueCall(e) # InsertCall(k)
  BY DEF DequeueCall, InsertCall
<1>2. CASE Opening(r, m)
  <2>1. Head(r[Len(r)].todo) = DequeueCall(Win(m))
    BY <1>2, OpeningWaits
  <2>2. Opening(r, n)
    BY <1>1, <2>1, OpeningWaits
  <2>3. Head(r[Len(r)].todo) = DequeueCall(Win(n))
    BY <2>2, OpeningWaits
  <2> QED
    BY <2>1, <2>3 DEF DequeueCall, Win
<1>3. CASE Inserting(r, m)
  <2>1. Head(r[Len(r)].todo) = InsertCall(m)
    BY <1>3, OpeningWaits
  <2>2. Inserting(r, n)
    BY <1>1, <2>1, OpeningWaits
  <2>3. Head(r[Len(r)].todo) = InsertCall(n)
    BY <2>2, OpeningWaits
  <2> QED
    BY <2>1, <2>3 DEF InsertCall
<1> QED
  BY <1>2, <1>3

\* The window's first dequeue: its animation begins before it is inserted.
LEMMA WindowBegins ==
  ASSUME DeskInv, DoDequeue, NEW n \in 1..desk.opened, Opening(run, n)
  PROVE  Windows(fx', run', desk) /\ Call.e = Win(n) /\ ~fx.el[Win(n)].inDocument
<1>1. PICK e, rest, x, y, r, q, d, a : e = Call.e /\ rest = CallDone(run) /\ x = fx /\ y = fx' /\ r = run /\ q = run' /\ d = desk
                                   /\ a = Len(fx.anim) + 1
  OBVIOUS
<1>2. FxOK(x) /\ RunOK /\ QueuesOK(x) /\ Windows(x, r, d) /\ DOMAIN x.el = ElementsOf(d) /\ ~x.el[Win(n)].finish
  BY <1>1 DEF DeskInv, FxTypeOK, Elem, ElementsOf
<1>3. /\ e \in DOMAIN x.el /\ r # <<>> /\ r[Len(r)].f = "todo" /\ Head(r[Len(r)].todo) = DequeueCall(e)
      /\ Only(x, y, e) /\ SameMarks(x.el[e], y.el[e])
      /\ Empties(x, y, q, e, rest) \/ StartsNext(x, y, q, e, rest)
  BY <1>1, <1>2, DequeueIs DEF Elem
<1>4. e = Win(n) /\ rest = Todo(<<InsertCall(n), DequeueCall(Button(n))>>)
  <2>1. Head(r[Len(r)].todo) = DequeueCall(Win(n)) /\ CallDone(r) = Todo(<<InsertCall(n), DequeueCall(Button(n))>>)
    BY <1>1, OpeningWaits
  <2> QED
    BY <1>1, <1>3, <2>1 DEF DequeueCall
<1>5. ~x.el[Win(n)].inDocument
  BY <1>1, <1>2 DEF Windows
<1>6. Queue(y, e) \in {<<>>, <<Sentinel>>} /\ q = rest
  <2>1. CASE Empties(x, y, q, e, rest)
    BY <2>1 DEF Empties
  <2>2. CASE StartsNext(x, y, q, e, rest)
    <3>1. PICK item \in ItemType :
            /\ item.queued /\ Starts(x, y, q, e, item, rest)
            /\ Queue(x, e) \notin {<<>>, <<Sentinel>>}
            /\ \A i \in ItemType : Queue(x, e) = <<i>> => i = item /\ Queue(y, e) = <<Sentinel>>
      BY <2>2 DEF StartsNext
    <3>2. Queue(x, e) = <<Item("show")>>
      BY <1>1, <1>2, <1>4, <3>1 DEF Windows
    <3>3. Item("show") \in ItemType
      BY DEF Item, ItemType, Whats
    <3>4. item = Item("show") /\ Queue(y, e) = <<Sentinel>>
      BY <3>1, <3>2, <3>3
    <3>5. item.what = "show" /\ IsHidden(x.el[e]) /\ ~x.el[e].finish
      BY <1>2, <1>4, <1>5, <3>4 DEF Item, IsHidden
    <3>6. q = rest
      BY <3>1, <3>5 DEF Starts
    <3> QED
      BY <3>4, <3>6
  <2> QED
    BY <1>3, <2>1, <2>2
<1>7. Inserting(q, n)
  BY <1>4, <1>6 DEF Inserting
<1>8. \A m \in 1..d.opened : Queue(y, Win(m)) \in {<<>>, <<Sentinel>>}
  <2>1. SUFFICES ASSUME NEW m \in 1..d.opened, Win(m) # e PROVE Queue(y, Win(m)) \in {<<>>, <<Sentinel>>}
    BY <1>6
  <2>2. ~Opening(r, m)
    BY <1>1, <1>4, <2>1, OpeningOne
  <2>3. Win(m) \in DOMAIN x.el /\ y.el[Win(m)] = x.el[Win(m)]
    BY <1>2, <1>3, <2>1 DEF ElementsOf, Only
  <2>4. Queue(y, Win(m)) = Queue(x, Win(m))
    BY <2>3 DEF Queue
  <2> QED
    BY <1>2, <2>2, <2>4 DEF Windows
<1>9. \A m \in 1..d.opened : Opening(q, m) \/ Inserting(q, m) => ~y.el[Win(m)].inDocument
  <2>1. \A m \in 1..d.opened : Opening(q, m) \/ Inserting(q, m) => m = n
    BY <1>7, OpeningOne
  <2>2. ~y.el[Win(n)].inDocument
    BY <1>3, <1>4, <1>5 DEF SameMarks
  <2> QED
    BY <2>1, <2>2
<1>10. \A s \in Slots(q) : CallOf(q, s).op = "insert" => \E m \in 1..d.opened : CallOf(q, s) = InsertCall(m) /\ (Opening(q, m) \/ Inserting(q, m))
  <2>1. PICK s0 : Without(r, rest, s0)
    BY <1>1, <1>2, <1>3, RestOK
  <2>2. SUFFICES ASSUME NEW s \in Slots(q), CallOf(q, s).op = "insert"
                 PROVE  CallOf(q, s) = InsertCall(n)
    BY <1>1, <1>7
  <2>3. s \in Slots(r) /\ CallOf(q, s) = CallOf(r, s)
    BY <1>6, <2>1, <2>2 DEF Without
  <2>4. PICK m \in 1..d.opened : CallOf(r, s) = InsertCall(m) /\ (Opening(r, m) \/ Inserting(r, m))
    BY <1>2, <2>2, <2>3 DEF Windows
  <2>5. m = n
    BY <1>1, <2>4, OpeningOne
  <2> QED
    BY <2>3, <2>4, <2>5
<1> QED
  BY <1>1, <1>4, <1>5, <1>8, <1>9, <1>10 DEF Windows

\* The next in a queue starts.
LEMMA DequeueOnDesktop ==
  ASSUME DeskInv, DoDequeue, UNCHANGED desk
  PROVE  DeskInv' /\ ShowsNone
<1>1. PICK e, rest, x, y, r, q, d, a : e = Call.e /\ rest = CallDone(run) /\ x = fx /\ y = fx' /\ r = run /\ q = run' /\ d = desk
                                   /\ a = Len(fx.anim) + 1
  OBVIOUS
<1>2. /\ FxOK(x) /\ RunOK /\ QueuesOK(x) /\ Windows(x, r, d) /\ DOMAIN x.el = ElementsOf(d) /\ DesktopStack(x, r) /\ DesktopOne(x, r)
      /\ \A c \in DOMAIN x.el : ~x.el[c].finish
  BY <1>1 DEF DeskInv, FxTypeOK, Elem
<1>3. /\ e \in DOMAIN x.el /\ r # <<>> /\ r[Len(r)].f = "todo" /\ Head(r[Len(r)].todo) = DequeueCall(e)
      /\ FxOK(y) /\ QueuesOK(y) /\ Only(x, y, e) /\ SameMarks(x.el[e], y.el[e])
      /\ Empties(x, y, q, e, rest) \/ StartsNext(x, y, q, e, rest)
  BY <1>1, <1>2, DequeueIs DEF Elem
<1>4. PICK M, S : M = {DequeueCall(e)} /\ S = {CompleteCall(a)}
  OBVIOUS
<1>5. /\ q \in Seq(FrameType(DOMAIN y.el, 1..Len(y.anim)))
      /\ Turns(r, q, M, S)
      /\ ~Empties(x, y, q, e, rest) => y.anim[a].state = "pending" \/ Waits(q, CompleteCall(a))
  BY <1>1, <1>2, <1>4, DequeueTurns
<1>6. \A c \in DOMAIN x.el : SameMarks(x.el[c], y.el[c]) /\ (c # e => y.el[c] = x.el[c])
  BY <1>3 DEF Only, SameMarks
<1>7. \A c \in DOMAIN x.el : c # e => Queue(y, c) = Queue(x, c)
  BY <1>6 DEF Queue
<1>8. /\ \A b \in DOMAIN x.anim : b \in DOMAIN y.anim /\ y.anim[b] = x.anim[b]
      /\ \A b \in DOMAIN y.anim \ DOMAIN x.anim : b = a /\ y.anim[b].queued /\ y.anim[b].elem = e
                                                  /\ (y.anim[b].stopped => y.anim[b].state # "pending")
      /\ ~Empties(x, y, q, e, rest) => a \in DOMAIN y.anim \ DOMAIN x.anim
  <2>1. CASE Empties(x, y, q, e, rest)
    BY <2>1 DEF Empties
  <2>2. CASE StartsNext(x, y, q, e, rest)
    <3>1. PICK item \in ItemType : item.queued /\ Starts(x, y, q, e, item, rest)
      BY <2>2 DEF StartsNext
    <3>2. Len(x.anim) \in Nat /\ DOMAIN x.anim = 1..Len(x.anim)
      BY <1>2, FxParts
    <3>3. PICK n : n = Len(x.anim)
      OBVIOUS
    <3>4. a = n + 1 /\ n \in Nat /\ DOMAIN x.anim = 1..n
      BY <1>1, <3>2, <3>3
    <3>5. Began(x, y, e, item)
      BY <3>1 DEF Starts
    <3>6. /\ DOMAIN y.anim = 1..a /\ \A b \in DOMAIN x.anim : y.anim[b] = x.anim[b]
          /\ y.anim[a].elem = e /\ y.anim[a].queued = item.queued
          /\ y.anim[a].state = "pending" => ~y.anim[a].stopped
      BY <3>3, <3>4, <3>5 DEF Began
    <3>7. \A b \in DOMAIN x.anim : b \in DOMAIN y.anim
      BY <3>4, <3>6
    <3>8. \A b \in DOMAIN y.anim \ DOMAIN x.anim : b = a
      BY <3>4, <3>6
    <3>9. a \in DOMAIN y.anim \ DOMAIN x.anim
      BY <3>4, <3>6
    <3>10. y.anim[a].queued /\ y.anim[a].elem = e /\ (y.anim[a].stopped => y.anim[a].state # "pending")
      <4>1. item.queued
        BY <3>1
      <4> QED
        BY ONLY <3>6, <4>1
    <3> QED
      BY ONLY <3>6, <3>7, <3>8, <3>9, <3>10
  <2> QED
    BY <1>3, <2>1, <2>2
<1>9. DesktopStack(y, q)
  <2>1. \A c \in S : c.op \in {"dequeue", "complete", "insert"}
    BY <1>4 DEF CompleteCall
  <2>2. \A b \in DOMAIN y.anim : y.anim[b].queued /\ (y.anim[b].stopped => y.anim[b].state # "pending")
    BY <1>2, <1>8 DEF DesktopStack
  <2>3. DesktopStack(x, r) /\ Turns(r, q, M, S)
    BY <1>2, <1>5
  <2> QED
    BY ONLY <2>1, <2>2, <2>3, DesktopStackStays
<1>10. Windows(y, q, d) /\ \A n \in 1..d.opened : x.el[Win(n)].inDocument /\ y.el[Win(n)].visible => x.el[Win(n)].visible
  <2>1. CASE Calm(x, r, d)
    <3>1. \A s \in Slots(q) : CallOf(q, s).op # "insert"
      BY <1>4, <1>5, <2>1 DEF Turns, Calm, Waits, CompleteCall
    <3>2. ASSUME NEW n \in 1..d.opened
          PROVE  Queue(y, Win(n)) \in {<<>>, <<Sentinel>>} /\ y.el[Win(n)].visible = x.el[Win(n)].visible
      <4>1. Win(n) \in DOMAIN x.el
        BY <1>2 DEF ElementsOf
      <4>2. CASE Win(n) # e
        BY <1>6, <1>7, <2>1, <4>1, <4>2 DEF Calm
      <4>3. CASE Win(n) = e
        <5>1. Queue(x, e) \in {<<>>, <<Sentinel>>}
          BY <2>1, <4>3 DEF Calm
        <5>2. Empties(x, y, q, e, rest)
          BY <1>3, <5>1 DEF StartsNext
        <5> QED
          BY <4>3, <5>2 DEF Empties
      <4> QED
        BY <4>2, <4>3
    <3> QED
      BY <3>1, <3>2, CalmWindows DEF Calm
  <2>2. ASSUME NEW n \in 1..d.opened, Opening(r, n)
        PROVE  Windows(y, q, d) /\ \A m \in 1..d.opened : x.el[Win(m)].inDocument /\ y.el[Win(m)].visible => x.el[Win(m)].visible
    <3>1. Windows(y, q, d) /\ e = Win(n) /\ ~x.el[Win(n)].inDocument
      BY <1>1, <2>2, WindowBegins
    <3>2. \A m \in 1..d.opened : Win(m) \in DOMAIN x.el /\ (m # n => Win(m) # e)
      BY <1>2, <3>1 DEF ElementsOf, Win
    <3> QED
      BY <1>6, <3>1, <3>2
  <2>3. ASSUME NEW n, InsertCall(n) = DequeueCall(e) PROVE FALSE
    BY <2>3 DEF InsertCall, DequeueCall
  <2> QED
    BY <1>1, <1>3, <2>1, <2>2, <2>3, CalmOr
<1>11. DesktopOne(y, q)
  <2>1. \A c : Passes(x, r, y, q, c)
    BY <1>1, <1>2, DequeuePasses
  <2>2. List \in DOMAIN x.el /\ DOMAIN y.el = DOMAIN x.el
    BY <1>2, <1>3 DEF ElementsOf, Only
  <2>3. InQueue(y, List) # {} => HasSentinel(y, List)
    <3>1. CASE e # List
      <4>1. InQueue(y, List) \subseteq InQueue(x, List)
        BY <1>8, <3>1 DEF InQueue
      <4>2. Queue(y, List) = Queue(x, List)
        BY <1>7, <2>2, <3>1
      <4> QED
        BY <1>2, <4>1, <4>2 DEF DesktopOne, HasSentinel
    <3>2. CASE e = List /\ Empties(x, y, q, e, rest)
      <4>1. PICK s0 \in Slots(r) : CallOf(r, s0) = DequeueCall(e)
        BY <1>1, <1>2, <1>3, RestOK
      <4>2. s0 \in Moving(x, r, List)
        BY <3>2, <4>1 DEF Moving, GoesOn
      <4>3. ASSUME NEW b \in InQueue(x, List) PROVE FALSE
        <5>1. <<0, b>> \in Moving(x, r, List)
          BY <4>3 DEF Moving
        <5>2. <<0, b>> = s0
          BY <1>2, <2>2, <4>2, <5>1 DEF DesktopOne, AtMostOne
        <5> QED
          BY <1>1, <1>2, <5>2, SlotsArePositive DEF RunOK
      <4>4. InQueue(y, List) = InQueue(x, List)
        BY <3>2 DEF Empties, InQueue
      <4> QED
        BY <4>3, <4>4
    <3>3. CASE e = List /\ StartsNext(x, y, q, e, rest)
      BY <3>3 DEF StartsNext
    <3> QED
      BY <1>3, <3>1, <3>2, <3>3
  <2>4. DesktopOne(x, r)
    BY <1>2
  <2> QED
    BY ONLY <2>1, <2>2, <2>3, <2>4, OneStays
<1>12. LaidOut(y, d) \/ \E n \in 1..d.opened : Fading(y, q, Button(n))
  <2>1. CASE LaidOut(x, d)
    <3>1. \A c \in DOMAIN x.el : y.el[c].inDocument = x.el[c].inDocument
      BY <1>6 DEF SameMarks
    <3> QED
      BY <1>2, <2>1, <3>1, LaidOutStays
  <2>2. CASE \E n \in 1..d.opened : Fading(x, r, Button(n))
    <3>1. PICK n \in 1..d.opened : Fading(x, r, Button(n))
      BY <2>2
    <3>2. PICK c : c = Button(n)
      OBVIOUS
    <3>3. c \in DOMAIN x.el
      BY <1>2, <3>2 DEF ElementsOf
    <3>4. Waits(r, DequeueCall(c)) /\ Queue(x, c) = <<Item("opaque")>> => Fading(y, q, c)
      <4>1. SUFFICES ASSUME Waits(r, DequeueCall(c)), Queue(x, c) = <<Item("opaque")>> PROVE Fading(y, q, c)
        OBVIOUS
      <4>2. CASE c # e
        <5>1. DequeueCall(c) \notin M
          BY <1>4, <4>2 DEF DequeueCall
        <5>2. Waits(q, DequeueCall(c))
          BY <1>5, <4>1, <5>1 DEF Turns, Waits
        <5> QED
          BY <1>7, <3>3, <4>1, <4>2, <5>2 DEF Fading
      <4>3. CASE c = e
        <5>1. ~Empties(x, y, q, e, rest)
          <6>1. <<Item("opaque")>> # <<>> /\ <<Item("opaque")>>[1] = Item("opaque") /\ <<Sentinel>>[1] = Sentinel
            OBVIOUS
          <6>2. Item("opaque") # Sentinel
            BY DEF Item, Sentinel
          <6> QED
            BY <4>1, <4>3, <6>1, <6>2 DEF Empties
        <5>2. a \in DOMAIN y.anim /\ y.anim[a].elem = e
          BY <1>8, <5>1
        <5> QED
          BY <1>5, <4>3, <5>1, <5>2 DEF Fading
      <4> QED
        BY <4>2, <4>3
    <3>5. \A b : CompleteCall(b) \notin M
      BY <1>4 DEF CompleteCall, DequeueCall
    <3>6. /\ \A b \in DOMAIN x.anim : b \in DOMAIN y.anim /\ y.anim[b].elem = x.anim[b].elem
          /\ \A b \in DOMAIN x.anim : x.anim[b].state = "pending" => y.anim[b].state = "pending" \/ Waits(q, CompleteCall(b))
          /\ \A b : CompleteCall(b) \in M => \E j \in 1..Len(q) : q[j] = FnFrame(b)
          /\ Turns(r, q, M, S) /\ Fading(x, r, c)
      BY <1>5, <1>8, <3>1, <3>2, <3>5
    <3>7. Fading(y, q, c)
      BY ONLY <3>4, <3>6, FadingGoesOn
    <3> QED
      BY <3>2, <3>7
  <2> QED
    BY <1>1, <2>1, <2>2 DEF DeskInv, Opened
<1>13. FxTypeOK' /\ DeskType'
  <2>1. UNCHANGED <<calls, threw, meddled, desk>>
    BY DEF DoDequeue
  <2> QED
    BY <1>1, <1>3, <1>5, <2>1 DEF DeskInv, FxTypeOK, DeskType, RunOK
<1>14. DOMAIN y.el = ElementsOf(d) /\ \A c \in DOMAIN y.el : ~y.el[c].finish
  BY <1>2, <1>3, <1>6 DEF Only, SameMarks
<1>15. DeskInv'
  BY <1>1, <1>3, <1>9, <1>10, <1>11, <1>12, <1>13, <1>14 DEF DeskInv, Elem, Opened
<1> QED
  BY <1>1, <1>10, <1>15 DEF ShowsNone, Opened

\* One call waits.
LEMMA OneCall ==
  ASSUME NEW c, NEW q, q = Todo(<<c>>)
  PROVE  /\ Len(q) = 1 /\ q[1] = [f |-> "todo", todo |-> <<c>>] /\ q # <<>>
         /\ \A s \in Slots(q) : s = <<1, 0>> /\ CallOf(q, s) = c
         /\ <<1, 0>> \in Slots(q) /\ CallOf(q, <<1, 0>>) = c
<1>1. PICK g : g = [f |-> "todo", todo |-> <<c>>]
  OBVIOUS
<1>2. q = <<g>> /\ Len(<<c>>) = 1 /\ <<c>>[1] = c /\ g.f = "todo" /\ g.todo = <<c>>
  BY <1>1 DEF Todo
<1>3. Len(q) = 1 /\ q[1] = g /\ q # <<>>
  BY <1>2
<1>4. \A s \in Slots(q) : s = <<1, 0>> /\ CallOf(q, s) = c
  BY <1>2, <1>3 DEF Slots, CallOf
<1>5. <<1, 0>> \in Slots(q) /\ CallOf(q, <<1, 0>>) = c
  BY <1>2, <1>3 DEF Slots, CallOf
<1> QED
  BY <1>1, <1>3, <1>4, <1>5

\* The window is inserted: shown, but it was not in the document.
LEMMA InsertIs ==
  ASSUME DeskInv, Insert
  PROVE  \E n \in 1..desk.opened :
           /\ Call = InsertCall(n) /\ Inserting(run, n) /\ run' = Todo(<<DequeueCall(Button(n))>>)
           /\ run' = CallDone(run) /\ run # <<>> /\ run[Len(run)].f = "todo" /\ Head(run[Len(run)].todo) = InsertCall(n)
           /\ Win(n) \in Elem /\ ~fx.el[Win(n)].inDocument
           /\ FxOK(fx') /\ Only(fx, fx', Win(n)) /\ fx'.anim = fx.anim
           /\ fx'.el[Win(n)].queue = fx.el[Win(n)].queue /\ fx'.el[Win(n)].finish = fx.el[Win(n)].finish
<1>1. RunOK /\ FxOK(fx) /\ Elem = ElementsOf(desk)
  BY DeskParts
<1>2. /\ run # <<>> /\ run[Len(run)].f = "todo" /\ Call = Head(run[Len(run)].todo) /\ Call.op = "insert"
      /\ run' = CallDone(run)
  BY <1>1, TopCall DEF Insert
<1>3. PICK s0 \in Slots(run) : CallOf(run, s0) = Call
  BY <1>1, <1>2, RestOK
<1>4. PICK n \in 1..desk.opened : Call = InsertCall(n) /\ (Opening(run, n) \/ Inserting(run, n))
  BY <1>2, <1>3 DEF DeskInv, Windows
<1>5. ASSUME NEW e PROVE DequeueCall(e) # InsertCall(n)
  BY DEF DequeueCall, InsertCall
<1>6. Inserting(run, n)
  BY <1>2, <1>4, <1>5, OpeningWaits
<1>7. run' = Todo(<<DequeueCall(Button(n))>>)
  BY <1>2, <1>6, OpeningWaits
<1>8. Win(n) \in Elem /\ ~fx.el[Win(n)].inDocument
  BY <1>1, <1>6 DEF ElementsOf, DeskInv, Windows
<1>9. PICK x, y, e, k : x = fx /\ y = fx' /\ e = Win(n) /\ k = [fx.el[e] EXCEPT !.inDocument = TRUE, !.visible = TRUE]
  BY Zenon
<1>10. x.el[e] \in ElementType /\ FxOK(x) /\ e \in DOMAIN x.el
  BY <1>1, <1>8, <1>9, FxParts DEF Elem
<1>11. k \in ElementType /\ k.queue = x.el[e].queue /\ k.finish = x.el[e].finish
  <2>1. PICK l : l = x.el[e]
    OBVIOUS
  <2>2. k = [l EXCEPT !.inDocument = TRUE, !.visible = TRUE] /\ l \in ElementType
    BY <1>9, <1>10, <2>1
  <2>3. k \in ElementType /\ k.queue = l.queue /\ k.finish = l.finish
    BY ONLY <2>2 DEF ElementType
  <2> QED
    BY <2>1, <2>3
<1>12. y = [x EXCEPT !.el[e] = k]
  <2>1. Call.n = n
    BY <1>4 DEF InsertCall
  <2>2. fx' = [fx EXCEPT !.el[Win(Call.n)] = [@ EXCEPT !.inDocument = TRUE, !.visible = TRUE]]
    BY DEF Insert
  <2>3. y = [x EXCEPT !.el[e] = [@ EXCEPT !.inDocument = TRUE, !.visible = TRUE]]
    BY <1>9, <2>1, <2>2
  <2>4. x = [el |-> x.el, hooks |-> x.hooks, anim |-> x.anim, timers |-> x.timers, ticking |-> x.ticking]
    BY <1>10 DEF FxOK
  <2>5. k = [x.el[e] EXCEPT !.inDocument = TRUE, !.visible = TRUE]
    BY <1>9
  <2> QED
    BY ONLY <2>3, <2>4, <2>5
<1>13. FxOK(y) /\ Only(x, y, e) /\ y.el[e] = k /\ y.anim = x.anim
  BY ONLY <1>10, <1>11, <1>12, WithElement
<1> QED
  BY <1>2, <1>4, <1>6, <1>7, <1>8, <1>9, <1>11, <1>13

\* A window is inserted.
LEMMA InsertOnDesktop ==
  ASSUME DeskInv, Insert
  PROVE  DeskInv' /\ ShowsNone
<1>1. PICK n \in 1..desk.opened :
        /\ Call = InsertCall(n) /\ Inserting(run, n) /\ run' = Todo(<<DequeueCall(Button(n))>>)
        /\ run' = CallDone(run) /\ run # <<>> /\ run[Len(run)].f = "todo" /\ Head(run[Len(run)].todo) = InsertCall(n)
        /\ Win(n) \in Elem /\ ~fx.el[Win(n)].inDocument
        /\ FxOK(fx') /\ Only(fx, fx', Win(n)) /\ fx'.anim = fx.anim
        /\ fx'.el[Win(n)].queue = fx.el[Win(n)].queue /\ fx'.el[Win(n)].finish = fx.el[Win(n)].finish
  BY InsertIs
<1>2. PICK E, A, x, y, r, q, d, e : E = DOMAIN fx.el /\ A = 1..Len(fx.anim) /\ x = fx /\ y = fx' /\ r = run /\ q = run' /\ d = desk /\ e = Win(n)
  OBVIOUS
<1>3. /\ FxOK(x) /\ RunOK /\ QueuesOK(x) /\ Windows(x, r, d) /\ E = ElementsOf(d) /\ DesktopStack(x, r) /\ DesktopOne(x, r)
      /\ \A c \in E : ~x.el[c].finish
  BY <1>2 DEF DeskInv, FxTypeOK, Elem
<1>4. UNCHANGED <<calls, threw, meddled, desk>>
  BY DEF Insert
<1>5. DOMAIN x.el = E /\ DOMAIN y.el = E /\ e \in E /\ \A c \in E : c # e => y.el[c] = x.el[c]
  BY <1>1, <1>2 DEF Only, Elem
<1>6. \A c \in E : Queue(y, c) = Queue(x, c) /\ y.el[c].finish = x.el[c].finish
  BY <1>1, <1>2, <1>5 DEF Queue
<1>7. r \in Seq(FrameType(E, A)) /\ q = CallDone(r) /\ r # <<>> /\ r[Len(r)].f = "todo"
  BY <1>1, <1>2, <1>3 DEF RunOK
<1>8. PICK i, M, N : i = InsertCall(n) /\ M = {InsertCall(n)} /\ N = {}
  OBVIOUS
<1>9. i = Head(r[Len(r)].todo)
  BY <1>1, <1>2, <1>8
<1>10. q \in Seq(FrameType(E, A)) /\ Turns(r, q, M, N)
  <2>1. q \in Seq(FrameType(E, A)) /\ Turns(r, q, {i}, {})
    BY ONLY <1>7, <1>9, CallDoneTurns
  <2> QED
    BY <1>8, <2>1
<1>11. PICK s0 \in Slots(r) : Without(r, q, s0)
  BY <1>1, <1>2, <1>3, RestOK
<1>12. FxTypeOK' /\ DeskType' /\ QueuesOK(y) /\ \A c \in E : ~y.el[c].finish
  BY <1>1, <1>2, <1>3, <1>4, <1>5, <1>6, <1>10, SMTT(30) DEF DeskInv, FxTypeOK, DeskType, RunOK, QueuesOK
<1>13. DesktopStack(y, q)
  <2>1. \A c \in N : c.op \in {"dequeue", "complete", "insert"}
    BY <1>8
  <2>2. \A b \in DOMAIN y.anim : y.anim[b].queued /\ (y.anim[b].stopped => y.anim[b].state # "pending")
    BY <1>1, <1>2, <1>3 DEF DesktopStack
  <2> QED
    BY ONLY <1>3, <1>10, <2>1, <2>2, DesktopStackStays
<1>14. Windows(y, q, d)
  <2>1. \A s \in Slots(q) : CallOf(q, s).op # "insert"
    <3>1. PICK c : c = DequeueCall(Button(n))
      OBVIOUS
    <3>2. q = Todo(<<c>>)
      BY <1>1, <1>2, <3>1
    <3>3. \A s \in Slots(q) : CallOf(q, s) = c
      BY <3>2, OneCall
    <3> QED
      BY <3>1, <3>3 DEF DequeueCall
  <2>2. ASSUME NEW m \in 1..d.opened PROVE Queue(y, Win(m)) \in {<<>>, <<Sentinel>>}
    <3>1. Win(m) \in E
      BY <1>3 DEF ElementsOf
    <3>2. ~Opening(r, m)
      <4>1. Opening(r, m) => Head(r[Len(r)].todo) = DequeueCall(Win(m))
        BY OpeningWaits
      <4> QED
        BY <1>8, <1>9, <4>1 DEF DequeueCall, InsertCall
    <3> QED
      BY <1>3, <1>6, <3>1, <3>2 DEF Windows
  <2> QED
    BY <2>1, <2>2, CalmWindows DEF Calm
<1>15. DesktopOne(y, q)
  <2>1. ASSUME NEW c PROVE Passes(x, r, y, q, c)
    <3>1. Moving(x, q, c) \subseteq Moving(x, r, c)
      BY <1>7, <1>11, WithoutMoving
    <3>2. Moving(y, q, c) = Moving(x, q, c)
      BY <1>1, <1>2 DEF Moving, InQueue, GoesOn
    <3> QED
      BY <3>1, <3>2 DEF Passes
  <2>2. List \in DOMAIN x.el /\ DOMAIN y.el = DOMAIN x.el
    BY <1>3, <1>5 DEF ElementsOf
  <2>3. InQueue(y, List) # {} => HasSentinel(y, List)
    BY <1>1, <1>2, <1>3, <1>5, <1>6, <2>2 DEF InQueue, HasSentinel, DesktopOne
  <2>4. \A c : Passes(x, r, y, q, c)
    BY <2>1
  <2> QED
    BY ONLY <1>3, <2>2, <2>3, <2>4, OneStays
<1>16. \A m \in 1..d.opened : Button(m) \in E /\ y.el[Button(m)] = x.el[Button(m)]
  <2>1. \A m \in 1..d.opened : Button(m) \in E /\ Button(m) # e
    BY <1>2, <1>3 DEF ElementsOf, Button, Win
  <2> QED
    BY <1>5, <2>1
<1>17. LaidOut(y, d) \/ \E m \in 1..d.opened : Fading(y, q, Button(m))
  <2>1. CASE LaidOut(x, d)
    <3>1. {m \in 1..d.opened : y.el[Button(m)].inDocument} = {m \in 1..d.opened : x.el[Button(m)].inDocument}
      BY <1>16
    <3> QED
      BY <2>1, <3>1 DEF LaidOut, ToolBRAuto
  <2>2. CASE \E m \in 1..d.opened : Fading(x, r, Button(m))
    <3>1. PICK m \in 1..d.opened : Fading(x, r, Button(m))
      BY <2>2
    <3>2. PICK c : c = Button(m)
      OBVIOUS
    <3>3. Queue(y, c) = Queue(x, c) /\ Fading(x, r, c)
      BY <1>6, <1>16, <3>1, <3>2
    <3>4. \A b : DequeueCall(b) \notin M /\ CompleteCall(b) \notin M
      BY <1>8 DEF DequeueCall, CompleteCall, InsertCall
    <3>5. Waits(r, DequeueCall(c)) /\ Queue(x, c) = <<Item("opaque")>> => Fading(y, q, c)
      BY <1>10, <3>3, <3>4 DEF Turns, Waits, Fading
    <3>6. /\ \A a \in DOMAIN x.anim : a \in DOMAIN y.anim /\ y.anim[a].elem = x.anim[a].elem
          /\ \A a \in DOMAIN x.anim : x.anim[a].state = "pending" => y.anim[a].state = "pending" \/ Waits(q, CompleteCall(a))
          /\ \A a : CompleteCall(a) \in M => \E j \in 1..Len(q) : q[j] = FnFrame(a)
      BY <1>1, <1>2, <3>4
    <3>7. Fading(y, q, c)
      BY ONLY <1>10, <3>3, <3>5, <3>6, FadingGoesOn
    <3> QED
      BY <3>2, <3>7
  <2> QED
    BY <1>2, <2>1, <2>2 DEF DeskInv, Opened
<1>18. DeskInv'
  BY <1>2, <1>3, <1>4, <1>5, <1>12, <1>13, <1>14, <1>15, <1>17 DEF DeskInv, Elem, Opened
<1>19. ASSUME NEW m \in 1..d.opened, x.el[Win(m)].inDocument PROVE y.el[Win(m)] = x.el[Win(m)]
  <2>1. Win(m) \in E /\ Win(m) # e
    BY <1>1, <1>2, <1>3, <1>19 DEF ElementsOf
  <2> QED
    BY <1>5, <2>1
<1> QED
  BY <1>2, <1>18, <1>19 DEF ShowsNone, Opened

\* What laying out means.
LEMMA LaidOutIs ==
  ASSUME NEW x, NEW d \in [clicks : Nat, room : Fits, opened : Nat, vertical : BOOLEAN, listButton : BOOLEAN],
         NEW c, c = ToolBRAuto(d, x.el)
  PROVE  /\ LaidOut(x, c) /\ c \in [clicks : Nat, room : Fits, opened : Nat, vertical : BOOLEAN, listButton : BOOLEAN]
         /\ c.opened = d.opened /\ c.room = d.room
<1>1. PICK v : v = (Cardinality({n \in 1..d.opened : x.el[Button(n)].inDocument}) > d.room)
  OBVIOUS
<1>2. c = [d EXCEPT !.vertical = v]
  BY <1>1 DEF ToolBRAuto
<1>3. v \in BOOLEAN
  BY <1>1
<1>4. /\ c \in [clicks : Nat, room : Fits, opened : Nat, vertical : BOOLEAN, listButton : BOOLEAN]
      /\ c.opened = d.opened /\ c.room = d.room /\ c.vertical = v
  BY <1>2, <1>3
<1>5. c = [c EXCEPT !.vertical = v]
  BY <1>4
<1> QED
  BY <1>1, <1>4, <1>5 DEF LaidOut, ToolBRAuto

\* What room and class do not change is laid out still.
LEMMA SameLayout ==
  ASSUME NEW x, NEW d \in [clicks : Nat, room : Fits, opened : Nat, vertical : BOOLEAN, listButton : BOOLEAN],
         NEW c \in [clicks : Nat, room : Fits, opened : Nat, vertical : BOOLEAN, listButton : BOOLEAN],
         c.opened = d.opened, c.room = d.room, c.vertical = d.vertical, LaidOut(x, d)
  PROVE  LaidOut(x, c)
<1>1. PICK v : v = (Cardinality({n \in 1..d.opened : x.el[Button(n)].inDocument}) > d.room)
  OBVIOUS
<1>2. d = [d EXCEPT !.vertical = v]
  BY <1>1 DEF LaidOut, ToolBRAuto
<1>3. d.vertical = v
  BY <1>2
<1>4. c = [c EXCEPT !.vertical = v]
  BY <1>3
<1> QED
  BY <1>1, <1>4 DEF LaidOut, ToolBRAuto

DeskRecord == [clicks : Nat, room : Fits, opened : Nat, vertical : BOOLEAN, listButton : BOOLEAN]

\* A callback returns: it has laid the task bar out, if it was a button's.
LEMMA CalledBackIs ==
  ASSUME NEW a \in DOMAIN fx.anim, desk \in DeskRecord, NEW d, d = CalledBack(a)
  PROVE  /\ d \in DeskRecord /\ d.opened = desk.opened /\ d.room = desk.room
         /\ LaidOut(fx, desk) => LaidOut(fx, d)
         /\ \A n : fx.anim[a].elem = Button(n) => LaidOut(fx, d)
<1>1. PICK an : an = fx.anim[a]
  OBVIOUS
<1>2. PICK l : l = (an.goal = "up")
  OBVIOUS
<1>3. l \in BOOLEAN
  BY <1>2
<1>4. CASE an.elem = List
  <2>0. an.elem[1] # "button"
    BY <1>4 DEF List
  <2>1. d = [desk EXCEPT !.listButton = l]
    <3>1. d = [desk EXCEPT !.listButton = (an.goal = "up")]
      BY <1>1, <1>4, <2>0 DEF CalledBack
    <3> QED
      BY <1>2, <3>1
  <2>2. d \in DeskRecord /\ d.opened = desk.opened /\ d.room = desk.room /\ d.vertical = desk.vertical
    BY <1>3, <2>1 DEF DeskRecord
  <2>3. \A n : an.elem # Button(n)
    BY <1>4 DEF List, Button
  <2> QED
    BY <1>1, <2>2, <2>3, SameLayout DEF DeskRecord
<1>5. CASE an.elem # List /\ an.elem[1] = "button"
  <2>1. d = ToolBRAuto(desk, fx.el)
    BY <1>1, <1>5 DEF CalledBack
  <2>2. PICK x, b : x = fx /\ b = desk
    OBVIOUS
  <2>3. d = ToolBRAuto(b, x.el) /\ b \in DeskRecord
    BY <2>1, <2>2
  <2>4. d \in DeskRecord /\ d.opened = b.opened /\ d.room = b.room /\ LaidOut(x, d)
    BY ONLY <2>3, LaidOutIs DEF DeskRecord
  <2> QED
    BY <2>2, <2>4
<1>6. CASE an.elem # List /\ an.elem[1] # "button"
  <2>1. d = desk
    BY <1>1, <1>6 DEF CalledBack
  <2>2. \A n : an.elem # Button(n)
    BY <1>6 DEF Button
  <2> QED
    BY <1>1, <2>1, <2>2
<1> QED
  BY <1>4, <1>5, <1>6

\* A callback returns.
LEMMA ReturnOnDesktop ==
  ASSUME DeskInv, ReturnToDesktop
  PROVE  DeskInv' /\ ShowsNone
<1>1. FxOK(fx) /\ RunOK /\ desk \in DeskRecord /\ \A e \in Elem : SameQueue(fx.el[e], fx.el[e])
  BY DeskParts DEF DeskRecord
<1>2. PICK a : a = Top.a
  OBVIOUS
<1>3. /\ fx' = fx /\ run # <<>> /\ run[Len(run)] = FnFrame(a) /\ a \in DOMAIN fx.anim
      /\ run' \in Seq(FrameType(DOMAIN fx.el, 1..Len(fx.anim)))
      /\ Len(run') = Len(run) - 1 /\ Len(run) \in Nat \ {0} /\ \A i \in 1..Len(run') : run'[i] = run[i]
      /\ SameSlots(run, run')
  BY <1>1, <1>2, ReturnIs DEF ReturnToDesktop
<1>4. PICK x, r, q, d, c : x = fx /\ r = run /\ q = run' /\ d = desk /\ c = desk'
  OBVIOUS
<1>5. /\ c \in DeskRecord /\ c.opened = d.opened /\ c.room = d.room
      /\ LaidOut(x, d) => LaidOut(x, c)
      /\ \A n : x.anim[a].elem = Button(n) => LaidOut(x, c)
  <2>1. desk' = CalledBack(a)
    BY <1>2 DEF ReturnToDesktop
  <2> QED
    BY <1>1, <1>3, <1>4, <2>1, CalledBackIs
<1>6. UNCHANGED <<calls, threw, meddled>>
  BY DEF ReturnToDesktop, Return
<1>7. Calm(x, r, d)
  <2>1. run[Len(run)].f # "todo"
    BY <1>3 DEF FnFrame
  <2> QED
    BY <1>4, <2>1, CalmOr
<1>8. /\ \A s \in Slots(q) : s \in Slots(r) /\ CallOf(q, s) = CallOf(r, s)
      /\ \A s \in Slots(r) : Waits(q, CallOf(r, s))
  BY <1>3, <1>4 DEF SameSlots, Keeps, Waits
<1>9. /\ DesktopStack(x, r) /\ DesktopOne(x, r) /\ QueuesOK(x) /\ DOMAIN x.el = ElementsOf(d) /\ \A e \in DOMAIN x.el : ~x.el[e].finish
      /\ LaidOut(x, d) \/ \E n \in 1..d.opened : Fading(x, r, Button(n))
  BY <1>4 DEF DeskInv, Elem, Opened
<1>10. DesktopStack(x, q)
  <2>1. \A i \in 1..Len(q) : i \in 1..Len(r) /\ q[i] = r[i]
    BY <1>3, <1>4
  <2> QED
    BY <1>8, <1>9, <2>1 DEF DesktopStack
<1>11. Windows(x, q, c)
  <2>1. Calm(x, q, c)
    BY <1>5, <1>7, <1>8 DEF Calm
  <2> QED
    BY <2>1, CalmWindows
<1>12. DesktopOne(x, q)
  <2>1. \A e : Passes(x, r, x, q, e)
    BY <1>1, <1>3, <1>4, SlotsPass
  <2>2. List \in DOMAIN x.el
    BY <1>9 DEF ElementsOf
  <2>3. InQueue(x, List) # {} => HasSentinel(x, List)
    BY <1>9 DEF DesktopOne
  <2> QED
    BY <1>9, <2>1, <2>2, <2>3, OneStays
<1>13. LaidOut(x, c) \/ \E n \in 1..c.opened : Fading(x, q, Button(n))
  <2>1. SUFFICES ASSUME NEW n \in 1..d.opened, Fading(x, r, Button(n)), x.anim[a].elem # Button(n)
                 PROVE  Fading(x, q, Button(n))
    BY <1>5, <1>9
  <2>2. CASE \E b \in DOMAIN x.anim : x.anim[b].elem = Button(n) /\ \E i \in 1..Len(r) : r[i] = FnFrame(b)
    <3>1. PICK b \in DOMAIN x.anim, i \in 1..Len(r) : x.anim[b].elem = Button(n) /\ r[i] = FnFrame(b)
      BY <2>2
    <3>2. b # a
      BY <2>1, <3>1
    <3>3. i # Len(r)
      BY <1>3, <1>4, <3>1, <3>2 DEF FnFrame
    <3>4. i \in 1..Len(q) /\ q[i] = FnFrame(b)
      BY <1>3, <1>4, <3>1, <3>3, SMTT(30)
    <3> QED
      BY <3>1, <3>4 DEF Fading
  <2>3. Waits(r, DequeueCall(Button(n))) => Waits(q, DequeueCall(Button(n)))
    BY <1>8 DEF Waits
  <2>4. \A b : Waits(r, CompleteCall(b)) => Waits(q, CompleteCall(b))
    BY <1>8 DEF Waits
  <2> QED
    BY <2>1, <2>2, <2>3, <2>4 DEF Fading
<1>14. FxTypeOK' /\ DeskType'
  BY <1>1, <1>3, <1>4, <1>5, <1>6 DEF DeskInv, FxTypeOK, RunOK, DeskType, DeskRecord
<1>15. DeskInv'
  <2>1. DOMAIN x.el = ElementsOf(c)
    BY <1>5, <1>9 DEF ElementsOf
  <2> QED
    BY <1>3, <1>4, <1>9, <1>10, <1>11, <1>12, <1>13, <1>14, <2>1 DEF DeskInv, Elem, Opened
<1> QED
  BY <1>1, <1>3, <1>15, ShowsNoneIs

-----------------------------------------------------------------------------
(***************************************************************************)
(* What the user does.                                                     *)
(***************************************************************************)

\* The user marks elements, or sizes the page, when no script runs.
LEMMA UserStep ==
  ASSUME DeskInv, run = <<>>, UNCHANGED <<run, calls, threw, meddled>>,
         desk' \in DeskRecord, desk'.opened = desk.opened,
         FxOK(fx'), fx'.anim = fx.anim, DOMAIN fx'.el = Elem,
         fx'.el[List] = fx.el[List],
         \A e \in Elem : ~fx'.el[e].finish /\ (Queue(fx', e) = Queue(fx, e) \/ Queue(fx', e) = <<>>),
         LaidOut(fx', desk') \/ \E n \in Opened : Fading(fx, run, Button(n))
  PROVE  DeskInv'
<1>1. PICK x, y, r, d, c : x = fx /\ y = fx' /\ r = run /\ d = desk /\ c = desk'
  OBVIOUS
<1>2. /\ FxOK(x) /\ QueuesOK(x) /\ Windows(x, r, d) /\ DOMAIN x.el = ElementsOf(d) /\ DesktopStack(x, r) /\ DesktopOne(x, r)
      /\ Calm(x, r, d) /\ r = <<>> /\ c.opened = d.opened /\ Slots(r) = {}
  BY <1>1, CalmOr, NoSlots DEF DeskInv, FxTypeOK, Elem
<1>3. ElementsOf(c) = ElementsOf(d)
  BY <1>2 DEF ElementsOf
<1>4. QueuesOK(y)
  <2>1. \A e \in DOMAIN y.el : Queue(y, e) = Queue(x, e) \/ Queue(y, e) = <<>>
    BY <1>1
  <2>2. \A j : j \notin 1..Len(<<>>)
    OBVIOUS
  <2>3. SUFFICES ASSUME NEW e \in DOMAIN y.el, NEW j \in 1..Len(Queue(y, e)), Queue(y, e) = Queue(x, e)
                 PROVE  \/ Queue(y, e)[j] \in ItemType /\ Queue(y, e)[j].queued
                        \/ j = 1 /\ Queue(y, e)[1] = Sentinel
    BY <2>1, <2>2 DEF QueuesOK
  <2> QED
    BY <1>1, <1>2, <2>3 DEF QueuesOK, Elem
<1>5. FxTypeOK' /\ DeskType'
  BY DEF DeskInv, FxTypeOK, DeskType, DeskRecord, RunOK, Elem
<1>6. DesktopStack(y, r)
  BY <1>1, <1>2 DEF DesktopStack
<1>7. Windows(y, r, c)
  <2>1. \A n \in 1..d.opened : Win(n) \in DOMAIN x.el
    BY <1>2 DEF ElementsOf
  <2>2. \A n \in 1..d.opened : Queue(y, Win(n)) \in {<<>>, <<Sentinel>>}
    BY <1>1, <1>2, <2>1 DEF Calm, Elem
  <2>3. Calm(y, r, c)
    BY <1>2, <2>2 DEF Calm
  <2> QED
    BY <2>3, CalmWindows
<1>8. DesktopOne(y, r)
  <2>1. \A e : Moving(y, r, e) = Moving(x, r, e) /\ InQueue(y, e) = InQueue(x, e)
    BY <1>1 DEF Moving, InQueue, GoesOn
  <2>2. HasSentinel(y, List) = HasSentinel(x, List)
    BY <1>1 DEF HasSentinel, Queue
  <2> QED
    BY <1>1, <1>2, <2>1, <2>2 DEF DesktopOne, AtMostOne, Elem
<1>9. LaidOut(y, c) \/ \E n \in 1..c.opened : Fading(y, r, Button(n))
  <2>1. ASSUME NEW n, Fading(x, r, Button(n)) PROVE Fading(y, r, Button(n))
    <3>1. \A b : ~Waits(r, b) /\ \A i : i \notin 1..Len(r)
      BY <1>2 DEF Waits
    <3> QED
      BY <1>1, <2>1, <3>1 DEF Fading
  <2> QED
    BY <1>1, <1>2, <2>1 DEF Opened
<1>10. DOMAIN y.el = ElementsOf(c) /\ \A e \in DOMAIN y.el : ~y.el[e].finish
  BY <1>1, <1>2, <1>3 DEF Elem
<1> QED
  BY <1>1, <1>4, <1>5, <1>6, <1>7, <1>8, <1>9, <1>10 DEF DeskInv, Elem, Opened

\* The user does one thing less.
LEMMA SpentIs ==
  ASSUME desk \in DeskRecord, desk.clicks > 0
  PROVE  Spent \in DeskRecord /\ Spent.opened = desk.opened /\ Spent.room = desk.room /\ Spent.vertical = desk.vertical
BY DEF Spent, DeskRecord

\* A window is shown or hidden.
Marked(l, k) == k = [l EXCEPT !.visible = k.visible] /\ k.visible \in BOOLEAN

\* ... which changes no queue.
LEMMA MarkedIs ==
  ASSUME NEW l \in ElementType, NEW k, Marked(l, k)
  PROVE  k \in ElementType /\ k.queue = l.queue /\ SameMarks(l, k)
BY DEF ElementType, SameMarks, Marked

\* Minimise and TaskButton.
LEMMA WindowMarked ==
  ASSUME DeskInv, UserActs, NEW n \in Opened, NEW k, Marked(fx.el[Win(n)], k),
         fx' = [fx EXCEPT !.el[Win(n)] = k], desk' = Spent, UNCHANGED run
  PROVE  /\ DeskInv'
         /\ \A m \in Opened : (m # n \/ ~k.visible) /\ fx'.el[Win(m)].visible => fx.el[Win(m)].visible
<1>1. FxOK(fx) /\ Elem = ElementsOf(desk) /\ desk \in DeskRecord /\ \A e \in Elem : ~fx.el[e].finish
  BY DeskParts DEF DeskRecord, DeskInv
<1>2. PICK x, y, e : x = fx /\ y = fx' /\ e = Win(n)
  OBVIOUS
<1>3. FxOK(x) /\ e \in DOMAIN x.el /\ y = [x EXCEPT !.el[e] = k]
  BY <1>1, <1>2 DEF Opened, ElementsOf, Elem
<1>4. /\ FxOK(y) /\ Only(x, y, e) /\ y.anim = x.anim
      /\ SameMarks(x.el[e], y.el[e]) /\ y.el[e].queue = x.el[e].queue /\ y.el[e] = k
  <2>1. x.el[e] \in ElementType
    BY <1>3, FxParts
  <2>2. k \in ElementType /\ k.queue = x.el[e].queue /\ SameMarks(x.el[e], k)
    BY <1>2, <2>1, MarkedIs
  <2> QED
    BY ONLY <1>3, <2>2, WithElement
<1>5. /\ DOMAIN y.el = Elem
      /\ \A c \in Elem : SameMarks(x.el[c], y.el[c]) /\ y.el[c].queue = x.el[c].queue /\ (c # e => y.el[c] = x.el[c])
  BY <1>2, <1>4 DEF Only, SameMarks, Elem
<1>6. List \in Elem /\ List # e
  BY <1>1, <1>2 DEF ElementsOf, List, Win
<1>7. desk' \in DeskRecord /\ desk'.opened = desk.opened /\ desk'.room = desk.room /\ desk'.vertical = desk.vertical
  BY <1>1, SpentIs DEF UserActs
<1>8. LaidOut(y, desk') \/ \E m \in Opened : Fading(fx, run, Button(m))
  <2>1. SUFFICES ASSUME LaidOut(x, desk) PROVE LaidOut(y, desk')
    BY <1>2 DEF DeskInv
  <2>2. PICK d, c : d = desk /\ c = desk'
    OBVIOUS
  <2>3. DOMAIN x.el = ElementsOf(d) /\ \A b \in DOMAIN x.el : y.el[b].inDocument = x.el[b].inDocument
    BY <1>1, <1>2, <1>5, <2>2 DEF SameMarks, Elem
  <2>4. LaidOut(y, d)
    BY <2>1, <2>2, <2>3, LaidOutStays
  <2>5. LaidOut(y, c)
    BY <1>1, <1>7, <2>2, <2>4, SameLayout DEF DeskRecord
  <2> QED
    BY <2>2, <2>5
<1>9. \A c \in Elem : ~y.el[c].finish /\ Queue(y, c) = Queue(x, c)
  BY <1>1, <1>2, <1>5 DEF SameMarks, Queue
<1>10. run = <<>> /\ UNCHANGED <<run, calls, threw, meddled>>
  BY DEF UserActs
<1>11. DeskInv'
  BY <1>2, <1>4, <1>5, <1>6, <1>7, <1>8, <1>9, <1>10, UserStep
<1>12. ASSUME NEW m \in Opened, m # n \/ ~k.visible, y.el[Win(m)].visible PROVE x.el[Win(m)].visible
  <2>1. Win(m) \in Elem /\ (m # n => Win(m) # e)
    BY <1>1, <1>2 DEF Opened, ElementsOf, Win
  <2> QED
    BY <1>2, <1>4, <1>5, <1>12, <2>1
<1> QED
  BY <1>2, <1>11, <1>12

\* titMin and movTop mark a window so.
LEMMA MarkedSo ==
  ASSUME NEW x, FxOK(x), NEW e \in DOMAIN x.el, NEW y,
         y = [x EXCEPT !.el[e].visible = TRUE] \/ y = [x EXCEPT !.el[e].visible = FALSE]
  PROVE  /\ \E k : Marked(x.el[e], k) /\ y = [x EXCEPT !.el[e] = k] /\ (y = [x EXCEPT !.el[e].visible = FALSE] => ~k.visible)
<1>1. x = [el |-> x.el, hooks |-> x.hooks, anim |-> x.anim, timers |-> x.timers, ticking |-> x.ticking]
  BY DEF FxOK
<1>2. PICK l : l = x.el[e]
  OBVIOUS
<1>3. l \in ElementType
  BY <1>2, FxParts
<1>4. PICK s, h : s = [l EXCEPT !.visible = TRUE] /\ h = [l EXCEPT !.visible = FALSE]
  OBVIOUS
<1>5. Marked(l, s) /\ Marked(l, h) /\ s.visible /\ ~h.visible
  BY <1>3, <1>4 DEF ElementType, Marked
<1>6. [x EXCEPT !.el[e].visible = TRUE] = [x EXCEPT !.el[e] = s]
  BY <1>1, <1>2, <1>4
<1>7. [x EXCEPT !.el[e].visible = FALSE] = [x EXCEPT !.el[e] = h]
  BY <1>1, <1>2, <1>4
<1>8. CASE y = [x EXCEPT !.el[e] = h]
  BY <1>2, <1>5, <1>7, <1>8
<1>9. CASE y = [x EXCEPT !.el[e] = s] /\ y # [x EXCEPT !.el[e] = h]
  BY <1>2, <1>5, <1>7, <1>9
<1> QED
  BY <1>6, <1>7, <1>8, <1>9

\* The page is sized, and the task bar laid out.
LEMMA ResizeOnDesktop ==
  ASSUME DeskInv, Resize
  PROVE  DeskInv' /\ ShowsNone
<1>1. /\ FxOK(fx) /\ Elem = ElementsOf(desk) /\ desk \in DeskRecord
      /\ \A e \in Elem : ~fx.el[e].finish /\ SameQueue(fx.el[e], fx.el[e])
  BY DeskParts DEF DeskRecord, DeskInv
<1>2. fx' = fx /\ run' = run /\ run = <<>> /\ UNCHANGED <<run, calls, threw, meddled>> /\ desk.clicks > 0
  BY DEF Resize, UserActs
<1>3. PICK room \in Fits : desk' = ToolBRAuto([Spent EXCEPT !.room = room], fx.el)
  BY DEF Resize
<1>4. Spent \in DeskRecord /\ Spent.opened = desk.opened
  BY <1>1, <1>2, SpentIs
<1>5. PICK x, d, c : x = fx /\ d = [Spent EXCEPT !.room = room] /\ c = desk'
  OBVIOUS
<1>6. d \in DeskRecord /\ d.opened = desk.opened
  BY <1>4, <1>5 DEF DeskRecord
<1>7. c = ToolBRAuto(d, x.el)
  BY <1>3, <1>5
<1>8. LaidOut(x, c) /\ c \in DeskRecord /\ c.opened = d.opened
  BY <1>6, <1>7, LaidOutIs DEF DeskRecord
<1>9. DeskInv'
  <2>1. FxOK(fx') /\ fx'.anim = fx.anim /\ DOMAIN fx'.el = Elem /\ fx'.el[List] = fx.el[List] /\ LaidOut(fx', desk')
        /\ desk' \in DeskRecord /\ desk'.opened = desk.opened
    BY <1>1, <1>2, <1>5, <1>6, <1>8 DEF Elem
  <2>2. \A e \in Elem : ~fx'.el[e].finish /\ Queue(fx', e) = Queue(fx, e)
    BY <1>1, <1>2
  <2> QED
    BY <1>2, <2>1, <2>2, UserStep
<1> QED
  BY <1>2, <1>9, ShowsNoneIs

\* A window is closed, and the task bar laid out.
LEMMA CloseOnDesktop ==
  ASSUME DeskInv, NEW n \in Opened, Close(n)
  PROVE  DeskInv' /\ ShowsNone
<1>1. FxOK(fx) /\ Elem = ElementsOf(desk) /\ desk \in DeskRecord /\ \A e \in Elem : ~fx.el[e].finish
  BY DeskParts DEF DeskRecord, DeskInv
<1>2. run = <<>> /\ UNCHANGED <<run, calls, threw, meddled>> /\ desk.clicks > 0
  BY DEF Close, UserActs
<1>3. PICK x, w, b, m, y : x = fx /\ w = Win(n) /\ b = Button(n) /\ m = Removed(fx, w) /\ y = fx'
  OBVIOUS
<1>4. w \in DOMAIN x.el /\ b \in DOMAIN x.el /\ b # w /\ List # w /\ List # b /\ List \in DOMAIN x.el /\ FxOK(x) /\ m = Removed(x, w)
  BY <1>1, <1>3 DEF Opened, ElementsOf, Elem, Win, Button, List
<1>5. y = Removed(m, b)
  BY <1>3 DEF Close
<1>6. /\ FxOK(m) /\ Only(x, m, w) /\ m.anim = x.anim
      /\ ~m.el[w].inDocument /\ m.el[w].visible = x.el[w].visible /\ m.el[w].queue = Nothing /\ ~m.el[w].finish
  BY ONLY <1>4, RemovedIs
<1>7. b \in DOMAIN m.el
  BY <1>4, <1>6 DEF Only
<1>8. /\ FxOK(y) /\ Only(m, y, b) /\ y.anim = m.anim
      /\ ~y.el[b].inDocument /\ y.el[b].visible = m.el[b].visible /\ y.el[b].queue = Nothing /\ ~y.el[b].finish
  BY ONLY <1>5, <1>6, <1>7, RemovedIs
<1>9. DOMAIN y.el = DOMAIN x.el /\ \A c \in DOMAIN x.el \ {w, b} : y.el[c] = x.el[c]
  BY <1>4, <1>6, <1>8 DEF Only
<1>10. y.el[w] = m.el[w] /\ m.el[b] = x.el[b]
  BY <1>4, <1>6, <1>8 DEF Only
<1>11. \A c \in DOMAIN x.el : ~y.el[c].finish /\ (Queue(y, c) = Queue(x, c) \/ Queue(y, c) = <<>>) /\ y.el[c].visible = x.el[c].visible
  <2>1. SUFFICES ASSUME NEW c \in DOMAIN x.el
                 PROVE ~y.el[c].finish /\ (Queue(y, c) = Queue(x, c) \/ Queue(y, c) = <<>>) /\ y.el[c].visible = x.el[c].visible
    OBVIOUS
  <2>2. CASE c \in {w, b}
    BY <1>6, <1>8, <1>10, <2>2 DEF Queue
  <2>3. CASE c \notin {w, b}
    BY <1>1, <1>3, <1>9, <2>3 DEF Queue, Elem
  <2> QED
    BY <2>2, <2>3
<1>12. Spent \in DeskRecord /\ Spent.opened = desk.opened
  BY <1>1, <1>2, SpentIs
<1>13. PICK d, c : d = Spent /\ c = desk'
  OBVIOUS
<1>14. c = ToolBRAuto(d, y.el)
  BY <1>3, <1>13 DEF Close, TitClose
<1>15. LaidOut(y, c) /\ c \in DeskRecord /\ c.opened = d.opened
  BY <1>12, <1>13, <1>14, LaidOutIs DEF DeskRecord
<1>16. DeskInv'
  <2>1. FxOK(fx') /\ fx'.anim = fx.anim /\ DOMAIN fx'.el = Elem /\ fx'.el[List] = fx.el[List] /\ LaidOut(fx', desk')
        /\ desk' \in DeskRecord /\ desk'.opened = desk.opened
    BY <1>3, <1>4, <1>6, <1>8, <1>9, <1>12, <1>13, <1>15 DEF Elem
  <2>2. \A e \in Elem : ~fx'.el[e].finish /\ (Queue(fx', e) = Queue(fx, e) \/ Queue(fx', e) = <<>>)
    BY <1>3, <1>11 DEF Elem
  <2> QED
    BY <1>2, <2>1, <2>2, UserStep
<1>17. \A e \in Elem : fx'.el[e].visible => fx.el[e].visible
  BY <1>3, <1>11 DEF Elem
<1> QED
  BY <1>16, <1>17, ShowsNoneIs

\* A window is minimised.
LEMMA MinimiseOnDesktop ==
  ASSUME DeskInv, NEW n \in Opened, Minimise(n)
  PROVE  DeskInv' /\ ShowsNone
<1>1. FxOK(fx) /\ Elem = ElementsOf(desk)
  BY DeskParts
<1>2. PICK x, e, y : x = fx /\ e = Win(n) /\ y = fx'
  OBVIOUS
<1>3. y = [x EXCEPT !.el[e].visible = FALSE] /\ FxOK(x) /\ e \in DOMAIN x.el
  BY <1>1, <1>2 DEF Minimise, TitMin, Opened, ElementsOf, Elem
<1>4. PICK k : Marked(x.el[e], k) /\ y = [x EXCEPT !.el[e] = k] /\ ~k.visible
  BY <1>3, MarkedSo
<1>5. UserActs /\ desk' = Spent /\ UNCHANGED run
  BY DEF Minimise
<1>6. Marked(fx.el[Win(n)], k) /\ fx' = [fx EXCEPT !.el[Win(n)] = k]
  BY <1>2, <1>4
<1> QED
  BY <1>4, <1>5, <1>6, WindowMarked DEF ShowsNone

\* A task button shows its window, and no other.
LEMMA TaskButtonOnDesktop ==
  ASSUME DeskInv, NEW n \in Opened, TaskButton(n)
  PROVE  /\ DeskInv'
         /\ \A m \in Opened : m # n /\ fx'.el[Win(m)].visible => fx.el[Win(m)].visible
<1>1. FxOK(fx) /\ Elem = ElementsOf(desk)
  BY DeskParts
<1>2. PICK x, e, y : x = fx /\ e = Win(n) /\ y = fx'
  OBVIOUS
<1>3. (y = [x EXCEPT !.el[e].visible = TRUE] \/ y = [x EXCEPT !.el[e].visible = FALSE]) /\ FxOK(x) /\ e \in DOMAIN x.el
  BY <1>1, <1>2 DEF TaskButton, Opened, ElementsOf, Elem
<1>4. PICK k : Marked(x.el[e], k) /\ y = [x EXCEPT !.el[e] = k]
  BY ONLY <1>3, MarkedSo
<1>5. UserActs /\ desk' = Spent /\ UNCHANGED run
  BY DEF TaskButton
<1>6. Marked(fx.el[Win(n)], k) /\ fx' = [fx EXCEPT !.el[Win(n)] = k]
  BY <1>2, <1>4
<1> QED
  BY <1>5, <1>6, WindowMarked

\* animate asks for the queue to go on, unless the sentinel is in it.
LEMMA AnimatedIs ==
  ASSUME FxOK(fx), QueuesOK(fx), NEW e \in Elem, NEW what \in Whats,
         NEW rest \in Seq(FrameType(DOMAIN fx.el, 1..Len(fx.anim))), Animated(e, what, TRUE, rest)
  PROVE  /\ FxOK(fx') /\ QueuesOK(fx') /\ Only(fx, fx', e) /\ fx'.anim = fx.anim /\ fx'.timers = fx.timers
         /\ SameMarks(fx.el[e], fx'.el[e]) /\ fx'.el[e].visible = fx.el[e].visible
         /\ \/ HasSentinel(fx, e) /\ HasSentinel(fx', e) /\ run' = rest
            \/ ~HasSentinel(fx, e) /\ run' = Asked(rest, <<DequeueCall(e)>>)
<1>1. PICK item, p, q, x, y, z : item = [what |-> what, queued |-> TRUE] /\ p = Queue(fx, e) /\ q = Append(p, item)
                                 /\ x = fx /\ y = Hooked(fx, e) /\ z = fx'
  OBVIOUS
<1>2. z = WithQueue(y, e, q) /\ run' = rest \o (IF Head(q) = Sentinel THEN <<>> ELSE Todo(<<DequeueCall(e)>>))
  BY <1>1 DEF Animated
<1>3. FxOK(x) /\ e \in DOMAIN x.el /\ y = Hooked(x, e)
  BY <1>1 DEF Elem
<1>4. /\ FxOK(y) /\ Only(x, y, e) /\ y.anim = x.anim /\ y.timers = x.timers
      /\ SameMarks(x.el[e], y.el[e]) /\ y.el[e].visible = x.el[e].visible
  BY ONLY <1>3, HookedIs
<1>5. p \in Seq(Place)
  BY <1>1, <1>3, QueueIs
<1>6. item \in ItemType /\ item.queued /\ item # Sentinel
  <2>1. item \in ItemType
    BY <1>1 DEF ItemType
  <2> QED
    BY <1>1, <2>1, SentinelIs
<1>7. /\ q \in Seq(Place) /\ Len(q) = Len(p) + 1 /\ Len(p) \in Nat /\ q # <<>>
      /\ q[Len(p) + 1] = item /\ \A j \in 1..Len(p) : q[j] = p[j]
  <2>1. item \in Place
    BY <1>6 DEF Place
  <2> QED
    BY <1>1, <1>5, <2>1, SMTT(30)
<1>8. e \in DOMAIN y.el
  BY <1>3, <1>4 DEF Only
<1>9. /\ FxOK(z) /\ Only(y, z, e) /\ z.anim = y.anim /\ z.timers = y.timers
      /\ SameMarks(y.el[e], z.el[e]) /\ Queue(z, e) = q /\ z.el[e].visible = y.el[e].visible
  BY ONLY <1>2, <1>4, <1>7, <1>8, WithQueueIs
<1>10. Only(x, z, e) /\ SameMarks(x.el[e], z.el[e])
  BY <1>4, <1>9 DEF Only, SameMarks
<1>11. QueuesOK(z)
  <2>1. \A j \in 1..Len(p) : (p[j] \in ItemType /\ p[j].queued) \/ (j = 1 /\ p[1] = Sentinel)
    BY <1>1, <1>3 DEF QueuesOK
  <2>2. ASSUME NEW j \in 1..Len(q) PROVE (q[j] \in ItemType /\ q[j].queued) \/ (j = 1 /\ q[1] = Sentinel)
    BY <1>6, <1>7, <2>1
  <2>3. \A d \in DOMAIN x.el \ {e} : Queue(z, d) = Queue(x, d)
    BY <1>10 DEF Only, Queue
  <2>4. SUFFICES ASSUME NEW d \in DOMAIN z.el, NEW j \in 1..Len(Queue(z, d))
                 PROVE  (Queue(z, d)[j] \in ItemType /\ Queue(z, d)[j].queued) \/ (j = 1 /\ Queue(z, d)[1] = Sentinel)
    BY DEF QueuesOK
  <2>5. d \in DOMAIN x.el
    BY <1>10, <2>4 DEF Only
  <2>6. CASE d = e
    BY <1>9, <2>2, <2>4, <2>6
  <2>7. CASE d # e
    <3>1. Queue(z, d) = Queue(x, d)
      BY <2>3, <2>5, <2>7
    <3> QED
      BY <1>1, <2>4, <2>5, <3>1 DEF QueuesOK
  <2> QED
    BY <2>6, <2>7
<1>12. Head(q) = IF p = <<>> THEN item ELSE Head(p)
  BY <1>5, <1>7
<1>13. HasSentinel(x, e) <=> Head(q) = Sentinel
  BY <1>1, <1>6, <1>12 DEF HasSentinel
<1>14. CASE Head(q) = Sentinel
  <2>1. run' = rest
    BY <1>2, <1>14, ConcatEmptySeq
  <2>2. HasSentinel(z, e)
    BY <1>7, <1>9, <1>14 DEF HasSentinel
  <2> QED
    BY <1>1, <1>4, <1>9, <1>10, <1>11, <1>13, <1>14, <2>1, <2>2
<1>15. CASE Head(q) # Sentinel
  <2>1. run' = Asked(rest, <<DequeueCall(e)>>)
    BY <1>2, <1>15 DEF Asked
  <2> QED
    BY <1>1, <1>4, <1>9, <1>10, <1>11, <1>13, <1>15, <2>1
<1> QED
  BY <1>14, <1>15

\* The list is moved.
LEMMA ListMovesOnDesktop ==
  ASSUME DeskInv, NEW what \in {"down", "up"}, ListMoves(what)
  PROVE  DeskInv' /\ ShowsNone
<1>1. PICK x, y, r, q, d, c, E, A : x = fx /\ y = fx' /\ r = run /\ q = run' /\ d = desk /\ c = desk'
                                    /\ E = DOMAIN fx.el /\ A = 1..Len(fx.anim)
  OBVIOUS
<1>2. r = <<>> /\ UNCHANGED <<calls, threw, meddled>> /\ desk.clicks > 0 /\ desk' = Spent /\ Animated(List, what, TRUE, run)
  BY <1>1 DEF ListMoves, UserActs
<1>3. /\ FxOK(x) /\ QueuesOK(x) /\ DOMAIN x.el = E /\ E = ElementsOf(d) /\ DesktopStack(x, r) /\ DesktopOne(x, r) /\ d \in DeskRecord
      /\ \A e \in E : ~x.el[e].finish
      /\ LaidOut(x, d) \/ \E n \in 1..d.opened : Fading(x, r, Button(n))
  BY <1>1 DEF DeskInv, FxTypeOK, Elem, Opened, DeskType, DeskRecord
<1>4. Calm(x, r, d) /\ Slots(r) = {} /\ r \in Seq(FrameType(E, A))
  BY <1>1, <1>2, CalmOr, NoSlots
<1>5. List \in E /\ what \in Whats
  BY <1>3 DEF ElementsOf, Whats
<1>6. /\ FxOK(y) /\ QueuesOK(y) /\ Only(x, y, List) /\ y.anim = x.anim
      /\ SameMarks(x.el[List], y.el[List]) /\ y.el[List].visible = x.el[List].visible
      /\ \/ HasSentinel(x, List) /\ HasSentinel(y, List) /\ q = r
         \/ ~HasSentinel(x, List) /\ q = Asked(r, <<DequeueCall(List)>>)
  BY <1>1, <1>2, <1>3, <1>4, <1>5, AnimatedIs DEF Elem
<1>7. c \in DeskRecord /\ c.opened = d.opened /\ c.room = d.room /\ c.vertical = d.vertical
  BY <1>1, <1>2, <1>3, SpentIs
<1>8. PICK k : k = DequeueCall(List)
  OBVIOUS
<1>9. q = <<>> \/ q = Todo(<<k>>)
  <2>1. Asked(r, <<k>>) = Todo(<<k>>)
    <3>1. PICK g : g = [f |-> "todo", todo |-> <<k>>]
      OBVIOUS
    <3>2. Todo(<<k>>) = <<g>>
      BY <3>1 DEF Todo
    <3> QED
      BY <1>2, <3>2, EmptyBefore DEF Asked
  <2> QED
    BY <1>2, <1>6, <1>8, <2>1
<1>10. (\A s \in Slots(q) : s = <<1, 0>> /\ CallOf(q, s) = k) /\ \A i \in 1..Len(q) : q[i].f = "todo"
  <2>1. CASE q = <<>>
    BY <2>1, NoSlots
  <2>2. CASE q = Todo(<<k>>)
    <3>1. /\ Len(q) = 1 /\ q[1] = [f |-> "todo", todo |-> <<k>>]
          /\ \A s \in Slots(q) : s = <<1, 0>> /\ CallOf(q, s) = k
      BY <2>2, OneCall
    <3> QED
      BY <3>1
  <2> QED
    BY <1>9, <2>1, <2>2
<1>11. q \in Seq(FrameType(E, A))
  <2>1. CASE q = <<>>
    BY <2>1
  <2>2. CASE q = Todo(<<k>>)
    <3>1. PICK cs : cs = <<k>>
      OBVIOUS
    <3>2. k \in CallType(E, A)
      BY <1>5, <1>8 DEF DequeueCall, CallType
    <3>3. cs \in Seq(CallType(E, A)) /\ cs # <<>>
      BY <3>1, <3>2
    <3>4. [f |-> "todo", todo |-> cs] \in FrameType(E, A)
      BY <3>3, TodoIsFrame
    <3>5. q = <<[f |-> "todo", todo |-> cs]>>
      BY <2>2, <3>1, <3>3 DEF Todo
    <3> QED
      BY <3>4, <3>5
  <2> QED
    BY <1>9, <2>1, <2>2
<1>12. DOMAIN y.el = E /\ \A e \in E : SameMarks(x.el[e], y.el[e]) /\ y.el[e].visible = x.el[e].visible /\ (e # List => y.el[e] = x.el[e])
  BY <1>3, <1>5, <1>6 DEF Only, SameMarks
<1>13. FxTypeOK' /\ DeskType'
  BY <1>1, <1>2, <1>6, <1>7, <1>11, <1>12 DEF DeskInv, FxTypeOK, RunOK, DeskType, DeskRecord
<1>14. DesktopStack(y, q)
  BY <1>3, <1>6, <1>8, <1>10 DEF DesktopStack, DequeueCall
<1>15. Windows(y, q, c)
  <2>1. \A n \in 1..d.opened : Win(n) \in E /\ Win(n) # List
    BY <1>3 DEF ElementsOf, Win, List
  <2>2. \A n \in 1..d.opened : Queue(y, Win(n)) = Queue(x, Win(n))
    BY <1>12, <2>1 DEF Queue
  <2>3. Calm(y, q, c)
    BY <1>4, <1>7, <1>8, <1>10, <2>2 DEF Calm, DequeueCall
  <2> QED
    BY <2>3, CalmWindows
<1>16. DesktopOne(y, q)
  <2>1. \A e : InQueue(y, e) = InQueue(x, e)
    BY <1>6 DEF InQueue
  <2>2. ASSUME NEW e \in E, e # List PROVE AtMostOne(y, q, e)
    <3>1. \A s \in Slots(q) : ~GoesOn(y, CallOf(q, s), e)
      BY <1>8, <1>10, <2>2 DEF GoesOn, DequeueCall
    <3>2. Moving(y, q, e) \subseteq Moving(x, r, e)
      BY <2>1, <3>1 DEF Moving
    <3> QED
      BY <1>3, <2>2, <3>2 DEF DesktopOne, AtMostOne
  <2>3. AtMostOne(y, q, List) /\ (InQueue(y, List) # {} => HasSentinel(y, List))
    <3>1. CASE HasSentinel(x, List)
      <4>1. q = r /\ HasSentinel(y, List)
        BY <1>6, <3>1
      <4>2. Moving(y, q, List) = {<<0, a>> : a \in InQueue(y, List)}
        BY <1>4, <4>1 DEF Moving
      <4>3. Moving(y, q, List) \subseteq Moving(x, r, List)
        BY <2>1, <4>2 DEF Moving
      <4> QED
        BY <1>3, <1>5, <4>1, <4>3 DEF DesktopOne, AtMostOne
    <3>2. CASE ~HasSentinel(x, List)
      <4>1. InQueue(y, List) = {}
        BY <1>3, <2>1, <3>2 DEF DesktopOne
      <4>2. \A m \in Moving(y, q, List) : m = <<1, 0>>
        BY <1>10, <4>1 DEF Moving
      <4> QED
        BY <4>1, <4>2 DEF AtMostOne
    <3> QED
      BY <3>1, <3>2
  <2> QED
    BY <1>12, <2>2, <2>3 DEF DesktopOne
<1>17. LaidOut(y, c) \/ \E n \in 1..c.opened : Fading(y, q, Button(n))
  <2>1. CASE LaidOut(x, d)
    <3>1. LaidOut(y, d)
      BY <1>3, <1>12, <2>1, LaidOutStays DEF SameMarks
    <3> QED
      BY <1>3, <1>7, <3>1, SameLayout DEF DeskRecord
  <2>2. ASSUME NEW n \in 1..d.opened, Fading(x, r, Button(n)) PROVE Fading(y, q, Button(n))
    <3>1. \A b : ~Waits(r, b) /\ \A i : i \notin 1..Len(r)
      BY <1>2, <1>4 DEF Waits
    <3> QED
      BY <1>6, <2>2, <3>1 DEF Fading
  <2> QED
    BY <1>3, <1>7, <2>1, <2>2
<1>18. DeskInv'
  <2>1. DOMAIN y.el = ElementsOf(c) /\ \A e \in DOMAIN y.el : ~y.el[e].finish
    BY <1>3, <1>7, <1>12 DEF ElementsOf, SameMarks
  <2> QED
    BY <1>1, <1>6, <1>13, <1>14, <1>15, <1>16, <1>17, <2>1 DEF DeskInv, Elem, Opened
<1>19. \A e \in Elem : fx'.el[e].visible => fx.el[e].visible
  BY <1>1, <1>12 DEF Elem
<1> QED
  BY <1>18, <1>19, ShowsNoneIs

\* Three calls wait.
LEMMA ThreeCalls ==
  ASSUME NEW c, NEW i, NEW k, NEW q, q = Todo(<<c, i, k>>)
  PROVE  /\ Len(q) = 1 /\ q[1] = [f |-> "todo", todo |-> <<c, i, k>>] /\ q = <<[f |-> "todo", todo |-> <<c, i, k>>]>>
         /\ Slots(q) = {<<1, 0>>, <<1, 1>>, <<1, 2>>}
         /\ CallOf(q, <<1, 2>>) = c /\ CallOf(q, <<1, 1>>) = i /\ CallOf(q, <<1, 0>>) = k
<1>1. PICK cs, g : cs = <<c, i, k>> /\ g = [f |-> "todo", todo |-> cs]
  OBVIOUS
<1>2. PICK S : S = {c, i, k}
  OBVIOUS
<1>3. cs \in Seq(S) /\ Len(cs) = 3 /\ cs[1] = c /\ cs[2] = i /\ cs[3] = k
  BY <1>1, <1>2
<1>4. q = <<g>>
  <2>1. <<c, i, k>> # <<>>
    BY <1>1, <1>3
  <2> QED
    BY <1>1, <2>1 DEF Todo
<1>5. Len(q) = 1 /\ q[1] = g /\ g.f = "todo" /\ g.todo = cs
  BY <1>1, <1>4
<1>6. Slots(q) = {<<1, 0>>, <<1, 1>>, <<1, 2>>}
  <2>1. \A s : s \in Slots(q) <=> \E m \in 1..Len(q) : q[m].f = "todo" /\ \E d \in 0..(Len(q[m].todo) - 1) : s = <<m, d>>
    BY DEF Slots
  <2>2. Len(q) = 1 /\ q[1].f = "todo" /\ Len(q[1].todo) = 3
    BY <1>3, <1>5
  <2>3. \A m : m \in 1..Len(q) <=> m = 1
    BY ONLY <2>2
  <2>4. \A d : d \in 0..(Len(q[1].todo) - 1) <=> d = 0 \/ d = 1 \/ d = 2
    BY ONLY <2>2
  <2>5. \A s : s \in Slots(q) <=> s = <<1, 0>> \/ s = <<1, 1>> \/ s = <<1, 2>>
    <3>1. \A s : s \in Slots(q) <=> \E d \in 0..(Len(q[1].todo) - 1) : s = <<1, d>>
      BY ONLY <2>1, <2>2, <2>3
    <3>2. ASSUME NEW s PROVE s \in Slots(q) <=> s = <<1, 0>> \/ s = <<1, 1>> \/ s = <<1, 2>>
      BY ONLY <3>1, <2>2
    <3> QED
      BY ONLY <3>2
  <2> QED
    BY ONLY <2>5
<1>7. CallOf(q, <<1, 2>>) = c /\ CallOf(q, <<1, 1>>) = i /\ CallOf(q, <<1, 0>>) = k
  <2>1. q[1].todo = cs /\ Len(cs) = 3
    BY <1>3, <1>5
  <2>2. \A d \in 0..2 : CallOf(q, <<1, d>>) = cs[3 - d]
    BY <2>1 DEF CallOf
  <2> QED
    BY ONLY <2>2, <1>3
<1> QED
  BY <1>1, <1>4, <1>5, <1>6, <1>7

\* The elements of a new window.
LEMMA NewWindow ==
  ASSUME DeskInv, AlerBox, NEW n, n = desk.opened + 1, NEW w, w = Win(n), NEW b, b = Button(n)
  PROVE  /\ w \notin Elem /\ b \notin Elem /\ w # b
         /\ FxOK(fx') /\ DOMAIN fx'.el = Elem \union {w, b} /\ fx'.anim = fx.anim
         /\ \A e \in Elem : fx'.el[e] = fx.el[e]
         /\ Queue(fx', w) = <<Item("show")>> /\ Queue(fx', b) = <<Item("opaque")>>
         /\ ~fx'.el[w].finish /\ ~fx'.el[b].finish /\ ~fx'.el[w].inDocument
<1>1. FxOK(fx) /\ Elem = ElementsOf(desk) /\ desk.opened \in Nat
  BY DeskParts
<1>2. w \notin Elem /\ b \notin Elem /\ w # b
  BY <1>1 DEF ElementsOf, Win, Button, List
<1>3a. PICK x, y, E, kw, kb, qw, qb :
        /\ x = fx /\ y = fx' /\ E = DOMAIN fx.el
        /\ qw = <<Item("show")>> /\ qb = <<Item("opaque")>>
        /\ kw = [NewElement(FALSE) EXCEPT !.inDocument = FALSE, !.queue = qw]
        /\ kb = [NewElement(TRUE) EXCEPT !.queue = qb]
  BY Zenon
<1>3b. PICK f : f = [e \in E \union {w, b} |-> IF e = w THEN kw ELSE IF e = b THEN kb ELSE fx.el[e]]
  OBVIOUS
<1>3. /\ x = fx /\ y = fx' /\ E = DOMAIN fx.el
      /\ qw = <<Item("show")>> /\ qb = <<Item("opaque")>>
      /\ kw = [NewElement(FALSE) EXCEPT !.inDocument = FALSE, !.queue = qw]
      /\ kb = [NewElement(TRUE) EXCEPT !.queue = qb]
      /\ f = [e \in E \union {w, b} |-> IF e = w THEN kw ELSE IF e = b THEN kb ELSE fx.el[e]]
  BY <1>3a, <1>3b
<1>5. DOMAIN f = E \union {w, b} /\ (\A e \in E : f[e] = x.el[e]) /\ f[w] = kw /\ f[b] = kb
  <2>1. w # b /\ w \notin E /\ b \notin E
    BY <1>2, <1>3 DEF Elem
  <2>2. f[w] = kw /\ f[b] = kb /\ DOMAIN f = E \union {w, b}
    BY ONLY <1>3, <2>1
  <2>3. \A e \in E : f[e] = x.el[e]
    BY ONLY <1>3, <2>1
  <2> QED
    BY <2>2, <2>3
<1>6. qw \in Seq(Place) /\ qb \in Seq(Place)
  <2>1. Item("show") \in Place /\ Item("opaque") \in Place
    BY DEF Item, ItemType, Whats, Place
  <2> QED
    BY <1>3, <2>1
<1>7. kw = [inDocument |-> FALSE, visible |-> FALSE, size |-> Full, at |-> Nothing, queue |-> qw,
            hooks |-> 0, fxshow |-> Nothing, finish |-> FALSE]
  BY <1>3 DEF NewElement
<1>8. kb = [inDocument |-> TRUE, visible |-> TRUE, size |-> Full, at |-> Nothing, queue |-> qb,
            hooks |-> 0, fxshow |-> Nothing, finish |-> FALSE]
  BY <1>3 DEF NewElement
<1>9. kw \in ElementType /\ kb \in ElementType
  BY <1>6, <1>7, <1>8, EffectsAssumption DEF ElementType, Maybe
<1>10. x = [el |-> x.el, hooks |-> x.hooks, anim |-> x.anim, timers |-> x.timers, ticking |-> x.ticking]
       /\ x.el \in [E -> ElementType] /\ x.hooks \in Seq(HookType) /\ x.anim \in Seq(AnimationOf(E))
       /\ x.timers \in Seq(1..Len(x.anim)) /\ x.ticking \in BOOLEAN
  BY <1>1, <1>3 DEF FxOK
<1>11. y = [el |-> f, hooks |-> x.hooks, anim |-> x.anim, timers |-> x.timers, ticking |-> x.ticking]
  <2>0. fx' = [fx EXCEPT !.el = [e \in E \union {w, b} |-> IF e = w THEN kw ELSE IF e = b THEN kb ELSE fx.el[e]]]
    BY <1>3 DEF AlerBox, Elem
  <2>1. y = [x EXCEPT !.el = f]
    BY ONLY <2>0, <1>3
  <2> QED
    BY ONLY <1>10, <2>1
<1>12. f \in [E \union {w, b} -> ElementType]
  <2>1. \A e \in E \union {w, b} : f[e] \in ElementType
    BY <1>5, <1>9, <1>10
  <2>2. f = [e \in DOMAIN f |-> f[e]]
    BY <1>3
  <2> QED
    BY <1>5, <2>1, <2>2
<1>13. x.anim \in Seq(AnimationOf(E \union {w, b}))
  <2>1. PICK A, B : A = AnimationOf(E) /\ B = AnimationOf(E \union {w, b})
    OBVIOUS
  <2>2. A \subseteq B
    BY <2>1 DEF AnimationOf
  <2>3. x.anim \in Seq(A)
    BY <1>10, <2>1
  <2>4. x.anim \in Seq(B)
    BY ONLY <2>2, <2>3
  <2> QED
    BY <2>1, <2>4
<1>14. FxOK(y) /\ DOMAIN y.el = E \union {w, b} /\ y.anim = x.anim /\ y.el = f
  BY <1>5, <1>10, <1>11, <1>12, <1>13 DEF FxOK
<1>15. Queue(y, w) = qw /\ Queue(y, b) = qb
  <2>1. w \in DOMAIN y.el /\ b \in DOMAIN y.el /\ y.el[w].queue = qw /\ y.el[b].queue = qb
    BY <1>5, <1>7, <1>8, <1>14
  <2> QED
    BY <1>6, <1>14, <2>1, QueueIs
<1>16. y.el[w].finish = FALSE /\ y.el[b].finish = FALSE /\ y.el[w].inDocument = FALSE
  BY <1>5, <1>7, <1>8, <1>14
<1>17. \A e \in Elem : y.el[e] = x.el[e]
  BY <1>3, <1>5, <1>14, Zenon DEF Elem
<1>18. DOMAIN fx'.el = Elem \union {w, b}
  BY <1>3, <1>14 DEF Elem
<1> QED
  BY <1>2, <1>3, <1>14, <1>15, <1>16, <1>17, <1>18

\* The user opens a window.
LEMMA AlerBoxOnDesktop ==
  ASSUME DeskInv, AlerBox
  PROVE  DeskInv' /\ ShowsNone
<1>1. PICK x, y, r, q, d, c, E, A, n, w, b :
        /\ x = fx /\ y = fx' /\ r = run /\ q = run' /\ d = desk /\ c = desk' /\ E = DOMAIN fx.el /\ A = 1..Len(fx.anim)
        /\ n = desk.opened + 1 /\ w = Win(n) /\ b = Button(n)
  OBVIOUS
<1>2. r = <<>> /\ UNCHANGED <<calls, threw, meddled>> /\ desk.clicks > 0 /\ desk' = [Spent EXCEPT !.opened = n]
      /\ q = Todo(<<DequeueCall(w), InsertCall(n), DequeueCall(b)>>)
  BY <1>1 DEF AlerBox, UserActs
<1>3. /\ FxOK(x) /\ QueuesOK(x) /\ E = ElementsOf(d) /\ DesktopStack(x, r) /\ DesktopOne(x, r) /\ d \in DeskRecord
      /\ \A e \in E : ~x.el[e].finish
  BY <1>1 DEF DeskInv, FxTypeOK, Elem, DeskType, DeskRecord
<1>4. Calm(x, r, d) /\ Slots(r) = {}
  BY <1>1, <1>2, CalmOr, NoSlots
<1>5. /\ w \notin E /\ b \notin E /\ w # b
      /\ FxOK(y) /\ DOMAIN y.el = E \union {w, b} /\ y.anim = x.anim
      /\ \A e \in E : y.el[e] = x.el[e]
      /\ Queue(y, w) = <<Item("show")>> /\ Queue(y, b) = <<Item("opaque")>>
      /\ ~y.el[w].finish /\ ~y.el[b].finish /\ ~y.el[w].inDocument
  BY <1>1, NewWindow DEF Elem
<1>6. PICK k, i, l : k = DequeueCall(w) /\ i = InsertCall(n) /\ l = DequeueCall(b)
  OBVIOUS
<1>7. /\ Len(q) = 1 /\ q[1] = [f |-> "todo", todo |-> <<k, i, l>>] /\ q = <<[f |-> "todo", todo |-> <<k, i, l>>]>>
      /\ Slots(q) = {<<1, 0>>, <<1, 1>>, <<1, 2>>}
      /\ CallOf(q, <<1, 2>>) = k /\ CallOf(q, <<1, 1>>) = i /\ CallOf(q, <<1, 0>>) = l
  <2>1. q = Todo(<<k, i, l>>)
    BY <1>2, <1>6
  <2> QED
    BY <2>1, ThreeCalls
<1>8. c \in DeskRecord /\ c.opened = n /\ d.opened \in Nat /\ n = d.opened + 1
  <2>1. Spent \in DeskRecord /\ d.opened \in Nat
    BY <1>1, <1>2, <1>3, SpentIs DEF DeskRecord
  <2> QED
    BY <1>1, <1>2, <2>1 DEF DeskRecord
<1>9. DOMAIN y.el = ElementsOf(c)
  <2>1. 1..n = (1..d.opened) \union {n}
    BY <1>8
  <2> QED
    BY <1>1, <1>3, <1>5, <1>8, <2>1 DEF ElementsOf
<1>10. q \in Seq(FrameType(DOMAIN y.el, 1..Len(y.anim)))
  <2>1. PICK F, B, cs : F = DOMAIN y.el /\ B = 1..Len(y.anim) /\ cs = <<k, i, l>>
    OBVIOUS
  <2>2. k \in CallType(F, B) /\ i \in CallType(F, B) /\ l \in CallType(F, B)
    BY <1>5, <1>6, <1>8, <2>1 DEF CallType, DequeueCall, InsertCall
  <2>3. cs \in Seq(CallType(F, B)) /\ cs # <<>>
    BY <2>1, <2>2
  <2>4. [f |-> "todo", todo |-> cs] \in FrameType(F, B)
    BY <2>3, TodoIsFrame
  <2> QED
    BY <1>7, <2>1, <2>4
<1>11. \A e \in E : Queue(y, e) = Queue(x, e)
  BY <1>5 DEF Queue
<1>12. QueuesOK(y)
  <2>1. Item("show") \in ItemType /\ Item("show").queued /\ Item("opaque") \in ItemType /\ Item("opaque").queued
    BY DEF Item, ItemType, Whats
  <2>2. ASSUME NEW e \in E, NEW j \in 1..Len(Queue(y, e))
        PROVE  \/ Queue(y, e)[j] \in ItemType /\ Queue(y, e)[j].queued
               \/ j = 1 /\ Queue(y, e)[1] = Sentinel
    BY <1>1, <1>3, <1>11, <2>2 DEF QueuesOK
  <2>3. ASSUME NEW e \in {w, b}, NEW j \in 1..Len(Queue(y, e))
        PROVE  Queue(y, e)[j] \in ItemType /\ Queue(y, e)[j].queued
    BY <1>5, <2>1, <2>3
  <2> QED
    BY <1>5, <2>2, <2>3 DEF QueuesOK
<1>13. DesktopStack(y, q)
  <2>1. \A s \in Slots(q) : CallOf(q, s) \in {k, i, l}
    BY <1>7
  <2>2. k.op = "dequeue" /\ i.op = "insert" /\ l.op = "dequeue"
    BY <1>6 DEF DequeueCall, InsertCall
  <2> QED
    BY <1>3, <1>5, <1>7, <2>1, <2>2 DEF DesktopStack
<1>14. Windows(y, q, c)
  <2>1. Opening(q, n)
    BY <1>1, <1>2 DEF Opening
  <2>2. \A m \in 1..n : m = n \/ m \in 1..d.opened
    BY <1>8
  <2>3. \A m \in 1..d.opened : Win(m) \in E
    BY <1>3 DEF ElementsOf
  <2>4. \A m \in 1..d.opened : Queue(y, Win(m)) \in {<<>>, <<Sentinel>>}
    BY <1>4, <1>11, <2>3 DEF Calm
  <2>5. \A m \in 1..n : Queue(y, Win(m)) \in {<<>>, <<Sentinel>>} \/ (Opening(q, m) /\ Queue(y, Win(m)) = <<Item("show")>>)
    BY <1>1, <1>5, <2>1, <2>2, <2>4
  <2>6. \A m \in 1..n : Opening(q, m) \/ Inserting(q, m) => ~y.el[Win(m)].inDocument
    BY <1>1, <1>5, <2>1, OpeningOne
  <2>7. \A s \in Slots(q) : CallOf(q, s).op = "insert" => CallOf(q, s) = InsertCall(n)
    <3>1. k.op # "insert" /\ l.op # "insert"
      BY <1>6 DEF DequeueCall
    <3> QED
      BY <1>6, <1>7, <3>1
  <2>8. n \in 1..n
    BY <1>8
  <2> QED
    BY <1>8, <2>1, <2>5, <2>6, <2>7, <2>8 DEF Windows
<1>15. DesktopOne(y, q)
  <2>1. \A e : InQueue(y, e) = InQueue(x, e)
    BY <1>5 DEF InQueue
  <2>2. \A e : InQueue(x, e) # {} => e \in E
    <3>1. \A a \in DOMAIN x.anim : x.anim[a].elem \in E
      BY <1>1, <1>3, FxParts
    <3> QED
      BY <3>1 DEF InQueue
  <2>3. \A e, s : s \in Slots(q) /\ GoesOn(y, CallOf(q, s), e) => (s = <<1, 2>> /\ e = w) \/ (s = <<1, 0>> /\ e = b)
    <3>1. k.op = "dequeue" /\ k.e = w /\ l.op = "dequeue" /\ l.e = b /\ i.op = "insert"
      BY <1>6 DEF DequeueCall, InsertCall
    <3>2. \A e : (GoesOn(y, k, e) => e = w) /\ (GoesOn(y, l, e) => e = b) /\ ~GoesOn(y, i, e)
      BY <3>1 DEF GoesOn, DequeueCall
    <3> QED
      BY <1>7, <3>2
  <2>4. ASSUME NEW e \in E PROVE AtMostOne(y, q, e)
    <3>1. \A s \in Slots(q) : ~GoesOn(y, CallOf(q, s), e)
      BY <1>5, <2>3, <2>4
    <3>2. Moving(y, q, e) \subseteq Moving(x, r, e)
      BY <2>1, <3>1 DEF Moving
    <3> QED
      BY <1>1, <1>3, <3>2 DEF DesktopOne, AtMostOne
  <2>5. ASSUME NEW e \in {w, b} PROVE AtMostOne(y, q, e)
    <3>1. InQueue(y, e) = {}
      BY <1>5, <2>1, <2>2, <2>5
    <3>2. \A m \in Moving(y, q, e) : m \in Slots(q) /\ GoesOn(y, CallOf(q, m), e)
      BY <3>1 DEF Moving
    <3>3. \A m \in Moving(y, q, e) : (m = <<1, 2>> /\ e = w) \/ (m = <<1, 0>> /\ e = b)
      BY <2>3, <3>2
    <3> QED
      BY <1>5, <3>3 DEF AtMostOne
  <2>6. InQueue(y, List) # {} => HasSentinel(y, List)
    BY <1>3, <1>11, <2>1, <2>2 DEF DesktopOne, HasSentinel
  <2> QED
    BY <1>5, <2>4, <2>5, <2>6 DEF DesktopOne
<1>16. \E m \in 1..c.opened : Fading(y, q, Button(m))
  <2>1. Waits(q, DequeueCall(b))
    BY <1>6, <1>7 DEF Waits
  <2>2. Fading(y, q, b)
    BY <1>5, <2>1 DEF Fading
  <2> QED
    BY <1>1, <1>8, <2>2
<1>17. \A e \in DOMAIN y.el : ~y.el[e].finish
  BY <1>3, <1>5
<1>18. FxTypeOK' /\ DeskType'
  BY <1>1, <1>2, <1>5, <1>8, <1>10 DEF DeskInv, FxTypeOK, RunOK, DeskType, DeskRecord
<1>19. DeskInv'
  BY <1>1, <1>9, <1>12, <1>13, <1>14, <1>15, <1>16, <1>17, <1>18 DEF DeskInv, Elem, Opened
<1>20. \A e \in Elem : fx'.el[e].visible => fx.el[e].visible
  BY <1>1, <1>5 DEF Elem
<1> QED
  BY <1>19, <1>20, ShowsNoneIs

-----------------------------------------------------------------------------
(***************************************************************************)
(* The desktop, step by step.                                              *)
(***************************************************************************)

\* Whose window a step shows.
ShowsOnly(n) == \A m \in Opened : m # n /\ fx'.el[Win(m)].visible => fx.el[Win(m)].visible

\* The user shows the window of the task button, and no other.
LEMMA UserOnDesktop ==
  ASSUME DeskInv, User
  PROVE  DeskInv' /\ (ShowsNone \/ \E n \in Opened : TaskButton(n) /\ ShowsOnly(n))
<1>1. CASE AlerBox
  BY <1>1, AlerBoxOnDesktop
<1>2. CASE Resize
  BY <1>2, ResizeOnDesktop
<1>3. ASSUME NEW n \in Opened, Minimise(n) PROVE DeskInv' /\ ShowsNone
  BY <1>3, MinimiseOnDesktop
<1>4. ASSUME NEW n \in Opened, Close(n) PROVE DeskInv' /\ ShowsNone
  BY <1>4, CloseOnDesktop
<1>5. ASSUME NEW n \in Opened, TaskButton(n) PROVE DeskInv' /\ TaskButton(n) /\ ShowsOnly(n)
  BY <1>5, TaskButtonOnDesktop DEF ShowsOnly
<1>6. ASSUME NEW what \in {"down", "up"}, ListMoves(what) PROVE DeskInv' /\ ShowsNone
  BY <1>6, ListMovesOnDesktop
<1> QED
  BY <1>1, <1>2, <1>3, <1>4, <1>5, <1>6 DEF User

\* Every step of the desktop keeps the invariant, and shows at most that window.
LEMMA DeskNext ==
  ASSUME DeskInv, OnDesktop, Next
  PROVE  DeskInv' /\ (ShowsNone \/ \E n \in Opened : TaskButton(n) /\ ShowsOnly(n))
<1>1. CASE FxSteps /\ UNCHANGED desk
  <2>1. DoDequeue \/ DoComplete \/ TimerCalled \/ TimerOver \/ TickOver
    BY <1>1, NeverOnDesktop DEF FxSteps
  <2> QED
    BY <1>1, <2>1, DequeueOnDesktop, CompleteOnDesktop, TimerOnDesktop, TickOnDesktop
<1>2. CASE Tick /\ UNCHANGED desk
  BY <1>2, TickOnDesktop
<1>3. CASE ReturnToDesktop
  BY <1>3, ReturnOnDesktop
<1>4. CASE Insert
  BY <1>4, InsertOnDesktop
<1>5. CASE User
  BY <1>5, UserOnDesktop
<1> QED
  BY <1>1, <1>2, <1>3, <1>4, <1>5 DEF Next

\* Nothing happens on the desktop.
LEMMA DeskStutter ==
  ASSUME DeskInv, UNCHANGED deskVars
  PROVE  DeskInv' /\ ShowsNone
<1>1. UNCHANGED <<fx, run, calls, threw, meddled, desk>>
  BY DEF deskVars
<1> QED
  BY <1>1 DEF DeskInv, ShowsNone, FxTypeOK, RunOK, DeskType, Elem, Opened

\* The page of the desktop when it is loaded.
LEMMA DeskStarts ==
  ASSUME Init, DesktopInit
  PROVE  DeskInv
<1>1. PICK x, r, d, k, it, qu : x = fx /\ r = run /\ d = desk /\ it = Item("down") /\ qu = <<it>>
                                /\ k = [NewElement(TRUE) EXCEPT !.at = "up", !.queue = qu]
  BY Zenon
<1>2. k = [inDocument |-> TRUE, visible |-> TRUE, size |-> Full, at |-> "up", queue |-> qu,
           hooks |-> 0, fxshow |-> Nothing, finish |-> FALSE]
  BY <1>1 DEF NewElement
<1>3. it \in ItemType /\ it.queued /\ it \in Place /\ qu \in Seq(Place) /\ Len(qu) = 1 /\ qu[1] = it
  BY <1>1 DEF Item, ItemType, Whats, Place
<1>4. k \in ElementType
  <2>1. "up" \in Maybe(Whats) /\ qu \in Maybe(Seq(Place)) /\ Nothing \in Maybe([size : Int, hidden : Maybe(BOOLEAN)])
    BY <1>3 DEF Maybe, Whats
  <2> QED
    BY <1>2, <2>1, EffectsAssumption DEF ElementType, EffectsAssumption
<1>5. x = [el |-> [e \in {List} |-> k], hooks |-> <<>>, anim |-> <<>>, timers |-> <<>>, ticking |-> FALSE]
  BY <1>1 DEF DesktopInit
<1>6. x.el \in [{List} -> ElementType] /\ DOMAIN x.el = {List} /\ x.el[List] = k /\ x.anim = <<>> /\ x.hooks = <<>> /\ x.timers = <<>> /\ x.ticking = FALSE
  BY <1>4, <1>5
<1>7. FxOK(x)
  BY <1>5, <1>6 DEF FxOK
<1>8. PICK c : c = DequeueCall(List)
  OBVIOUS
<1>9. /\ r = Todo(<<c>>) /\ Len(r) = 1 /\ r[1] = [f |-> "todo", todo |-> <<c>>] /\ r # <<>>
      /\ \A s \in Slots(r) : s = <<1, 0>> /\ CallOf(r, s) = c
  BY <1>1, <1>8, OneCall DEF DesktopInit
<1>10. r \in Seq(FrameType({List}, 1..Len(x.anim)))
  <2>1. PICK cs : cs = <<c>>
    OBVIOUS
  <2>2. c \in CallType({List}, 1..Len(x.anim))
    BY <1>8 DEF DequeueCall, CallType
  <2>3. cs \in Seq(CallType({List}, 1..Len(x.anim))) /\ cs # <<>>
    BY <2>1, <2>2
  <2>4. [f |-> "todo", todo |-> cs] \in FrameType({List}, 1..Len(x.anim))
    BY <2>3, TodoIsFrame
  <2>5. r = <<[f |-> "todo", todo |-> cs]>>
    BY <1>9, <2>1, <2>3 DEF Todo
  <2> QED
    BY <2>4, <2>5
<1>11. d \in DeskRecord /\ d.opened = 0 /\ d.vertical = FALSE
  <2>1. calls = 0
    BY DEF DesktopInit
  <2>2. desk \in [clicks : {MaxClicks}, room : Fits, opened : {0}, vertical : {FALSE}, listButton : {TRUE}]
    BY <2>1 DEF Init
  <2>3. d.clicks = MaxClicks /\ d.room \in Fits /\ d.opened = 0 /\ d.vertical = FALSE /\ d.listButton = TRUE
    BY ONLY <1>1, <2>2
  <2>4. MaxClicks \in Nat
    BY DesktopAssumption DEF DesktopAssumption
  <2>5. d \in [clicks : Nat, room : Fits, opened : Nat, vertical : BOOLEAN, listButton : BOOLEAN]
    <3>1. PICK C, O, V, L : C = {MaxClicks} /\ O = {0} /\ V = {FALSE} /\ L = {TRUE}
      OBVIOUS
    <3>2. C \subseteq Nat /\ O \subseteq Nat /\ V \subseteq BOOLEAN /\ L \subseteq BOOLEAN
      BY <2>4, <3>1
    <3>3. d \in [clicks : C, room : Fits, opened : O, vertical : V, listButton : L]
      BY <1>1, <2>2, <3>1
    <3> QED
      BY ONLY <3>2, <3>3
  <2> QED
    BY ONLY <2>3, <2>5 DEF DeskRecord
<1>12. FxTypeOK /\ DeskType
  BY <1>1, <1>6, <1>7, <1>10, <1>11 DEF FxTypeOK, RunOK, DeskType, DeskRecord, DesktopInit
<1>13. QueuesOK(x)
  <2>1. Queue(x, List) = qu
    <3>1. x.el[List].queue = qu /\ List \in DOMAIN x.el
      BY <1>2, <1>6
    <3> QED
      BY <1>3, <1>7, <3>1, QueueIs
  <2>2. \A e \in DOMAIN x.el : Queue(x, e) = qu
    BY <1>6, <2>1
  <2> QED
    BY ONLY <1>3, <2>2 DEF QueuesOK
<1>14. DOMAIN x.el = ElementsOf(d) /\ \A e \in DOMAIN x.el : ~x.el[e].finish
  <2>1. 1..d.opened = {}
    BY <1>11
  <2> QED
    BY <1>2, <1>6, <2>1 DEF ElementsOf
<1>15. DesktopStack(x, r) /\ Windows(x, r, d) /\ DesktopOne(x, r)
  <2>1. c.op = "dequeue"
    BY <1>8 DEF DequeueCall
  <2>2. \A n : n \notin 1..d.opened
    BY <1>11
  <2>3. \A a : a \notin DOMAIN x.anim
    BY <1>6
  <2>4. DesktopStack(x, r)
    BY <1>9, <2>1, <2>3 DEF DesktopStack
  <2>5. Windows(x, r, d)
    BY <1>9, <2>1, <2>2 DEF Windows
  <2>6. \A e : InQueue(x, e) = {}
    BY <2>3 DEF InQueue
  <2>7. \A e : \A m \in Moving(x, r, e) : m = <<1, 0>>
    BY <1>9, <2>6 DEF Moving
  <2> QED
    BY <2>4, <2>5, <2>6, <2>7 DEF DesktopOne, AtMostOne
<1>16. LaidOut(x, d)
  <2>1. PICK B : B = {n \in 1..d.opened : x.el[Button(n)].inDocument}
    OBVIOUS
  <2>2. B = {}
    BY <1>11, <2>1
  <2>3. Cardinality(B) = 0
    BY <2>2, FS_EmptySet
  <2>4. d.room \in Nat /\ d = [d EXCEPT !.vertical = FALSE]
    BY <1>11, DesktopAssumption DEF DeskRecord
  <2>5. ~(Cardinality(B) > d.room)
    BY <2>3, <2>4
  <2>6. ToolBRAuto(d, x.el) = [d EXCEPT !.vertical = Cardinality(B) > d.room]
    BY <2>1 DEF ToolBRAuto
  <2>7. (Cardinality(B) > d.room) = FALSE
    BY <2>5
  <2>8. ToolBRAuto(d, x.el) = d
    BY <2>4, <2>6, <2>7
  <2> QED
    BY <2>8 DEF LaidOut
<1> QED
  BY <1>1, <1>12, <1>13, <1>14, <1>15, <1>16 DEF DeskInv, Elem

\* When nothing moves, no button is fading in, and the task bar is laid out.
LEMMA StillIsLaidOut ==
  ASSUME DeskInv
  PROVE  TaskBarFits
<1>1. SUFFICES ASSUME \A n \in Opened : Still(Button(n))
               PROVE  desk.vertical <=> Cardinality({n \in Opened : fx.el[Button(n)].inDocument}) > desk.room
  BY DEF TaskBarFits
<1>2. LaidOut(fx, desk)
  <2>1. ASSUME NEW n \in Opened, Fading(fx, run, Button(n)) PROVE FALSE
    <3>1. run = <<>> /\ Running(Button(n)) = {}
      BY <1>1 DEF Still
    <3>2. Slots(run) = {} /\ \A i : i \notin 1..Len(run)
      BY <3>1, NoSlots
    <3> QED
      BY <2>1, <3>1, <3>2 DEF Fading, Waits, Running
  <2> QED
    BY <2>1 DEF DeskInv
<1>3. PICK d, k : d = desk /\ k = (Cardinality({n \in Opened : fx.el[Button(n)].inDocument}) > desk.room)
  OBVIOUS
<1>4. d = [d EXCEPT !.vertical = k] /\ d \in DeskRecord
  BY <1>2, <1>3 DEF LaidOut, ToolBRAuto, Opened, DeskInv, DeskType, DeskRecord
<1>5. d.vertical = k
  BY <1>4 DEF DeskRecord
<1> QED
  BY <1>3, <1>5

-----------------------------------------------------------------------------
(***************************************************************************)
(* The page of boxes.                                                      *)
(***************************************************************************)

\* A step of what is above the lowest frame, or of the lowest when it is a todo.
Above(r, q) ==
  /\ r # <<>> /\ r[Len(r)].f \in {"todo", "fn"}
  /\ Len(r) > 1 => q # <<>> /\ q[1] = r[1]
  /\ Len(r) = 1 /\ q # <<>> => q[1].f \in {"todo", "fn"}
  /\ \A i \in 2..Len(q) : q[i].f \in {"todo", "fn"}

\* Calls that a step adds.
Adds(r, q) ==
  \A s \in Slots(q) :
    \/ s \in Slots(r) /\ CallOf(q, s) = CallOf(r, s)
    \/ CallOf(q, s).op \in {"dequeue", "complete", "unqueued"}
    \/ CallOf(q, s).op = "start" /\ ~CallOf(q, s).item.queued

\* A timer of each animation that runs.
TimerFine(x, a) == x.anim[a].state = "pending" => ~x.anim[a].stopped /\ \E j \in 1..Len(x.timers) : x.timers[j] = a

\* Animations and timers only grow.
Grows(x, y) ==
  /\ \A b \in DOMAIN x.anim : b \in DOMAIN y.anim /\ y.anim[b] = x.anim[b]
  /\ Len(x.timers) <= Len(y.timers) /\ \A j \in 1..Len(x.timers) : y.timers[j] = x.timers[j]
  /\ \A a \in DOMAIN y.anim \ DOMAIN x.anim : TimerFine(y, a)

\* TimersOK, animation by animation.
LEMMA TimersFine ==
  ASSUME NEW x
  PROVE  TimersOK(x) <=> \A a \in DOMAIN x.anim : TimerFine(x, a)
BY DEF TimersOK, TimerFine, InTimers

\* Timers that grow keep those there are.
LEMMA GrowsTimers ==
  ASSUME NEW x, FxOK(x), NEW y, FxOK(y), Grows(x, y), TimersOK(x)
  PROVE  TimersOK(y)
<1>1. \A a \in DOMAIN x.anim : TimerFine(x, a)
  BY TimersFine
<1>2. Len(x.timers) \in Nat /\ Len(y.timers) \in Nat
  BY FxParts
<1>3. ASSUME NEW a \in DOMAIN y.anim PROVE TimerFine(y, a)
  <2>1. CASE a \in DOMAIN x.anim
    <3>1. TimerFine(x, a) /\ y.anim[a] = x.anim[a]
      BY <1>1, <2>1 DEF Grows
    <3>2. \A j \in 1..Len(x.timers) : j \in 1..Len(y.timers) /\ y.timers[j] = x.timers[j]
      BY <1>2 DEF Grows
    <3> QED
      BY <3>1, <3>2 DEF TimerFine
  <2>2. CASE a \notin DOMAIN x.anim
    BY <1>3, <2>2 DEF Grows
  <2> QED
    BY <2>1, <2>2
<1> QED
  BY <1>3, TimersFine

\* Frames of a stack.
LEMMA FramesAre ==
  ASSUME NEW E, NEW A, NEW r \in Seq(FrameType(E, A))
  PROVE  /\ Len(r) \in Nat /\ \A i \in 1..Len(r) : r[i] \in FrameType(E, A)
         /\ r # <<>> <=> Len(r) >= 1
         /\ \A i \in 1..Len(r) : r[i].f \in {"todo", "fn", "tick", "stop"}
         /\ \A i \in 1..Len(r) : r[i].f = "tick" => r[i].over \in A \union {0}
<1>1. Len(r) \in Nat /\ \A i \in 1..Len(r) : r[i] \in FrameType(E, A)
  OBVIOUS
<1>2. r # <<>> <=> Len(r) >= 1
  OBVIOUS
<1>3. \A g \in FrameType(E, A) : g.f \in {"todo", "fn", "tick", "stop"} /\ (g.f = "tick" => g.over \in A \union {0})
  BY DEF FrameType
<1> QED
  BY <1>1, <1>2, <1>3

\* The lowest frame stays below.
LEMMA AboveStack ==
  ASSUME NEW x, FxOK(x), NEW y, NEW E, NEW r \in Seq(FrameType(E, 1..Len(x.anim))), NEW B, NEW q \in Seq(FrameType(E, B)),
         Above(r, q), Adds(r, q), \A b \in DOMAIN x.anim : y.anim[b] = x.anim[b],
         \A e : Finishing(r, e) => Finishing(q, e), StackOK(x, r)
  PROVE  StackOK(y, q)
<1>1. /\ Len(r) \in Nat /\ (r # <<>> <=> Len(r) >= 1) /\ \A i \in 1..Len(r) : r[i].f = "tick" => r[i].over \in 1..Len(x.anim) \union {0}
  BY FramesAre
<1>2. Len(q) \in Nat /\ (q # <<>> <=> Len(q) >= 1)
  BY FramesAre
<1>3. \A i \in 2..Len(q) : q[i].f \in {"todo", "fn"}
  BY DEF Above
<1>4. ASSUME q # <<>>, q[1].f = "tick", q[1].over # 0 PROVE y.anim[q[1].over].state # "pending"
  <2>1. Len(r) > 1 /\ q[1] = r[1]
    <3>1. q[1].f \notin {"todo", "fn"}
      BY <1>4
    <3>2. Len(r) # 1 /\ Len(r) >= 1
      BY <1>1, <1>4, <3>1 DEF Above
    <3>3. Len(r) > 1
      <4>1. PICK k : k = Len(r)
        OBVIOUS
      <4>2. k \in Nat /\ k # 1 /\ k >= 1
        BY <1>1, <3>2, <4>1
      <4>3. k > 1
        BY ONLY <4>2
      <4> QED
        BY <4>1, <4>3
    <3> QED
      BY <3>3 DEF Above
  <2>2. x.anim[r[1].over].state # "pending" /\ r[1].over \in 1..Len(x.anim)
    BY <1>1, <1>4, <2>1 DEF StackOK
  <2>3. DOMAIN x.anim = 1..Len(x.anim)
    BY FxParts
  <2> QED
    BY <2>1, <2>2, <2>3
<1>5. ASSUME NEW s \in Slots(q)
      PROVE  /\ CallOf(q, s).op = "finished" => s = <<1, 0>>
             /\ CallOf(q, s).op = "start" => ~CallOf(q, s).item.queued \/ Finishing(q, CallOf(q, s).e)
             /\ CallOf(q, s).op # "insert"
  <2>1. CASE s \in Slots(r) /\ CallOf(q, s) = CallOf(r, s)
    BY <2>1 DEF StackOK
  <2>2. CASE CallOf(q, s).op \in {"dequeue", "complete", "unqueued"}
    BY <2>2
  <2>3. CASE CallOf(q, s).op = "start" /\ ~CallOf(q, s).item.queued
    BY <2>3
  <2> QED
    BY <1>5, <2>1, <2>2, <2>3 DEF Adds
<1> QED
  BY <1>3, <1>4, <1>5 DEF StackOK

\* Types of the page, and what it keeps while no callback stops animations.
PageTypes ==
  /\ FxTypeOK /\ QueuesOK(fx) /\ Elem = Boxes
  /\ threw => calls = 0

PageCalm == TimersOK(fx) /\ StackOK(fx, run) /\ WalkOK(fx, run) /\ Movers

\* What a frame of stop holds.
LEMMA StopTyped ==
  ASSUME NEW E, NEW A, NEW g \in FrameType(E, A), g.f = "stop"
  PROVE  /\ g.e \in E /\ g.i \in Nat /\ (g.splice => g.i # 0) /\ g.gotoEnd \in BOOLEAN /\ g.dequeue \in BOOLEAN /\ g.splice \in BOOLEAN
         /\ g.then \in Seq(CallType(E, A))
         /\ g = [f |-> "stop", e |-> g.e, i |-> g.i, gotoEnd |-> g.gotoEnd, dequeue |-> g.dequeue, splice |-> g.splice, then |-> g.then]
BY DEF FrameType

\* Above a walk that does not go to the end nothing but the ends of animations beside the queue is called.
LEMMA WalkGoesToEnd ==
  ASSUME NEW x, NEW E, NEW A, NEW r \in Seq(FrameType(E, A)), WalkOK(x, r), Walking(r), r[Len(r)].f \in {"todo", "fn"},
         r[Len(r)].f = "todo" => Head(r[Len(r)].todo).op # "unqueued"
  PROVE  r[1].gotoEnd /\ Len(r) > 1
<1>1. /\ Len(r) \in Nat /\ Len(r) >= 1 /\ r[1].f = "stop" /\ r[Len(r)] \in FrameType(E, A)
  BY FramesAre DEF Walking
<1>2. Len(r) > 1
  BY <1>1
<1>3. Len(r) \in 2..Len(r)
  BY <1>1, <1>2
<1>4. ASSUME ~r[1].gotoEnd PROVE FALSE
  <2>1. r[Len(r)].f = "todo" /\ \A j \in 1..Len(r[Len(r)].todo) : r[Len(r)].todo[j].op = "unqueued"
    BY <1>3, <1>4 DEF WalkOK
  <2>2. r[Len(r)].todo \in Seq(CallType(E, A)) /\ Len(r[Len(r)].todo) \in Nat \ {0}
    BY <1>1, <2>1, TodoFrameIs
  <2>3. Head(r[Len(r)].todo) = r[Len(r)].todo[1]
    BY <2>2
  <2> QED
    BY <2>1, <2>2, <2>3
<1> QED
  BY <1>2, <1>4

\* The walk that goes on below.
LEMMA AboveWalk ==
  ASSUME NEW x, FxOK(x), NEW y, FxOK(y), NEW E, NEW r \in Seq(FrameType(E, 1..Len(x.anim))), NEW B, NEW q \in Seq(FrameType(E, B)),
         E = DOMAIN x.el, Above(r, q), Grows(x, y), WalkOK(x, r),
         \A e \in DOMAIN x.el : y.el[e].inDocument =>
           /\ x.el[e].inDocument /\ y.el[e].finish = x.el[e].finish
           /\ Queue(x, e) = <<>> => Queue(y, e) = <<>>,
         Walking(r) /\ ~r[1].gotoEnd => \A i \in 2..Len(q) : q[i].f = "todo" /\ \A j \in 1..Len(q[i].todo) : q[i].todo[j].op = "unqueued",
         Walking(r) /\ y.el[r[1].e].inDocument /\ (Queue(y, r[1].e) = <<>> \/ ~r[1].gotoEnd) =>
           InQueue(y, r[1].e) \subseteq InTimers(x, r[1].i)
  PROVE  WalkOK(y, q)
<1>1. SUFFICES ASSUME Walking(q) PROVE WalkOK(y, q)
  BY DEF WalkOK
<1>2. Len(r) \in Nat /\ (r # <<>> <=> Len(r) >= 1) /\ Len(q) \in Nat /\ (q # <<>> <=> Len(q) >= 1)
  BY FramesAre
<1>3. Len(r) > 1 /\ q[1] = r[1] /\ Walking(r)
  <2>1. q[1].f \notin {"todo", "fn"} /\ q # <<>>
    BY <1>1 DEF Walking
  <2>2. Len(r) # 1 /\ Len(r) >= 1
    BY <1>2, <2>1 DEF Above
  <2>3. Len(r) > 1
    <3>1. PICK k : k = Len(r)
      OBVIOUS
    <3>2. k \in Nat /\ k # 1 /\ k >= 1
      BY <1>2, <2>2, <3>1
    <3>3. k > 1
      BY ONLY <3>2
    <3> QED
      BY <3>1, <3>3
  <2>4. q[1] = r[1] /\ q[1].f = "stop" /\ r # <<>>
    BY <1>1, <2>3 DEF Above, Walking
  <2> QED
    BY <2>3, <2>4 DEF Walking
<1>4. PICK w : w = r[1]
  OBVIOUS
<1>5. /\ w.e \in E /\ w.i \in Int /\ w.gotoEnd \in BOOLEAN /\ w.dequeue \in BOOLEAN /\ w.splice \in BOOLEAN
  <2>1. w \in FrameType(E, 1..Len(x.anim)) /\ w.f = "stop"
    BY <1>2, <1>3, <1>4 DEF Walking
  <2> QED
    BY <2>1, StopTyped
<1>6. /\ ThenOK(w.then, w.e)
      /\ w.then # <<>> => w.gotoEnd /\ (x.el[w.e].inDocument => x.el[w.e].finish /\ Queue(x, w.e) = <<>>)
      /\ w.dequeue => Len(r) = 1 /\ ~w.splice
      /\ w.i <= Len(x.timers)
      /\ w.splice => w.i \in 1..Len(x.timers) /\ x.anim[x.timers[w.i]].state # "pending"
  BY <1>3, <1>4 DEF WalkOK
<1>7. ~w.dequeue
  <2>1. Len(r) # 1
    <3>1. PICK k : k = Len(r)
      OBVIOUS
    <3>2. k \in Nat /\ k > 1
      BY <1>2, <1>3, <3>1
    <3>3. k # 1
      BY ONLY <3>2
    <3> QED
      BY <3>1, <3>3
  <2> QED
    BY <1>6, <2>1
<1>8. /\ Len(x.timers) \in Nat /\ Len(y.timers) \in Nat /\ \A j \in 1..Len(x.timers) : x.timers[j] \in DOMAIN x.anim
  BY FxParts
<1>9. w.splice => w.i \in 1..Len(y.timers) /\ y.anim[y.timers[w.i]].state # "pending"
  <2>1. SUFFICES ASSUME w.splice PROVE w.i \in 1..Len(y.timers) /\ y.anim[y.timers[w.i]].state # "pending"
    OBVIOUS
  <2>2. PICK i, a, k, m : i = w.i /\ a = x.timers[i] /\ k = Len(x.timers) /\ m = Len(y.timers)
    OBVIOUS
  <2>3. i \in 1..k /\ x.anim[a].state # "pending" /\ k \in Nat /\ m \in Nat /\ a \in DOMAIN x.anim
    BY <1>6, <1>8, <2>1, <2>2
  <2>4. k <= m /\ y.timers[i] = a /\ y.anim[a] = x.anim[a]
    BY <2>2, <2>3 DEF Grows
  <2>5. i \in 1..m
    BY ONLY <2>3, <2>4
  <2> QED
    BY <2>2, <2>3, <2>4, <2>5
<1>10. w.i <= Len(y.timers)
  BY <1>5, <1>6, <1>8 DEF Grows
<1>11. InTimers(y, w.i) = InTimers(x, w.i)
  <2>1. \A j \in 1..w.i : y.timers[j] = x.timers[j]
    BY <1>5, <1>6, <1>8 DEF Grows
  <2> QED
    BY <2>1 DEF InTimers
<1>12. y.el[w.e].inDocument /\ (Queue(y, w.e) = <<>> \/ ~w.gotoEnd \/ w.dequeue) => InQueue(y, w.e) \subseteq InTimers(y, w.i)
  BY <1>3, <1>4, <1>7, <1>11
<1>13. w.then # <<>> => w.gotoEnd /\ (y.el[w.e].inDocument => y.el[w.e].finish /\ Queue(y, w.e) = <<>>)
  BY <1>5, <1>6
<1>14. ~w.gotoEnd => \A i \in 2..Len(q) : q[i].f = "todo" /\ \A j \in 1..Len(q[i].todo) : q[i].todo[j].op = "unqueued"
  BY <1>3, <1>4
<1>15. q[1] = w
  BY <1>3, <1>4
<1> QED
  BY ONLY <1>6, <1>7, <1>9, <1>10, <1>12, <1>13, <1>14, <1>15, SMTT(30) DEF WalkOK

\* The movers of an element go on.
LEMMA MoverGoesOn ==
  ASSUME NEW x, NEW r, NEW t, NEW e, OneMover(x, r, t, e), NEW y, NEW q, NEW u,
         Passes(x, r, y, q, e), ~JustAsked(r, e), Finishing(q, e) <=> Finishing(r, e),
         Finishing(r, e) /\ InQueue(x, e) = {} /\ x.el[e].finish => InQueue(y, e) = {} /\ y.el[e].finish,
         HasSentinel(x, e) => HasSentinel(y, e) \/ Moving(y, q, e) = {}, NoCalls(x, r, t, e) => NoCalls(y, q, u, e)
  PROVE  OneMover(y, q, u, e)
<1>1. /\ AtMostOne(x, r, e) => AtMostOne(y, q, e)
      /\ Moving(x, r, e) = {} => Moving(y, q, e) = {}
  BY PassesKeeps
<1> QED
  BY <1>1 DEF OneMover

\* What the types of the page need of a step.
LEMMA PageTypesStay ==
  ASSUME PageTypes, FxOK(fx'), QueuesOK(fx'), run' \in Seq(FrameType(DOMAIN fx'.el, 1..Len(fx'.anim))), DOMAIN fx'.el = Elem,
         calls' \in Nat, threw' \in BOOLEAN, meddled' \in BOOLEAN, threw' => calls' = 0
  PROVE  PageTypes'
BY DEF PageTypes, FxTypeOK, RunOK, Elem

\* Who finishes is who finished.
LEMMA FinishingTurns ==
  ASSUME NEW r, NEW q, NEW M, NEW S, Turns(r, q, M, S), \A c \in M \union S : c.op # "finished", NEW e
  PROVE  Finishing(q, e) <=> Finishing(r, e)
<1>1. FinishedCall(e).op = "finished"
  BY DEF FinishedCall
<1>2. FinishedCall(e) \notin M /\ FinishedCall(e) \notin S
  BY <1>1
<1> QED
  BY <1>2 DEF Finishing, Waits, Turns

\* A call that is made is taken off.
LEMMA CallAbove ==
  ASSUME NEW E, NEW A, NEW r \in Seq(FrameType(E, A)), r # <<>>, r[Len(r)].f = "todo",
         \A i \in 2..Len(r) : r[i].f \in {"todo", "fn"}, NEW q, q = CallDone(r)
  PROVE  Above(r, q) /\ Adds(r, q) /\ q \in Seq(FrameType(E, A))
<1>1. q \in Seq(FrameType(E, A)) /\ Len(r) \in Nat \ {0} /\ Shorter(r, q) /\ \E s0 \in Slots(r) : Without(r, q, s0)
  BY CallMade
<1>2. Adds(r, q)
  BY <1>1 DEF Adds, Without
<1>3. PICK k, l : k = Len(r) /\ l = Len(q)
  OBVIOUS
<1>4. /\ k \in Nat \ {0} /\ l \in {k - 1, k} /\ (\A i \in 1..l : i < k => q[i] = r[i]) /\ (l = k => q[l].f = "todo")
      /\ (q # <<>> <=> l >= 1) /\ \A i \in 2..k : r[i].f \in {"todo", "fn"}
  <2>1. q # <<>> <=> l >= 1
    BY <1>1, <1>3, FramesAre
  <2> QED
    BY <1>1, <1>3, <2>1 DEF Shorter
<1>5. k > 1 => l >= 1 /\ q[1] = r[1]
  BY ONLY <1>4
<1>6. k = 1 /\ l >= 1 => q[1].f = "todo"
  BY ONLY <1>4
<1>7. \A i \in 2..l : q[i].f \in {"todo", "fn"}
  <2>1. ASSUME NEW i \in 2..l PROVE q[i].f \in {"todo", "fn"}
    <3>1. CASE i < k
      BY ONLY <1>4, <2>1, <3>1
    <3>2. CASE ~(i < k)
      <4>1. i = l /\ l = k
        BY ONLY <1>4, <2>1, <3>2
      <4> QED
        BY <1>4, <4>1
    <3> QED
      BY <3>1, <3>2
  <2> QED
    BY <2>1
<1> QED
  BY <1>1, <1>2, <1>3, <1>4, <1>5, <1>6, <1>7 DEF Above

\* A frame on top is above the lowest.
LEMMA ToppedAbove ==
  ASSUME NEW E, NEW A, NEW r, NEW m \in Seq(FrameType(E, A)), NEW B, NEW q \in Seq(FrameType(E, B)), Above(r, m),
         NEW g, Topped(m, q, g), g.f \in {"todo", "fn"}
  PROVE  Above(r, q)
<1>1. PICK k, l : k = Len(m) /\ l = Len(q)
  OBVIOUS
<1>2. /\ k \in Nat /\ l = k + 1 /\ q[l] = g /\ (\A i \in 1..k : q[i] = m[i])
      /\ (m # <<>> <=> k >= 1) /\ (q # <<>> <=> l >= 1) /\ \A i \in 2..k : m[i].f \in {"todo", "fn"}
  BY <1>1, FramesAre DEF Topped, Above
<1>3. q # <<>> /\ (m # <<>> => q[1] = m[1]) /\ (m = <<>> => q[1] = g)
  BY ONLY <1>2
<1>4. \A i \in 2..l : i \in 2..k \/ i = l
  BY ONLY <1>2
<1>5. \A i \in 2..l : q[i].f \in {"todo", "fn"}
  <2>1. ASSUME NEW i \in 2..k PROVE q[i].f \in {"todo", "fn"}
    BY ONLY <1>2, <2>1
  <2> QED
    BY <1>2, <1>4, <2>1
<1> QED
  BY <1>1, <1>3, <1>5 DEF Above

\* The end of an animation adds no call of stop or finish.
LEMMA EndsAdds ==
  ASSUME NEW r, NEW m, Adds(r, m), NEW q, NEW a, NEW w, EndsOf(m, q, a, w)
  PROVE  Adds(r, q)
BY DEF Adds, EndsOf, Within, Fresh, CompleteCall, UnqueuedCall

\* An animation begins: what grows.
LEMMA BeginAbove ==
  ASSUME NEW x, FxOK(x), NEW r \in Seq(FrameType(DOMAIN x.el, 1..Len(x.anim))), r # <<>>, r[Len(r)].f = "todo",
         \A i \in 2..Len(r) : r[i].f \in {"todo", "fn"}, NEW rest, rest = CallDone(r),
         NEW y, FxOK(y), NEW q, NEW e, NEW item, Starts(x, y, q, e, item, rest)
  PROVE  Above(r, q) /\ Adds(r, q) /\ Grows(x, y) /\ q \in Seq(FrameType(DOMAIN y.el, 1..Len(y.anim)))
<1>1. Above(r, rest) /\ Adds(r, rest) /\ rest \in Seq(FrameType(DOMAIN x.el, 1..Len(x.anim)))
  BY CallAbove
<1>2. PICK a : a = Len(x.anim) + 1
  OBVIOUS
<1>3. /\ q \in Seq(FrameType(DOMAIN y.el, 1..Len(y.anim)))
      /\ q = rest \/ \E cs \in Ended(a, item.queued) : q = Asked(rest, cs) /\ Topped(rest, q, [f |-> "todo", todo |-> cs])
      /\ EndsOf(rest, q, a, item.queued)
  BY <1>1, <1>2, StartsStack
<1>4. Above(r, q)
  <2>1. CASE q = rest
    BY <1>1, <2>1
  <2>2. ASSUME NEW cs, Topped(rest, q, [f |-> "todo", todo |-> cs]) PROVE Above(r, q)
    <3>1. PICK g : g = [f |-> "todo", todo |-> cs]
      OBVIOUS
    <3>2. Topped(rest, q, g) /\ g.f \in {"todo", "fn"} /\ DOMAIN y.el = DOMAIN x.el
      BY <2>2, <3>1 DEF Starts, Only
    <3> QED
      BY <1>1, <1>3, <3>2, ToppedAbove
  <2> QED
    BY <1>3, <2>1, <2>2
<1>5. Adds(r, q)
  BY <1>1, <1>3, EndsAdds
<1>6. Grows(x, y)
  <2>1. /\ DOMAIN x.anim = 1..Len(x.anim) /\ Len(x.anim) \in Nat /\ Len(x.timers) \in Nat
        /\ x.timers \in Seq(1..Len(x.anim))
    BY FxParts
  <2>2. DOMAIN y.anim = 1..a /\ \A b \in DOMAIN x.anim : y.anim[b] = x.anim[b]
    BY <1>2 DEF Starts, Began
  <2>3. \A b \in DOMAIN x.anim : b \in DOMAIN y.anim
    BY <1>2, <2>1, <2>2
  <2>4. \A b \in DOMAIN y.anim \ DOMAIN x.anim : b = a
    BY <1>2, <2>1, <2>2
  <2>5. y.timers = x.timers \/ y.timers = Append(x.timers, a)
    BY <1>2 DEF Starts
  <2>6. PICK t, u : t = x.timers /\ u = Append(x.timers, a)
    OBVIOUS
  <2>7. /\ Len(u) = Len(t) + 1 /\ u[Len(u)] = a /\ Len(u) \in 1..Len(u)
        /\ Len(t) <= Len(u) /\ \A j \in 1..Len(t) : u[j] = t[j]
    BY <2>1, <2>6
  <2>8. Len(x.timers) <= Len(y.timers) /\ \A j \in 1..Len(x.timers) : y.timers[j] = x.timers[j]
    BY <2>1, <2>5, <2>6, <2>7
  <2>9. TimerFine(y, a)
    <3>1. y.anim[a].state = "pending" => y.timers = u /\ ~y.anim[a].stopped
      BY <1>2, <2>6 DEF Starts, Began
    <3> QED
      BY <2>7, <3>1 DEF TimerFine
  <2> QED
    BY <2>2, <2>3, <2>4, <2>8, <2>9 DEF Grows
<1> QED
  BY <1>3, <1>4, <1>5, <1>6

\* The walk below stays.
LEMMA AboveWalking ==
  ASSUME NEW E, NEW A, NEW r \in Seq(FrameType(E, A)), NEW q, Above(r, q), Walking(r)
  PROVE  Walking(q) /\ q[1] = r[1]
<1>1. /\ Len(r) \in Nat /\ (r # <<>> <=> Len(r) >= 1)
  BY FramesAre
<1>2. Len(r) # 1 /\ r # <<>>
  BY <1>1 DEF Above, Walking
<1>3. PICK k : k = Len(r)
  OBVIOUS
<1>4. k \in Nat /\ k # 1 /\ k >= 1
  BY <1>1, <1>2, <1>3
<1>5. k > 1
  BY ONLY <1>4
<1> QED
  BY <1>3, <1>5 DEF Above, Walking

\* While stop walks, no finish is about to end.
LEMMA WalkNotFinishing ==
  ASSUME NEW x, NEW r, StackOK(x, r), NEW E, NEW A, r \in Seq(FrameType(E, A)), r # <<>> => r[1].f # "todo", NEW e
  PROVE  ~Finishing(r, e)
<1>1. SUFFICES ASSUME NEW s \in Slots(r), CallOf(r, s) = FinishedCall(e) PROVE FALSE
  BY DEF Finishing, Waits
<1>2. s = <<1, 0>>
  BY <1>1 DEF StackOK, FinishedCall
<1>3. 1 \in 1..Len(r) /\ r[1].f = "todo"
  BY <1>1, <1>2, SlotsAre
<1> QED
  BY <1>3, FramesAre

\* Of the movers of an element one is about to go on: no other.
LEMMA OnlyMover ==
  ASSUME NEW x, NEW E, NEW A, NEW r \in Seq(FrameType(E, A)), NEW t, NEW e, OneMover(x, r, t, e), ~Finishing(r, e),
         NEW s0 \in Slots(r), GoesOn(x, CallOf(r, s0), e)
  PROVE  Moving(x, r, e) = {s0} /\ InQueue(x, e) = {}
<1>1. s0 \in Moving(x, r, e) /\ AtMostOne(x, r, e)
  BY DEF Moving, OneMover
<1>2. \A a \in InQueue(x, e) : <<0, a>> \in Moving(x, r, e)
  BY DEF Moving
<1>3. \A a \in InQueue(x, e) : FALSE
  BY <1>1, <1>2, SlotsArePositive DEF AtMostOne
<1> QED
  BY <1>1, <1>3 DEF AtMostOne

\* dequeue keeps the types.
LEMMA DequeueTypes ==
  ASSUME PageTypes, DoDequeue
  PROVE  PageTypes'
<1>1. FxOK(fx) /\ RunOK /\ QueuesOK(fx)
  BY DEF PageTypes, FxTypeOK
<1>2. PICK e, a : e = Call.e /\ a = Len(fx.anim) + 1
  OBVIOUS
<1>3. FxOK(fx') /\ QueuesOK(fx') /\ DOMAIN fx'.el = Elem
  BY <1>1, <1>2, DequeueIs DEF Only, Elem
<1>4. run' \in Seq(FrameType(DOMAIN fx'.el, 1..Len(fx'.anim)))
  BY <1>1, <1>2, DequeueTurns
<1>5. UNCHANGED <<calls, threw, meddled>>
  BY DEF DoDequeue
<1> QED
  BY <1>3, <1>4, <1>5, PageTypesStay DEF PageTypes, FxTypeOK

\* dequeue starts an animation only where none moves.
LEMMA DequeueCalm ==
  ASSUME PageTypes, PageCalm, DoDequeue
  PROVE  PageCalm'
<1>1. PICK E, x, y, r, q, e, a, rest, t, A : E = DOMAIN fx.el /\ x = fx /\ y = fx' /\ r = run /\ q = run' /\ e = Call.e /\ a = Len(fx.anim) + 1
                                             /\ rest = CallDone(run) /\ t = threw /\ A = 1..Len(fx.anim)
  OBVIOUS
<1>2. /\ FxOK(x) /\ RunOK /\ QueuesOK(x) /\ r \in Seq(FrameType(E, A)) /\ DOMAIN x.el = E
      /\ TimersOK(x) /\ StackOK(x, r) /\ WalkOK(x, r) /\ \A d \in E : x.el[d].inDocument => OneMover(x, r, t, d)
  BY <1>1 DEF PageTypes, FxTypeOK, RunOK, PageCalm, Movers, Elem
<1>3. /\ e \in E /\ r # <<>> /\ r[Len(r)].f = "todo" /\ Head(r[Len(r)].todo) = DequeueCall(e)
      /\ FxOK(y) /\ Only(x, y, e) /\ SameMarks(x.el[e], y.el[e])
      /\ Empties(x, y, q, e, rest) \/ StartsNext(x, y, q, e, rest)
  BY <1>1, <1>2, DequeueIs DEF Elem
<1>4. q \in Seq(FrameType(DOMAIN y.el, 1..Len(y.anim))) /\ Turns(r, q, {DequeueCall(e)}, {CompleteCall(a)})
  BY <1>1, <1>2, DequeueTurns
<1>5. \A d : Passes(x, r, y, q, d)
  BY <1>1, <1>2, DequeuePasses
<1>6. \A d : Finishing(q, d) <=> Finishing(r, d)
  <2>1. \A c \in {DequeueCall(e)} \union {CompleteCall(a)} : c.op # "finished"
    BY DEF DequeueCall, CompleteCall
  <2> QED
    BY <1>4, <2>1, FinishingTurns
<1>7. \A i \in 2..Len(r) : r[i].f \in {"todo", "fn"}
  BY <1>2 DEF StackOK
<1>8. Above(r, q) /\ Adds(r, q) /\ Grows(x, y) /\ \A d : d # e => InQueue(y, d) = InQueue(x, d)
  <2>1. CASE Empties(x, y, q, e, rest)
    <3>1. q = rest /\ y.anim = x.anim /\ y.timers = x.timers
      BY <2>1 DEF Empties
    <3>2. Above(r, q) /\ Adds(r, q)
      BY <1>1, <1>2, <1>3, <1>7, <3>1, CallAbove
    <3>3. Grows(x, y)
      BY <1>2, <3>1, FxParts DEF Grows
    <3> QED
      BY <3>1, <3>2, <3>3 DEF InQueue
  <2>2. CASE StartsNext(x, y, q, e, rest)
    <3>1. PICK item : Starts(x, y, q, e, item, rest)
      BY <2>2 DEF StartsNext
    <3>2. Above(r, q) /\ Adds(r, q) /\ Grows(x, y)
      BY <1>1, <1>2, <1>3, <1>7, <3>1, BeginAbove
    <3>3. DOMAIN y.anim = 1..a /\ y.anim[a].elem = e /\ DOMAIN x.anim = 1..Len(x.anim) /\ Len(x.anim) \in Nat
      BY <1>1, <1>2, <3>1, FxParts DEF Starts, Began
    <3>4. \A b \in DOMAIN y.anim : b = a \/ b \in DOMAIN x.anim
      BY <1>1, <3>3
    <3>5. \A d : d # e => InQueue(y, d) = InQueue(x, d)
      BY <3>2, <3>3, <3>4 DEF InQueue, Grows
    <3> QED
      BY <3>2, <3>5
  <2> QED
    BY <1>3, <2>1, <2>2
<1>9. TimersOK(y)
  BY <1>2, <1>3, <1>8, GrowsTimers
<1>10. StackOK(y, q)
  <2>1. DOMAIN y.el = E /\ \A b \in DOMAIN x.anim : y.anim[b] = x.anim[b]
    BY <1>2, <1>3, <1>8 DEF Only, Grows
  <2> QED
    BY <1>1, <1>2, <1>4, <1>6, <1>8, <2>1, AboveStack
<1>11. PICK s0 \in Slots(r) : CallOf(r, s0) = DequeueCall(e) /\ Without(r, rest, s0)
  BY <1>1, <1>2, <1>3, RestOK
<1>12. GoesOn(x, CallOf(r, s0), e)
  BY <1>11 DEF GoesOn
<1>13. x.el[e].inDocument /\ ~Finishing(r, e) => InQueue(x, e) = {} /\ Moving(x, r, e) = {s0}
  BY <1>2, <1>3, <1>11, <1>12, OnlyMover
<1>14. \A d \in E : d # e => y.el[d] = x.el[d] /\ Queue(y, d) = Queue(x, d)
  BY <1>2, <1>3 DEF Only, Queue
<1>15. HasSentinel(y, e) \/ (Queue(y, e) = <<>> /\ InQueue(y, e) = InQueue(x, e) /\ q = rest /\ y.anim = x.anim)
  BY <1>3 DEF Empties, StartsNext, InQueue
<1>16. WalkOK(y, q)
  <2>1. Walking(r) => r[1].gotoEnd
    <3>1. DequeueCall(e).op # "unqueued"
      BY DEF DequeueCall
    <3> QED
      BY <1>2, <1>3, <3>1, WalkGoesToEnd
  <2>2. ASSUME NEW d \in DOMAIN x.el, y.el[d].inDocument
        PROVE  /\ x.el[d].inDocument /\ y.el[d].finish = x.el[d].finish
               /\ Queue(x, d) = <<>> => Queue(y, d) = <<>>
    <3>1. CASE d # e
      BY <1>2, <1>14, <2>2, <3>1
    <3>2. CASE d = e
      <4>1. Queue(x, e) = <<>> => Queue(y, e) = <<>>
        BY <1>3 DEF Empties, StartsNext
      <4> QED
        BY <1>3, <2>2, <3>2, <4>1 DEF SameMarks
    <3> QED
      BY <3>1, <3>2
  <2>3. ASSUME Walking(r), y.el[r[1].e].inDocument, Queue(y, r[1].e) = <<>> \/ ~r[1].gotoEnd
        PROVE  InQueue(y, r[1].e) \subseteq InTimers(x, r[1].i)
    <3>1. PICK d : d = r[1].e
      OBVIOUS
    <3>2. Queue(y, d) = <<>> /\ r[1].gotoEnd /\ r[1].f = "stop" /\ r # <<>>
      BY <2>1, <2>3, <3>1 DEF Walking
    <3>3. d \in E
      <4>1. r[1] \in FrameType(E, A)
        BY <1>2, <3>2, FramesAre
      <4> QED
        BY <3>1, <3>2, <4>1, StopTyped
    <3>4. CASE d # e
      <4>1. Queue(x, d) = <<>> /\ x.el[d].inDocument
        BY <1>14, <2>3, <3>1, <3>2, <3>3, <3>4
      <4> QED
        BY <1>2, <1>8, <2>3, <3>1, <3>4, <4>1 DEF WalkOK
    <3>5. CASE d = e
      <4>1. ~Finishing(r, e)
        BY <1>2, <3>2, WalkNotFinishing
      <4>2. x.el[e].inDocument
        BY <1>3, <2>3, <3>1, <3>5 DEF SameMarks
      <4>3. InQueue(y, e) = InQueue(x, e)
        BY <1>15, <3>2, <3>5 DEF HasSentinel
      <4> QED
        BY <1>13, <3>1, <3>5, <4>1, <4>2, <4>3
    <3> QED
      BY <3>4, <3>5
  <2>4. /\ Walking(r) /\ ~r[1].gotoEnd => \A i \in 2..Len(q) : q[i].f = "todo" /\ \A j \in 1..Len(q[i].todo) : q[i].todo[j].op = "unqueued"
    BY <2>1
  <2>5. DOMAIN y.el = E
    BY <1>2, <1>3 DEF Only
  <2> QED
    BY <1>1, <1>2, <1>3, <1>4, <1>8, <2>2, <2>3, <2>4, <2>5, AboveWalk
<1>17. ASSUME NEW d \in E, y.el[d].inDocument PROVE OneMover(y, q, t, d)
  <2>1. x.el[d].inDocument /\ y.el[d].finish = x.el[d].finish
    BY <1>3, <1>14, <1>17 DEF SameMarks
  <2>2. OneMover(x, r, t, d)
    BY <1>2, <1>17, <2>1
  <2>3. CASE d # e
    <3>1. ~JustAsked(r, d)
      <4>1. DequeueCall(d) # DequeueCall(e)
        BY <2>3 DEF DequeueCall
      <4>2. PICK cs : cs = <<DequeueCall(d)>>
        OBVIOUS
      <4>3. Head(cs) = DequeueCall(d)
        BY <4>2
      <4> QED
        BY <1>3, <4>1, <4>2, <4>3 DEF JustAsked
    <3>2. InQueue(y, d) = InQueue(x, d) /\ Queue(y, d) = Queue(x, d)
      BY <1>8, <1>14, <1>17, <2>3
    <3>3. NoCalls(x, r, t, d) => NoCalls(y, q, t, d)
      BY <1>2, <1>8, <3>2, AboveWalking DEF NoCalls
    <3> QED
      BY <1>5, <1>6, <2>1, <2>2, <3>1, <3>2, <3>3, MoverGoesOn DEF HasSentinel
  <2>4. CASE d = e
    <3>1. CASE Finishing(r, e)
      <4>1. InQueue(x, e) = {} /\ x.el[e].finish
        BY <2>2, <2>4, <3>1 DEF OneMover
      <4>2. InQueue(y, e) = {}
        <5>1. CASE Empties(x, y, q, e, rest)
          BY <4>1, <5>1 DEF Empties, InQueue
        <5>2. CASE StartsNext(x, y, q, e, rest)
          <6>1. PICK item : Starts(x, y, q, e, item, rest)
            BY <5>2 DEF StartsNext
          <6>2. y.anim[a].state = "resolved" /\ DOMAIN y.anim = 1..a /\ DOMAIN x.anim = 1..Len(x.anim) /\ Len(x.anim) \in Nat
            BY <1>1, <1>2, <4>1, <6>1, FxParts DEF Starts, Began
          <6>3. \A b \in DOMAIN y.anim : b = a \/ b \in DOMAIN x.anim
            BY <1>1, <6>2
          <6> QED
            BY <1>8, <4>1, <6>2, <6>3 DEF InQueue, Grows
        <5> QED
          BY <1>3, <5>1, <5>2
      <4> QED
        BY <1>6, <2>1, <2>4, <3>1, <4>1, <4>2 DEF OneMover
    <3>2. CASE ~Finishing(r, e)
      <4>1. AtMostOne(y, q, e)
        BY <1>5, <2>2, <2>4, <3>2, PassesKeeps DEF OneMover
      <4>2. HasSentinel(y, e) \/ Moving(y, q, e) = {}
        <5>1. CASE Queue(y, e) = <<>> /\ q = rest /\ y.anim = x.anim
          <6>1. Moving(y, q, e) = Moving(x, rest, e)
            BY <5>1 DEF Moving, InQueue, GoesOn
          <6>2. Moving(x, rest, e) \subseteq Moving(x, r, e) \ {s0}
            BY <1>2, <1>11, WithoutMoving
          <6> QED
            BY <1>13, <2>1, <2>4, <3>2, <6>1, <6>2
        <5> QED
          BY <1>15, <5>1
      <4> QED
        BY <1>6, <2>4, <3>2, <4>1, <4>2 DEF OneMover
    <3> QED
      BY <3>1, <3>2
  <2> QED
    BY <2>3, <2>4
<1>18. DOMAIN y.el = E /\ threw' = threw
  BY <1>2, <1>3 DEF Only, DoDequeue
<1> QED
  BY <1>1, <1>9, <1>10, <1>16, <1>17, <1>18 DEF PageCalm, Movers, Elem

\* What a start starts.
LEMMA StartTyped ==
  ASSUME NEW E, NEW A, NEW c \in CallType(E, A), c.op = "start"
  PROVE  c.e \in E /\ c.item \in ItemType
BY DEF CallType

\* animate with queue: false, or an animation that finish brings to its end.
LEMMA StartIs ==
  ASSUME FxOK(fx), RunOK, DoStart, NEW e, e = Call.e, NEW item, item = Call.item
  PROVE  /\ e \in Elem /\ item \in ItemType /\ run # <<>> /\ run[Len(run)].f = "todo"
         /\ Head(run[Len(run)].todo).op = "start" /\ Head(run[Len(run)].todo).e = e /\ Head(run[Len(run)].todo).item = item
         /\ FxOK(fx') /\ fx'.el[e].queue = fx.el[e].queue /\ Starts(fx, fx', run', e, item, CallDone(run))
<1>1. CallIs("start") /\ Animation(fx, e, item, AfterCall)
  BY DEF DoStart
<1>2. /\ run # <<>> /\ run[Len(run)].f = "todo" /\ Call = Head(run[Len(run)].todo)
      /\ Call \in CallType(Elem, 1..Len(fx.anim)) /\ Call.op = "start" /\ AfterCall = CallDone(run)
  BY <1>1, TopCall
<1>3. e \in Elem /\ item \in ItemType
  BY <1>2, StartTyped
<1>4. PICK rest : rest = CallDone(run)
  OBVIOUS
<1>5. e \in DOMAIN fx.el /\ Animation(fx, e, item, rest)
  BY <1>1, <1>2, <1>3, <1>4 DEF Elem
<1>6. FxOK(fx') /\ fx'.el[e].queue = fx.el[e].queue /\ Starts(fx, fx', run', e, item, rest)
  BY <1>3, <1>5, AnimationStarts
<1> QED
  BY <1>2, <1>3, <1>4, <1>6

\* A queue is what the element has.
LEMMA QueuesSame ==
  ASSUME NEW x, QueuesOK(x), NEW y, DOMAIN y.el = DOMAIN x.el, \A e \in DOMAIN x.el : Queue(y, e) = Queue(x, e)
  PROVE  QueuesOK(y)
BY DEF QueuesOK

\* It keeps the types.
LEMMA StartTypes ==
  ASSUME PageTypes, DoStart
  PROVE  PageTypes'
<1>1. FxOK(fx) /\ RunOK /\ QueuesOK(fx)
  BY DEF PageTypes, FxTypeOK
<1>2. PICK x, y, r, q, e, item, rest : x = fx /\ y = fx' /\ r = run /\ q = run' /\ e = Call.e /\ item = Call.item /\ rest = CallDone(run)
  OBVIOUS
<1>3. /\ r # <<>> /\ r[Len(r)].f = "todo" /\ FxOK(y) /\ y.el[e].queue = x.el[e].queue /\ Starts(x, y, q, e, item, rest)
  BY <1>1, <1>2, StartIs
<1>4. rest \in Seq(FrameType(DOMAIN x.el, 1..Len(x.anim)))
  BY <1>1, <1>2, <1>3, RestOK
<1>5. q \in Seq(FrameType(DOMAIN y.el, 1..Len(y.anim)))
  BY <1>1, <1>2, <1>3, <1>4, StartsStack
<1>6. DOMAIN y.el = DOMAIN x.el /\ \A d \in DOMAIN x.el : y.el[d].queue = x.el[d].queue
  BY <1>3 DEF Starts, Only
<1>7. QueuesOK(y)
  <2>1. \A d \in DOMAIN x.el : Queue(y, d) = Queue(x, d)
    BY <1>6 DEF Queue
  <2> QED
    BY <1>1, <1>2, <1>6, <2>1, QueuesSame
<1>8. UNCHANGED <<calls, threw, meddled>>
  BY DEF DoStart
<1> QED
  BY <1>2, <1>3, <1>5, <1>6, <1>7, <1>8, PageTypesStay DEF PageTypes, FxTypeOK, Elem

\* It adds no mover: what finish starts is over at once.
LEMMA StartCalm ==
  ASSUME PageTypes, PageCalm, DoStart
  PROVE  PageCalm'
<1>1. PICK E, x, y, r, q, e, item, a, rest, t, A :
        E = DOMAIN fx.el /\ x = fx /\ y = fx' /\ r = run /\ q = run' /\ e = Call.e /\ item = Call.item /\ a = Len(fx.anim) + 1
        /\ rest = CallDone(run) /\ t = threw /\ A = 1..Len(fx.anim)
  OBVIOUS
<1>2. /\ FxOK(x) /\ RunOK /\ QueuesOK(x) /\ r \in Seq(FrameType(E, A)) /\ DOMAIN x.el = E
      /\ TimersOK(x) /\ StackOK(x, r) /\ WalkOK(x, r) /\ \A d \in E : x.el[d].inDocument => OneMover(x, r, t, d)
  BY <1>1 DEF PageTypes, FxTypeOK, RunOK, PageCalm, Movers, Elem
<1>3. /\ e \in E /\ r # <<>> /\ r[Len(r)].f = "todo" /\ Head(r[Len(r)].todo).op = "start"
      /\ Head(r[Len(r)].todo).e = e /\ Head(r[Len(r)].todo).item = item
      /\ FxOK(y) /\ Starts(x, y, q, e, item, rest) /\ y.el[e].queue = x.el[e].queue
  BY <1>1, <1>2, StartIs DEF Elem
<1>4. \A i \in 2..Len(r) : r[i].f \in {"todo", "fn"}
  BY <1>2 DEF StackOK
<1>5. Above(r, q) /\ Adds(r, q) /\ Grows(x, y) /\ q \in Seq(FrameType(DOMAIN y.el, 1..Len(y.anim)))
  BY <1>1, <1>2, <1>3, <1>4, BeginAbove
<1>6. PICK s0 \in Slots(r) : CallOf(r, s0) = Head(r[Len(r)].todo) /\ Without(r, rest, s0)
  BY <1>1, <1>2, <1>3, RestOK
<1>7. rest \in Seq(FrameType(E, A))
  BY <1>1, <1>2, <1>3, RestOK
<1>8. EndsOf(rest, q, a, item.queued)
  BY <1>1, <1>2, <1>3, <1>7, StartsStack
<1>9. ASSUME NEW d PROVE Finishing(q, d) <=> Finishing(r, d)
  <2>1. PICK c : c = FinishedCall(d)
    OBVIOUS
  <2>2. c.op = "finished" /\ CallOf(r, s0) # c
    BY <1>3, <1>6, <2>1 DEF FinishedCall
  <2>3. Waits(rest, c) <=> Waits(r, c)
    BY <1>6, <2>2 DEF Waits, Without
  <2>4. CompleteCall(a) # c /\ UnqueuedCall(a) # c
    BY <2>2 DEF CompleteCall, UnqueuedCall
  <2>5. \A s \in Fresh(rest, q) : CallOf(q, s) # c
    BY <1>8, <2>4 DEF EndsOf
  <2>6. Waits(q, c) <=> Waits(rest, c)
    BY <1>8, <2>5 DEF EndsOf, Keeps, Within, Waits, Fresh
  <2> QED
    BY <2>1, <2>3, <2>6 DEF Finishing
<1>10. item.queued => Finishing(r, e)
  BY <1>2, <1>3, <1>6 DEF StackOK
<1>11. DOMAIN y.anim = 1..a /\ DOMAIN x.anim = 1..Len(x.anim) /\ Len(x.anim) \in Nat /\ y.anim[a].elem = e /\ y.anim[a].queued = item.queued
       /\ (x.el[e].finish => y.anim[a].state = "resolved")
  BY <1>1, <1>2, <1>3, FxParts DEF Starts, Began
<1>12. \A b \in DOMAIN y.anim : b = a \/ b \in DOMAIN x.anim
  BY <1>1, <1>11
<1>13. \A d : d # e \/ ~item.queued => InQueue(y, d) = InQueue(x, d)
  BY <1>5, <1>11, <1>12 DEF InQueue, Grows
<1>14. \A d \in E : Queue(y, d) = Queue(x, d) /\ y.el[d].inDocument = x.el[d].inDocument /\ y.el[d].finish = x.el[d].finish
  BY <1>2, <1>3 DEF Queue, Starts, Only, SameMarks
<1>15. DOMAIN y.el = E /\ threw' = threw
  BY <1>2, <1>3 DEF Starts, Only, DoStart
<1>16. TimersOK(y)
  BY <1>2, <1>3, <1>5, GrowsTimers
<1>17. StackOK(y, q)
  <2>1. \A b \in DOMAIN x.anim : y.anim[b] = x.anim[b]
    BY <1>5 DEF Grows
  <2> QED
    BY <1>1, <1>2, <1>5, <1>9, <1>15, <2>1, AboveStack
<1>18. WalkOK(y, q)
  <2>1. Walking(r) => r[1].gotoEnd
    BY <1>2, <1>3, WalkGoesToEnd
  <2>2. ASSUME Walking(r) PROVE \A d : InQueue(y, d) = InQueue(x, d)
    <3>1. ~Finishing(r, e)
      BY <1>2, <2>2, WalkNotFinishing DEF Walking
    <3> QED
      BY <1>10, <1>13, <3>1
  <2>3. ASSUME Walking(r), y.el[r[1].e].inDocument, Queue(y, r[1].e) = <<>> \/ ~r[1].gotoEnd
        PROVE  InQueue(y, r[1].e) \subseteq InTimers(x, r[1].i)
    <3>1. r[1].e \in E
      <4>1. r[1] \in FrameType(E, A) /\ r[1].f = "stop"
        BY <1>2, <2>3, FramesAre DEF Walking
      <4> QED
        BY <4>1, StopTyped
    <3>2. x.el[r[1].e].inDocument /\ Queue(x, r[1].e) = <<>>
      BY <1>14, <2>1, <2>3, <3>1
    <3> QED
      BY <1>2, <2>2, <2>3, <3>2 DEF WalkOK
  <2> QED
    BY <1>1, <1>2, <1>3, <1>5, <1>14, <1>15, <2>1, <2>3, AboveWalk
<1>19. ASSUME NEW d \in E, y.el[d].inDocument PROVE OneMover(y, q, t, d)
  <2>1. OneMover(x, r, t, d) /\ y.el[d].finish = x.el[d].finish /\ Queue(y, d) = Queue(x, d)
    BY <1>2, <1>14, <1>19
  <2>2. CASE d # e \/ ~item.queued
    <3>1. InQueue(y, d) = InQueue(x, d)
      BY <1>13, <2>2
    <3>2. Passes(x, r, y, q, d)
      <4>1. Moving(y, q, d) \subseteq Moving(x, rest, d)
        BY <1>1, <1>2, <1>3, <1>7, <2>2, StartsMoving
      <4>2. Moving(x, rest, d) \subseteq Moving(x, r, d)
        BY <1>2, <1>6, WithoutMoving
      <4> QED
        BY <4>1, <4>2 DEF Passes
    <3>3. ~JustAsked(r, d)
      <4>1. PICK cs : cs = <<DequeueCall(d)>>
        OBVIOUS
      <4>2. Head(cs) = DequeueCall(d) /\ DequeueCall(d).op = "dequeue"
        BY <4>1 DEF DequeueCall
      <4> QED
        BY <1>3, <4>1, <4>2 DEF JustAsked
    <3>4. NoCalls(x, r, t, d) => NoCalls(y, q, t, d)
      BY <1>2, <1>5, <2>1, AboveWalking DEF NoCalls
    <3> QED
      BY <1>9, <2>1, <3>1, <3>2, <3>3, <3>4, MoverGoesOn DEF HasSentinel
  <2>3. CASE d = e /\ item.queued
    <3>1. Finishing(r, e) /\ InQueue(x, e) = {} /\ x.el[e].finish
      BY <1>10, <2>1, <2>3 DEF OneMover
    <3>2. InQueue(y, e) = {}
      BY <1>5, <1>11, <1>12, <3>1 DEF InQueue, Grows
    <3> QED
      BY <1>9, <2>1, <2>3, <3>1, <3>2 DEF OneMover
  <2> QED
    BY <2>2, <2>3
<1> QED
  BY <1>1, <1>15, <1>16, <1>17, <1>18, <1>19 DEF PageCalm, Movers, Elem

\* A call of which animations and queues know nothing.
LEMMA QuietPage ==
  ASSUME PageTypes, PageCalm, FxOK(fx'), fx'.anim = fx.anim, fx'.timers = fx.timers, DOMAIN fx'.el = Elem, threw' = threw,
         \A d \in Elem : fx'.el[d].inDocument = fx.el[d].inDocument /\ fx'.el[d].finish = fx.el[d].finish /\ Queue(fx', d) = Queue(fx, d),
         run' \in Seq(FrameType(Elem, 1..Len(fx.anim))), Above(run, run'), Adds(run, run'),
         \A d : Passes(fx, run, fx', run', d), \A d : Finishing(run', d) <=> Finishing(run, d), \A d : ~JustAsked(run, d),
         Walking(run) /\ ~run[1].gotoEnd =>
           \A i \in 2..Len(run') : run'[i].f = "todo" /\ \A j \in 1..Len(run'[i].todo) : run'[i].todo[j].op = "unqueued"
  PROVE  PageCalm'
<1>1. PICK E, x, y, r, q, t, A : E = DOMAIN fx.el /\ x = fx /\ y = fx' /\ r = run /\ q = run' /\ t = threw /\ A = 1..Len(fx.anim)
  OBVIOUS
<1>2. /\ FxOK(x) /\ r \in Seq(FrameType(E, A)) /\ DOMAIN x.el = E /\ DOMAIN y.el = E
      /\ TimersOK(x) /\ StackOK(x, r) /\ WalkOK(x, r) /\ \A d \in E : x.el[d].inDocument => OneMover(x, r, t, d)
  BY <1>1 DEF PageTypes, FxTypeOK, RunOK, PageCalm, Movers, Elem
<1>3. FxOK(y) /\ y.anim = x.anim /\ y.timers = x.timers /\ q \in Seq(FrameType(E, A)) /\ Above(r, q) /\ Adds(r, q)
  BY <1>1 DEF Elem
<1>4. Grows(x, y) /\ \A d : InQueue(y, d) = InQueue(x, d)
  BY <1>2, <1>3, FxParts DEF Grows, InQueue
<1>5. \A d \in E : y.el[d].inDocument = x.el[d].inDocument /\ y.el[d].finish = x.el[d].finish /\ Queue(y, d) = Queue(x, d)
  BY <1>1 DEF Elem
<1>6. \A d : Passes(x, r, y, q, d) /\ (Finishing(q, d) <=> Finishing(r, d)) /\ ~JustAsked(r, d)
  BY <1>1
<1>7. TimersOK(y)
  BY <1>2, <1>3, <1>4, GrowsTimers
<1>8. StackOK(y, q)
  <2>1. \A b \in DOMAIN x.anim : y.anim[b] = x.anim[b]
    BY <1>3
  <2> QED
    BY <1>1, <1>2, <1>3, <1>6, <2>1, AboveStack
<1>9. WalkOK(y, q)
  <2>1. ASSUME Walking(r), y.el[r[1].e].inDocument, Queue(y, r[1].e) = <<>> \/ ~r[1].gotoEnd
        PROVE  InQueue(y, r[1].e) \subseteq InTimers(x, r[1].i)
    <3>1. r[1].e \in E
      <4>1. r[1] \in FrameType(E, A) /\ r[1].f = "stop"
        BY <1>2, <2>1, FramesAre DEF Walking
      <4> QED
        BY <4>1, StopTyped
    <3>2. x.el[r[1].e].inDocument /\ (Queue(x, r[1].e) = <<>> \/ ~r[1].gotoEnd)
      BY <1>5, <2>1, <3>1
    <3> QED
      BY <1>2, <1>4, <2>1, <3>2 DEF WalkOK
  <2>2. Walking(r) /\ ~r[1].gotoEnd => \A i \in 2..Len(q) : q[i].f = "todo" /\ \A j \in 1..Len(q[i].todo) : q[i].todo[j].op = "unqueued"
    BY <1>1
  <2> QED
    BY <1>1, <1>2, <1>3, <1>4, <1>5, <2>1, <2>2, AboveWalk
<1>10. ASSUME NEW d \in E, y.el[d].inDocument PROVE OneMover(y, q, t, d)
  <2>1. OneMover(x, r, t, d) /\ y.el[d].finish = x.el[d].finish /\ Queue(y, d) = Queue(x, d) /\ InQueue(y, d) = InQueue(x, d)
    BY <1>2, <1>4, <1>5, <1>10
  <2>2. NoCalls(x, r, t, d) => NoCalls(y, q, t, d)
    BY <1>2, <1>3, <2>1, AboveWalking DEF NoCalls
  <2> QED
    BY <1>6, <2>1, <2>2, MoverGoesOn DEF HasSentinel
<1> QED
  BY <1>1, <1>2, <1>7, <1>8, <1>9, <1>10 DEF PageCalm, Movers, Elem

\* The stack is empty.
LEMMA EmptyCalm ==
  ASSUME run' = <<>>, TimersOK(fx'),
         \A d \in DOMAIN fx'.el : fx'.el[d].inDocument =>
           /\ \A a, b \in InQueue(fx', d) : a = b
           /\ InQueue(fx', d) = {} \/ HasSentinel(fx', d) \/ (Queue(fx', d) = <<>> /\ threw')
  PROVE  PageCalm'
<1>1. PICK y, q, t : y = fx' /\ q = run' /\ t = threw'
  OBVIOUS
<1>2. q = <<>> /\ Slots(q) = {} /\ Len(q) = 0
  BY <1>1, NoSlots
<1>3. StackOK(y, q) /\ WalkOK(y, q)
  BY <1>2 DEF StackOK, WalkOK, Walking
<1>4. ASSUME NEW d \in DOMAIN y.el, y.el[d].inDocument PROVE OneMover(y, q, t, d)
  <2>1. Moving(y, q, d) = {<<0, a>> : a \in InQueue(y, d)} /\ ~Finishing(q, d)
    BY <1>2 DEF Moving, Finishing, Waits
  <2>2. \A a, b \in InQueue(y, d) : a = b
    BY <1>1, <1>4
  <2>3. AtMostOne(y, q, d)
    BY <2>1, <2>2 DEF AtMostOne
  <2>4. Moving(y, q, d) = {} \/ HasSentinel(y, d) \/ NoCalls(y, q, t, d)
    BY <1>1, <1>4, <2>1 DEF NoCalls
  <2> QED
    BY <2>1, <2>3, <2>4 DEF OneMover
<1> QED
  BY <1>1, <1>3, <1>4 DEF PageCalm, Movers, Elem

\* What was true of an element when it had movers is true of its animations.
LEMMA MoverParts ==
  ASSUME NEW x, NEW r, NEW t, NEW d, OneMover(x, r, t, d)
  PROVE  /\ \A a, b \in InQueue(x, d) : a = b
         /\ InQueue(x, d) = {} \/ HasSentinel(x, d) \/ JustAsked(r, d) \/ NoCalls(x, r, t, d)
<1>1. CASE Finishing(r, d)
  BY <1>1 DEF OneMover
<1>2. CASE ~Finishing(r, d)
  <2>1. \A a \in InQueue(x, d) : <<0, a>> \in Moving(x, r, d)
    BY DEF Moving
  <2>2. AtMostOne(x, r, d) /\ (Moving(x, r, d) = {} \/ HasSentinel(x, d) \/ JustAsked(r, d) \/ NoCalls(x, r, t, d))
    BY <1>2 DEF OneMover
  <2>3. \A a, b \in InQueue(x, d) : <<0, a>> = <<0, b>>
    BY <2>1, <2>2 DEF AtMostOne
  <2> QED
    BY <2>1, <2>2, <2>3
<1> QED
  BY <1>1, <1>2

\* A callback throws.
LEMMA ThrowOnPage ==
  ASSUME PageTypes, Throw
  PROVE  PageTypes' /\ (PageCalm => PageCalm')
<1>1. fx' = fx /\ run' = <<>> /\ threw' /\ threw' \in BOOLEAN /\ calls' = 0 /\ meddled' = meddled /\ run # <<>> /\ run[Len(run)].f = "fn"
  BY DEF Throw, TopIs, Top
<1>2. PageTypes'
  <2>1. run' \in Seq(FrameType(DOMAIN fx'.el, 1..Len(fx'.anim)))
    BY <1>1
  <2> QED
    BY <1>1, <2>1, PageTypesStay DEF PageTypes, FxTypeOK, Elem
<1>3. ASSUME PageCalm PROVE PageCalm'
  <2>1. ASSUME NEW d \in Elem, fx.el[d].inDocument
        PROVE  /\ \A a, b \in InQueue(fx, d) : a = b
               /\ InQueue(fx, d) = {} \/ HasSentinel(fx, d) \/ Queue(fx, d) = <<>>
    <3>1. OneMover(fx, run, threw, d)
      BY <1>3, <2>1 DEF PageCalm, Movers
    <3>2. ~JustAsked(run, d)
      BY <1>1 DEF JustAsked
    <3> QED
      BY <3>1, <3>2, MoverParts DEF NoCalls
  <2>2. TimersOK(fx')
    BY <1>1, <1>3 DEF PageCalm
  <2> QED
    BY <1>1, <2>1, <2>2, EmptyCalm DEF Elem
<1> QED
  BY <1>2, <1>3

\* A callback returns.
LEMMA ReturnOnPage ==
  ASSUME PageTypes, Return
  PROVE  PageTypes' /\ (PageCalm => PageCalm')
<1>1. FxOK(fx) /\ RunOK /\ UNCHANGED <<fx, calls, threw, meddled>>
  BY DEF PageTypes, FxTypeOK, Return
<1>2. PICK E, A, r, q : E = DOMAIN fx.el /\ A = 1..Len(fx.anim) /\ r = run /\ q = run'
  OBVIOUS
<1>3. /\ r # <<>> /\ r[Len(r)].f = "fn" /\ q \in Seq(FrameType(E, A))
      /\ Len(q) = Len(r) - 1 /\ Len(r) \in Nat \ {0} /\ \A i \in 1..Len(q) : q[i] = r[i]
  BY <1>1, <1>2, ReturnIs DEF FnFrame
<1>4. SameSlots(r, q)
  BY <1>1, <1>2, ReturnIs
<1>5. PageTypes'
  BY <1>1, <1>2, <1>3, PageTypesStay DEF PageTypes, FxTypeOK, Elem
<1>6. ASSUME PageCalm PROVE PageCalm'
  <2>1. \A i \in 2..Len(r) : r[i].f \in {"todo", "fn"}
    BY <1>2, <1>6 DEF PageCalm, StackOK
  <2>2. Above(r, q)
    <3>1. PICK k, l : k = Len(r) /\ l = Len(q)
      OBVIOUS
    <3>2. k \in Nat \ {0} /\ l = k - 1 /\ (q # <<>> <=> l >= 1) /\ (\A i \in 1..l : q[i] = r[i]) /\ \A i \in 2..k : r[i].f \in {"todo", "fn"}
      BY <1>3, <2>1, <3>1, FramesAre
    <3>3. (k > 1 => q # <<>> /\ q[1] = r[1]) /\ (k = 1 => q = <<>>) /\ \A i \in 2..l : q[i].f \in {"todo", "fn"}
      BY ONLY <3>2
    <3> QED
      BY <1>3, <3>1, <3>3 DEF Above
  <2>3. Adds(r, q) /\ \A d : Finishing(q, d) <=> Finishing(r, d)
    BY <1>4 DEF Adds, SameSlots, Keeps, Finishing, Waits
  <2>4. \A d : Passes(fx, r, fx', q, d)
    BY <1>1, <1>2, <1>4, SlotsPass
  <2>5. \A d : ~JustAsked(r, d)
    BY <1>3 DEF JustAsked
  <2>6. Walking(r) => r[1].gotoEnd
    <3>1. WalkOK(fx, r) /\ r \in Seq(FrameType(E, A))
      BY <1>1, <1>2, <1>6 DEF PageCalm, RunOK
    <3> QED
      BY <1>3, <3>1, WalkGoesToEnd
  <2> QED
    BY <1>1, <1>2, <1>3, <1>6, <2>2, <2>3, <2>4, <2>5, <2>6, QuietPage DEF Elem
<1> QED
  BY <1>5, <1>6

\* A complete callback is called.
LEMMA CompleteOnPage ==
  ASSUME PageTypes, DoComplete
  PROVE  PageTypes' /\ (PageCalm => PageCalm')
<1>1. FxOK(fx) /\ RunOK /\ UNCHANGED <<fx, calls, threw, meddled>>
  BY DEF PageTypes, FxTypeOK, DoComplete
<1>2. PICK E, A, r, q, a, an, rest, e, c : E = DOMAIN fx.el /\ A = 1..Len(fx.anim) /\ r = run /\ q = run' /\ a = Call.a /\ an = fx.anim[a]
                                 /\ rest = CallDone(run) /\ e = an.elem /\ c = DequeueCall(e)
  OBVIOUS
<1>3. /\ a \in DOMAIN fx.anim /\ r # <<>> /\ r[Len(r)].f = "todo" /\ Head(r[Len(r)].todo) = CompleteCall(a)
      /\ q = Pushed(IF an.queued THEN Asked(rest, <<c>>) ELSE rest, FnFrame(a))
  BY <1>1, <1>2, CompleteIs
<1>4. q \in Seq(FrameType(E, A)) /\ Turns(r, q, {CompleteCall(a)}, {c}) /\ \A d : Passes(fx, r, fx, q, d)
  BY <1>1, <1>2, CompleteTurns
<1>5. PageTypes'
  BY <1>1, <1>2, <1>4, PageTypesStay DEF PageTypes, FxTypeOK, Elem
<1>6. ASSUME PageCalm PROVE PageCalm'
  <2>1. \A i \in 2..Len(r) : r[i].f \in {"todo", "fn"}
    BY <1>2, <1>6 DEF PageCalm, StackOK
  <2>2. Above(r, rest) /\ Adds(r, rest) /\ rest \in Seq(FrameType(E, A)) /\ r \in Seq(FrameType(E, A))
    BY <1>1, <1>2, <1>3, <2>1, CallAbove DEF RunOK
  <2>3. PICK m : m = IF an.queued THEN Asked(rest, <<c>>) ELSE rest
    OBVIOUS
  <2>4. Above(r, m) /\ Adds(r, m) /\ m \in Seq(FrameType(E, A))
    <3>1. CASE an.queued
      <4>1. PICK cs : cs = <<c>>
        OBVIOUS
      <4>2. e \in E /\ c \in CallType(E, A)
        <5>1. e \in E
          BY <1>1, <1>2, <1>3, FxParts
        <5> QED
          BY <1>2, <5>1 DEF CallType, DequeueCall
      <4>3. cs \in Seq(CallType(E, A)) /\ cs # <<>> /\ Len(cs) = 1 /\ cs[1] = c /\ m = Asked(rest, cs)
        BY <2>3, <3>1, <4>1, <4>2
      <4>4. m \in Seq(FrameType(E, A)) /\ Topped(rest, m, [f |-> "todo", todo |-> cs]) /\ Keeps(rest, m) /\ NewSlots(rest, m, cs)
        BY <2>2, <4>3, PushTodoIs
      <4>5. Above(r, m)
        <5>1. PICK g : g = [f |-> "todo", todo |-> cs]
          OBVIOUS
        <5>2. Topped(rest, m, g) /\ g.f \in {"todo", "fn"}
          BY <4>4, <5>1
        <5> QED
          BY <2>2, <4>4, <5>2, ToppedAbove
      <4>6. c.op = "dequeue"
        BY <1>2 DEF DequeueCall
      <4>7. \A s \in Slots(m) : (s \in Slots(rest) /\ CallOf(m, s) = CallOf(rest, s)) \/ CallOf(m, s) = c
        BY <4>3, <4>4 DEF NewSlots, Keeps
      <4>8. Adds(r, m)
        BY <2>2, <4>6, <4>7 DEF Adds
      <4> QED
        BY <4>4, <4>5, <4>8
    <3>2. CASE ~an.queued
      BY <2>2, <2>3, <3>2
    <3> QED
      BY <3>1, <3>2
  <2>5. PICK g : g = FnFrame(a)
    OBVIOUS
  <2>6. g \in FrameType(E, A) /\ g.f = "fn"
    <3>1. a \in A
      BY <1>1, <1>2, <1>3, FxParts
    <3> QED
      BY <2>5, <3>1, FnFrameIs DEF FnFrame
  <2>7. Topped(m, q, g) /\ SameSlots(m, q)
    <3>1. q = Pushed(m, g)
      BY <1>3, <2>3, <2>5
    <3> QED
      BY <2>4, <2>6, <3>1, PushPlain
  <2>8. Above(r, q)
    BY <1>4, <2>4, <2>6, <2>7, ToppedAbove
  <2>9. Adds(r, q)
    BY <2>4, <2>7 DEF Adds, SameSlots, Keeps
  <2>10. \A d : Finishing(q, d) <=> Finishing(r, d)
    <3>1. \A b \in {CompleteCall(a)} \union {c} : b.op # "finished"
      BY <1>2 DEF CompleteCall, DequeueCall
    <3> QED
      BY <1>4, <3>1, FinishingTurns
  <2>11. ASSUME NEW d PROVE ~JustAsked(r, d)
    <3>1. PICK cs : cs = <<DequeueCall(d)>>
      OBVIOUS
    <3>2. Head(cs) = DequeueCall(d) /\ DequeueCall(d).op = "dequeue" /\ CompleteCall(a).op = "complete"
      BY <3>1 DEF DequeueCall, CompleteCall
    <3> QED
      BY <1>3, <3>1, <3>2 DEF JustAsked
  <2>12. Walking(r) => r[1].gotoEnd
    <3>1. WalkOK(fx, r) /\ CompleteCall(a).op # "unqueued"
      BY <1>2, <1>6 DEF PageCalm, CompleteCall
    <3> QED
      BY <1>3, <2>2, <3>1, WalkGoesToEnd
  <2> QED
    BY <1>1, <1>2, <1>4, <1>6, <2>8, <2>9, <2>10, <2>11, <2>12, QuietPage DEF Elem
<1> QED
  BY <1>5, <1>6

\* An animation beside the queue is counted off.
LEMMA UnqueuedOnPage ==
  ASSUME PageTypes, DoUnqueued
  PROVE  PageTypes' /\ (PageCalm => PageCalm')
<1>1. FxOK(fx) /\ RunOK /\ QueuesOK(fx) /\ UNCHANGED <<calls, threw, meddled>> /\ CallIs("unqueued")
  BY DEF PageTypes, FxTypeOK, DoUnqueued
<1>2. PICK E, A, x, y, r, q, c, an, e, h : E = DOMAIN fx.el /\ A = 1..Len(fx.anim) /\ x = fx /\ y = fx' /\ r = run /\ q = run' /\ c = Call
                                 /\ an = fx.anim[c.a] /\ e = an.elem /\ h = an.hooks
  OBVIOUS
<1>3. /\ r # <<>> /\ r[Len(r)].f = "todo" /\ c = Head(r[Len(r)].todo) /\ c \in CallType(E, A) /\ c.op = "unqueued" /\ q = CallDone(r)
      /\ r \in Seq(FrameType(E, A)) /\ DOMAIN x.el = E
  BY <1>1, <1>2, TopCall DEF DoUnqueued, Elem, RunOK
<1>4. e \in E
  <2>1. c.a \in A
    BY <1>3 DEF CallType
  <2> QED
    BY <1>1, <1>2, <2>1, FxParts
<1>5. y = UnqueuedEnds(x, e, h)
  BY <1>2 DEF DoUnqueued
<1>6. /\ FxOK(y) /\ Only(x, y, e) /\ y.anim = x.anim /\ y.timers = x.timers
      /\ SameMarks(x.el[e], y.el[e]) /\ Queue(y, e) = Queue(x, e)
  <2>1. FxOK(x) /\ e \in DOMAIN x.el
    BY <1>1, <1>2, <1>3, <1>4
  <2> QED
    BY ONLY <1>5, <2>1, UnqueuedEndsIs
<1>7. DOMAIN y.el = E /\ \A d \in E : y.el[d].inDocument = x.el[d].inDocument /\ y.el[d].finish = x.el[d].finish /\ Queue(y, d) = Queue(x, d)
  <2>1. \A d \in E : d # e => y.el[d] = x.el[d] /\ Queue(y, d) = Queue(x, d)
    BY <1>3, <1>6 DEF Only, Queue
  <2> QED
    BY <1>3, <1>6, <2>1 DEF Only, SameMarks
<1>8. q \in Seq(FrameType(E, A)) /\ Turns(r, q, {c}, {})
  BY <1>3, CallDoneTurns
<1>9. PageTypes'
  <2>1. QueuesOK(y)
    BY <1>1, <1>2, <1>3, <1>7, QueuesSame, SMTT(30)
  <2> QED
    BY <1>1, <1>2, <1>6, <1>7, <1>8, <2>1, PageTypesStay DEF PageTypes, FxTypeOK, Elem
<1>10. ASSUME PageCalm PROVE PageCalm'
  <2>1. (\A i \in 2..Len(r) : r[i].f \in {"todo", "fn"}) /\ WalkOK(x, r)
    BY <1>2, <1>10 DEF PageCalm, StackOK
  <2>2. Above(r, q) /\ Adds(r, q)
    BY <1>3, <2>1, CallAbove
  <2>3. \A d : Passes(x, r, y, q, d)
    <3>1. PICK s0 \in Slots(r) : Without(r, q, s0)
      BY <1>3, CallMade
    <3>2. \A d : Moving(x, q, d) \subseteq Moving(x, r, d)
      BY <1>3, <3>1, WithoutMoving
    <3>3. \A d : Moving(y, q, d) = Moving(x, q, d)
      BY <1>6 DEF Moving, InQueue, GoesOn
    <3> QED
      BY <3>2, <3>3 DEF Passes
  <2>4. \A d : Finishing(q, d) <=> Finishing(r, d)
    <3>1. PICK S : S = {}
      OBVIOUS
    <3>2. Turns(r, q, {c}, S) /\ \A b \in {c} \union S : b.op # "finished"
      BY <1>3, <1>8, <3>1
    <3> QED
      BY <3>2, FinishingTurns
  <2>5. ASSUME NEW d PROVE ~JustAsked(r, d)
    <3>1. PICK cs : cs = <<DequeueCall(d)>>
      OBVIOUS
    <3>2. Head(cs) = DequeueCall(d) /\ DequeueCall(d).op = "dequeue"
      BY <3>1 DEF DequeueCall
    <3> QED
      BY <1>3, <3>1, <3>2 DEF JustAsked
  <2>6. ASSUME Walking(r), ~r[1].gotoEnd
        PROVE  \A i \in 2..Len(q) : q[i].f = "todo" /\ \A j \in 1..Len(q[i].todo) : q[i].todo[j].op = "unqueued"
    <3>1. \A i \in 2..Len(r) : r[i].f = "todo" /\ \A j \in 1..Len(r[i].todo) : r[i].todo[j].op = "unqueued"
      BY <2>1, <2>6 DEF WalkOK
    <3>2. Shorter(r, q) /\ Len(r) \in Nat \ {0}
      BY <1>3, CallMade
    <3>3. SUFFICES ASSUME NEW i \in 2..Len(q) PROVE q[i].f = "todo" /\ \A j \in 1..Len(q[i].todo) : q[i].todo[j].op = "unqueued"
      OBVIOUS
    <3>4. PICK k, l : k = Len(r) /\ l = Len(q)
      OBVIOUS
    <3>5. i \in 2..k /\ (i < k => q[i] = r[i]) /\ (i < k \/ (i = k /\ l = k))
      <4>1. l \in {k - 1, k} /\ k \in Nat \ {0} /\ i \in 2..l /\ \A b \in 1..l : b < k => q[b] = r[b]
        BY <3>2, <3>3, <3>4 DEF Shorter
      <4> QED
        BY ONLY <4>1
    <3>6. CASE i < k
      BY <3>1, <3>4, <3>5, <3>6
    <3>7. CASE i = k /\ l = k
      <4>1. q[i] = [f |-> "todo", todo |-> Tail(r[k].todo)]
        BY <3>2, <3>4, <3>7 DEF Shorter
      <4>2. r[k] \in FrameType(E, A) /\ r[k].f = "todo" /\ \A j \in 1..Len(r[k].todo) : r[k].todo[j].op = "unqueued"
        BY <1>3, <3>1, <3>4, <3>5, <3>7, FramesAre
      <4>3. r[k].todo \in Seq(CallType(E, A)) /\ r[k].todo # <<>>
        BY <4>2, TodoFrameIs
      <4>4. PICK u, v : u = r[k].todo /\ v = Tail(r[k].todo)
        OBVIOUS
      <4>5. Len(v) = Len(u) - 1 /\ Len(u) \in Nat \ {0} /\ \A j \in 1..Len(v) : v[j] = u[j + 1] /\ j + 1 \in 1..Len(u)
        BY <4>3, <4>4
      <4> QED
        BY <4>1, <4>2, <4>4, <4>5
    <3> QED
      BY <3>5, <3>6, <3>7
  <2> QED
    BY <1>1, <1>2, <1>6, <1>7, <1>8, <1>10, <2>2, <2>3, <2>4, <2>5, <2>6, QuietPage DEF Elem
<1> QED
  BY <1>9, <1>10

\* The tick, when nothing finishes or walks.
LEMMA LowStep ==
  ASSUME PageTypes, PageCalm, run = <<>> \/ run[Len(run)].f = "tick", DOMAIN fx'.el = Elem, threw' = threw,
         \A d \in Elem : fx'.el[d].inDocument = fx.el[d].inDocument /\ Queue(fx', d) = Queue(fx, d),
         TimersOK(fx'), StackOK(fx', run'), run' = <<>> \/ run'[1].f = "tick", \A d : ~Finishing(run', d),
         \A d : Passes(fx, run, fx', run', d)
  PROVE  PageCalm'
<1>1. PICK E, x, y, r, q, t, A : E = DOMAIN fx.el /\ x = fx /\ y = fx' /\ r = run /\ q = run' /\ t = threw /\ A = 1..Len(fx.anim)
  OBVIOUS
<1>2. r \in Seq(FrameType(E, A)) /\ StackOK(x, r) /\ \A d \in E : x.el[d].inDocument => OneMover(x, r, t, d)
  BY <1>1 DEF PageTypes, FxTypeOK, RunOK, PageCalm, Movers, Elem
<1>3. r # <<>> => r[1].f = "tick"
  <2>1. Len(r) \in Nat /\ (r # <<>> <=> Len(r) >= 1) /\ \A i \in 2..Len(r) : r[i].f \in {"todo", "fn"}
    BY <1>2, FramesAre DEF StackOK
  <2>2. PICK k : k = Len(r)
    OBVIOUS
  <2>3. ASSUME k \in Nat, k >= 1, k \notin 2..k PROVE k = 1
    BY ONLY <2>3
  <2>4. r # <<>> => k \notin 2..k
    BY <1>1, <2>1, <2>2
  <2> QED
    BY <1>1, <2>1, <2>2, <2>3, <2>4
<1>4. \A d : ~Finishing(r, d) /\ ~JustAsked(r, d)
  BY <1>1, <1>2, <1>3, WalkNotFinishing DEF JustAsked
<1>5. ~Walking(r) /\ ~Walking(q)
  BY <1>1, <1>3 DEF Walking
<1>6. WalkOK(y, q)
  BY <1>5 DEF WalkOK
<1>7. ASSUME NEW d \in E, y.el[d].inDocument PROVE OneMover(y, q, t, d)
  <2>1. OneMover(x, r, t, d) /\ Queue(y, d) = Queue(x, d)
    BY <1>1, <1>2, <1>7 DEF Elem
  <2>2. Passes(x, r, y, q, d) /\ ~Finishing(q, d)
    BY <1>1
  <2>3. NoCalls(x, r, t, d) => NoCalls(y, q, t, d)
    BY <1>5, <2>1 DEF NoCalls
  <2> QED
    BY <1>4, <2>1, <2>2, <2>3, MoverGoesOn DEF HasSentinel
<1> QED
  BY <1>1, <1>6, <1>7 DEF PageCalm, Movers, Elem

\* A stack of the tick alone.
LEMMA TickAlone ==
  ASSUME NEW x, NEW E, NEW A, NEW r \in Seq(FrameType(E, A)), r # <<>>, r[Len(r)].f \in {"tick", "stop"}, \A i \in 2..Len(r) : r[i].f \in {"todo", "fn"}
  PROVE  Len(r) = 1 /\ r[1] \in FrameType(E, A) /\ Slots(r) = {} /\ Front(r) = <<>>
<1>1. Len(r) \in Nat /\ Len(r) >= 1
  BY FramesAre
<1>2. PICK k : k = Len(r)
  OBVIOUS
<1>3. k \notin 2..k
  BY <1>2
<1>4. k \in Nat /\ k >= 1
  BY <1>1, <1>2
<1>5. k = 1
  BY ONLY <1>3, <1>4
<1>6. Slots(r) = {}
  <2>1. SUFFICES ASSUME NEW s \in Slots(r) PROVE FALSE
    OBVIOUS
  <2>2. s[1] \in 1..Len(r) /\ r[s[1]].f = "todo"
    <3>1. PICK i, d : i = s[1] /\ d = s[2]
      OBVIOUS
    <3>2. <<i, d>> \in Slots(r)
      BY <3>1, SlotsAre
    <3> QED
      BY <3>1, <3>2, SlotsAre
  <2>3. s[1] = 1
    BY <1>2, <1>5, <2>2
  <2> QED
    BY <1>2, <1>5, <2>2, <2>3
<1>7. Front(r) = <<>>
  <2>1. Front(r) \in Seq(FrameType(E, A)) /\ Len(Front(r)) = Len(r) - 1
    BY PopIs
  <2> QED
    BY <1>2, <1>5, <2>1
<1> QED
  BY <1>2, <1>5, <1>6, <1>7, FramesAre

\* The interval fires.
LEMMA TickOnPage ==
  ASSUME PageTypes, Tick
  PROVE  PageTypes' /\ (PageCalm => PageCalm')
<1>1. FxOK(fx) /\ RunOK /\ UNCHANGED <<fx, calls, threw, meddled>>
  BY DEF PageTypes, FxTypeOK, Tick
<1>2. PICK E, A, r, q : E = DOMAIN fx.el /\ A = 1..Len(fx.anim) /\ r = run /\ q = run'
  OBVIOUS
<1>3. r = <<>> /\ Len(q) = 1 /\ q[1] = TickFrame(1, 0) /\ q \in Seq(FrameType(E, A)) /\ SameSlots(r, q)
  BY <1>1, <1>2, TickIs
<1>4. PageTypes'
  BY <1>1, <1>2, <1>3, PageTypesStay DEF PageTypes, FxTypeOK, Elem
<1>5. ASSUME PageCalm PROVE PageCalm'
  <2>1. Slots(q) = {}
    BY <1>3, NoSlots DEF SameSlots, Keeps
  <2>2. q[1].f = "tick" /\ q[1].over = 0
    BY <1>3 DEF TickFrame
  <2>3. StackOK(fx, q) /\ \A d : ~Finishing(q, d)
    BY <1>3, <2>1, <2>2 DEF StackOK, Finishing, Waits
  <2>4. \A d : Passes(fx, r, fx', q, d)
    BY <1>1, <1>2, <1>3, SlotsPass
  <2>5. TimersOK(fx)
    BY <1>5 DEF PageCalm
  <2> QED
    BY <1>1, <1>2, <1>3, <1>5, <2>2, <2>3, <2>4, <2>5, LowStep DEF Elem
<1> QED
  BY <1>4, <1>5

\* The tick is over.
LEMMA TickOverOnPage ==
  ASSUME PageTypes, TickOver
  PROVE  PageTypes' /\ (PageCalm => PageCalm')
<1>1. FxOK(fx) /\ RunOK /\ QueuesOK(fx) /\ UNCHANGED <<calls, threw, meddled>>
  BY DEF PageTypes, FxTypeOK, TickOver
<1>2. PICK E, A, r, q, x, y : E = DOMAIN fx.el /\ A = 1..Len(fx.anim) /\ r = run /\ q = run' /\ x = fx /\ y = fx'
  OBVIOUS
<1>3. /\ r # <<>> /\ r[Len(r)].f = "tick" /\ FxOK(y) /\ y.el = x.el /\ y.anim = x.anim /\ y.timers = x.timers
      /\ q \in Seq(FrameType(E, A)) /\ q = Front(r) /\ SameSlots(r, q)
  BY <1>1, <1>2, TickOverIs
<1>4. \A d : Queue(y, d) = Queue(x, d)
  BY <1>3 DEF Queue
<1>5. PageTypes'
  <2>1. QueuesOK(y)
    BY <1>1, <1>2, <1>3, <1>4, QueuesSame
  <2> QED
    BY <1>1, <1>2, <1>3, <2>1, PageTypesStay DEF PageTypes, FxTypeOK, Elem
<1>6. ASSUME PageCalm PROVE PageCalm'
  <2>1. r \in Seq(FrameType(E, A)) /\ \A i \in 2..Len(r) : r[i].f \in {"todo", "fn"}
    BY <1>1, <1>2, <1>6 DEF PageCalm, StackOK, RunOK
  <2>2. q = <<>>
    BY <1>3, <2>1, TickAlone
  <2>3. StackOK(y, q) /\ \A d : ~Finishing(q, d)
    <3>1. Slots(q) = {} /\ Len(q) = 0
      BY <2>2, NoSlots
    <3> QED
      BY <2>2, <3>1 DEF StackOK, Finishing, Waits
  <2>4. \A d : Passes(x, r, y, q, d)
    BY <1>1, <1>2, <1>3, SlotsPass
  <2>5. TimersOK(y)
    BY <1>2, <1>3, <1>6 DEF PageCalm, TimersOK, InTimers
  <2> QED
    BY <1>1, <1>2, <1>3, <1>4, <1>6, <2>2, <2>3, <2>4, <2>5, LowStep DEF Elem
<1> QED
  BY <1>5, <1>6

\* Timers of animations that run are not taken out.
LEMMA RemoveTimer ==
  ASSUME NEW x, FxOK(x), TimersOK(x), NEW y, y.anim = x.anim, NEW i \in 1..Len(x.timers), y.timers = RemoveAt(x.timers, i),
         x.anim[x.timers[i]].state # "pending"
  PROVE  /\ TimersOK(y) /\ Len(y.timers) = Len(x.timers) - 1
         /\ \A j \in 1..Len(y.timers) : y.timers[j] = IF j < i THEN x.timers[j] ELSE x.timers[j + 1]
<1>1. PICK s, t, k, l, S : s = x.timers /\ t = y.timers /\ k = Len(x.timers) /\ l = Len(y.timers) /\ S = 1..Len(x.anim)
  OBVIOUS
<1>2. s \in Seq(S)
  BY <1>1, FxParts
<1>3. t \in Seq(S) /\ l = k - 1 /\ \A j \in 1..l : t[j] = IF j < i THEN s[j] ELSE s[j + 1]
  <2>1. i \in 1..Len(s) /\ t = RemoveAt(s, i)
    BY <1>1
  <2>2. t \in Seq(S) /\ Len(t) = Len(s) - 1 /\ \A j \in 1..Len(t) : t[j] = IF j < i THEN s[j] ELSE s[j + 1]
    BY ONLY <1>2, <2>1, RemoveAtIs
  <2> QED
    BY <1>1, <2>2
<1>4. k \in Nat /\ i \in 1..k
  BY <1>1, <1>2
<1>5. ASSUME NEW a \in DOMAIN x.anim PROVE TimerFine(y, a)
  <2>1. TimerFine(x, a)
    BY <1>5, TimersFine
  <2>2. SUFFICES ASSUME x.anim[a].state = "pending" PROVE ~y.anim[a].stopped /\ \E j \in 1..l : t[j] = a
    BY <1>1 DEF TimerFine
  <2>3. ~x.anim[a].stopped
    BY <2>1, <2>2 DEF TimerFine
  <2>4. PICK j \in 1..k : s[j] = a
    BY <1>1, <2>1, <2>2 DEF TimerFine
  <2>5. j # i
    BY <1>1, <2>2, <2>4
  <2>6. CASE j < i
    <3>1. j \in 1..l
      BY <1>3, <1>4, <2>4, <2>6
    <3> QED
      BY <1>3, <2>3, <2>4, <2>6, <3>1
  <2>7. CASE j > i
    <3>1. PICK m : m = j - 1
      OBVIOUS
    <3>2. m \in 1..l /\ ~(m < i) /\ m + 1 = j
      BY <1>3, <1>4, <2>4, <2>7, <3>1
    <3>3. t[m] = a
      BY <1>3, <2>4, <3>2
    <3> QED
      BY <2>3, <3>2, <3>3
  <2> QED
    BY <1>4, <2>4, <2>5, <2>6, <2>7
<1>6. TimersOK(y)
  BY <1>5, TimersFine
<1> QED
  BY <1>1, <1>3, <1>6

\* A timer that is over is taken out.
LEMMA TimerOverOnPage ==
  ASSUME PageTypes, TimerOver
  PROVE  PageTypes' /\ (PageCalm => PageCalm')
<1>1. FxOK(fx) /\ RunOK /\ QueuesOK(fx) /\ UNCHANGED <<calls, threw, meddled>>
  BY DEF PageTypes, FxTypeOK, TimerOver
<1>2. PICK E, A, r, q, x, y, g : E = DOMAIN fx.el /\ A = 1..Len(fx.anim) /\ r = run /\ q = run' /\ x = fx /\ y = fx' /\ g = run[Len(run)]
  OBVIOUS
<1>3. /\ r # <<>> /\ g.f = "tick" /\ FxOK(y) /\ y.el = x.el /\ y.anim = x.anim /\ y.timers = TakenOut(x.timers, g.i, g.over)
      /\ q \in Seq(FrameType(E, A)) /\ SameSlots(r, q)
  BY <1>1, <1>2, TimerOverIs
<1>4. PICK k \in Nat \ {0} : Retopped(r, q, TickFrame(k, 0))
  BY <1>1, <1>2, TimerOverIs
<1>5. \A d : Queue(y, d) = Queue(x, d)
  BY <1>3 DEF Queue
<1>6. PageTypes'
  <2>1. QueuesOK(y)
    BY <1>1, <1>2, <1>3, <1>5, QueuesSame
  <2> QED
    BY <1>1, <1>2, <1>3, <2>1, PageTypesStay DEF PageTypes, FxTypeOK, Elem
<1>7. ASSUME PageCalm PROVE PageCalm'
  <2>1. r \in Seq(FrameType(E, A)) /\ StackOK(x, r) /\ TimersOK(x)
    BY <1>1, <1>2, <1>7 DEF PageCalm, RunOK
  <2>2. Len(r) = 1 /\ Slots(r) = {}
    BY <1>2, <1>3, <2>1, TickAlone DEF StackOK
  <2>3. Len(q) = 1 /\ q[1] = TickFrame(k, 0) /\ Slots(q) = {}
    BY <1>3, <1>4, <2>2 DEF Retopped, SameSlots, Keeps
  <2>4. q[1].f = "tick" /\ q[1].over = 0
    BY <2>3 DEF TickFrame
  <2>5. StackOK(y, q) /\ \A d : ~Finishing(q, d)
    BY <2>3, <2>4 DEF StackOK, Finishing, Waits
  <2>6. \A d : Passes(x, r, y, q, d)
    BY <1>1, <1>2, <1>3, SlotsPass
  <2>7. TimersOK(y)
    <3>1. CASE g.i <= Len(x.timers) /\ x.timers[g.i] = g.over
      <4>1. g.over # 0 /\ g = r[1]
        BY <1>2, <2>2 DEF TimerOver, Top
      <4>2. x.anim[g.over].state # "pending"
        BY <1>3, <2>1, <4>1 DEF StackOK
      <4>3. g.i \in 1..Len(x.timers)
        <5>1. g.i \in Nat \ {0} /\ Len(x.timers) \in Nat
          <6>1. g \in FrameType(E, A)
            BY <2>1, <2>2, <4>1, FramesAre
          <6> QED
            BY <1>1, <1>2, <1>3, <6>1, TickTyped, FxParts
        <5> QED
          BY <3>1, <5>1
      <4>4. y.timers = RemoveAt(x.timers, g.i)
        BY <1>3, <3>1 DEF TakenOut
      <4> QED
        BY <1>1, <1>2, <1>3, <2>1, <3>1, <4>2, <4>3, <4>4, RemoveTimer
    <3>2. CASE ~(g.i <= Len(x.timers) /\ x.timers[g.i] = g.over)
      <4>1. y.timers = x.timers
        BY <1>3, <3>2 DEF TakenOut
      <4> QED
        BY <1>3, <2>1, <4>1 DEF TimersOK, InTimers
    <3> QED
      BY <3>1, <3>2
  <2> QED
    BY <1>1, <1>2, <1>3, <1>5, <1>7, <2>3, <2>4, <2>5, <2>6, <2>7, LowStep DEF Elem
<1> QED
  BY <1>6, <1>7

\* A timer is called.
LEMMA TimerOnPage ==
  ASSUME PageTypes, TimerCalled
  PROVE  PageTypes' /\ (PageCalm => PageCalm')
<1>1. FxOK(fx) /\ RunOK /\ QueuesOK(fx) /\ UNCHANGED <<calls, threw, meddled>>
  BY DEF PageTypes, FxTypeOK, TimerCalled
<1>2. PICK E, A, r, q, x, y : E = DOMAIN fx.el /\ A = 1..Len(fx.anim) /\ r = run /\ q = run' /\ x = fx /\ y = fx'
  OBVIOUS
<1>3. r # <<>> /\ r[Len(r)].f = "tick" /\ FxOK(y) /\ y.timers = x.timers
  BY <1>1, <1>2, TimerCalledIs
<1>4. PICK a \in DOMAIN x.anim :
        /\ Only(x, y, x.anim[a].elem) /\ SameQueue(x.el[x.anim[a].elem], y.el[x.anim[a].elem])
        /\ Goes(x, y, r, q, a) \/ Resolves(x, y, r, q, a)
  BY <1>1, <1>2, TimerCalledIs
<1>5. q \in Seq(FrameType(DOMAIN y.el, 1..Len(y.anim))) /\ \A d : Passes(x, r, y, q, d)
  BY <1>1, <1>2, TimerPasses
<1>6. DOMAIN y.el = E /\ \A d \in E : y.el[d].inDocument = x.el[d].inDocument /\ Queue(y, d) = Queue(x, d)
  <2>1. \A d \in E : y.el[d].inDocument = x.el[d].inDocument /\ y.el[d].queue = x.el[d].queue
    BY <1>2, <1>4 DEF Only, SameQueue, SameMarks
  <2> QED
    BY <1>2, <1>4, <2>1 DEF Only, Queue
<1>7. PageTypes'
  <2>1. QueuesOK(y)
    BY <1>1, <1>2, <1>6, QueuesSame
  <2> QED
    BY <1>1, <1>2, <1>3, <1>5, <1>6, <2>1, PageTypesStay DEF PageTypes, FxTypeOK, Elem
<1>8. ASSUME PageCalm PROVE PageCalm'
  <2>1. r \in Seq(FrameType(E, A)) /\ StackOK(x, r) /\ TimersOK(x)
    BY <1>1, <1>2, <1>8 DEF PageCalm, RunOK
  <2>2. Len(r) = 1 /\ Slots(r) = {} /\ Front(r) = <<>>
    BY <1>3, <2>1, TickAlone DEF StackOK
  <2>3. TimersOK(y) /\ \A b \in DOMAIN x.anim : x.anim[b].state # "pending" => y.anim[b].state # "pending"
    <3>1. CASE Goes(x, y, r, q, a)
      BY <1>3, <2>1, <3>1, SMTT(30) DEF Goes, SameAnims, TimersOK, InTimers
    <3>2. CASE Resolves(x, y, r, q, a)
      BY <1>3, <2>1, <3>2 DEF Resolves, Settles, TimersOK, InTimers
    <3> QED
      BY <1>4, <3>1, <3>2
  <2>4. PICK i \in Nat \ {0}, over \in {0, a} :
          /\ q # <<>> /\ q[1] = TickFrame(i, over) /\ (over # 0 => y.anim[a].state # "pending") /\ \A b \in 2..Len(q) : q[b].f = "todo"
    <3>1. CASE Goes(x, y, r, q, a)
      <4>1. PICK i \in Nat \ {0}, over \in {0, a} : q = Pushed(Front(r), TickFrame(i, over)) /\ (over # 0 => x.anim[a].stopped \/ x.anim[a].state # "pending")
        BY <3>1 DEF Goes
      <4>2. PICK g : g = TickFrame(i, over)
        OBVIOUS
      <4>3. q = <<g>>
        BY <2>2, <4>1, <4>2, EmptyBefore DEF Pushed
      <4>4. over # 0 => y.anim[a].state # "pending"
        BY <2>1, <2>3, <4>1 DEF TimersOK
      <4>5. q # <<>> /\ q[1] = g /\ \A b : b \notin 2..Len(q)
        BY <4>3
      <4> QED
        BY <4>2, <4>4, <4>5
    <3>2. CASE Resolves(x, y, r, q, a)
      <4>1. PICK i \in Nat \ {0}, cs \in Ended(a, x.anim[a].queued) : q = Asked(Pushed(Front(r), TickFrame(i, a)), cs)
        BY <3>2 DEF Resolves
      <4>2. PICK g, h : g = TickFrame(i, a) /\ h = [f |-> "todo", todo |-> cs]
        OBVIOUS
      <4>3. Pushed(Front(r), g) = <<g>>
        BY <2>2, EmptyBefore DEF Pushed
      <4>4. cs # <<>>
        <5>1. Len(x.anim) \in Nat /\ a \in 1..Len(x.anim)
          BY <1>1, <1>2, FxParts
        <5>2. PICK B, w : B = 1..Len(x.anim) /\ w = x.anim[a].queued
          OBVIOUS
        <5>3. a \in B /\ cs \in Ended(a, w)
          BY <4>1, <5>1, <5>2
        <5>4. \A c, k : <<c>> # <<>> /\ <<c, k>> # <<>>
          OBVIOUS
        <5> QED
          BY <5>3, <5>4 DEF Ended
      <4>5. q = <<g, h>>
        BY <4>1, <4>2, <4>3, <4>4, OneAndOne DEF Asked, Todo
      <4>6. q # <<>> /\ q[1] = g /\ \A b \in 2..Len(q) : q[b] = h
        BY <4>5
      <4>7. h.f = "todo" /\ y.anim[a].state # "pending"
        BY <3>2, <4>2 DEF Resolves, Settles
      <4> QED
        BY <4>2, <4>6, <4>7
    <3> QED
      BY <1>4, <3>1, <3>2
  <2>5. q[1].f = "tick" /\ q[1].over = over
    BY <2>4 DEF TickFrame
  <2>6. \A s \in Slots(q) : CallOf(q, s).op \in {"complete", "unqueued"}
    <3>1. PICK S : Turns(r, q, {}, S) /\ \A c \in S : c.op \in {"complete", "unqueued"}
      <4>1. PICK b \in DOMAIN x.anim :
              \/ Turns(r, q, {}, {})
              \/ Turns(r, q, {}, IF x.anim[b].queued THEN {CompleteCall(b)} ELSE {CompleteCall(b), UnqueuedCall(b)})
        BY <1>1, <1>2, TimerTurns
      <4>2. \A c \in {CompleteCall(b), UnqueuedCall(b)} : c.op \in {"complete", "unqueued"}
        BY DEF CompleteCall, UnqueuedCall
      <4>3. \A c \in (IF x.anim[b].queued THEN {CompleteCall(b)} ELSE {CompleteCall(b), UnqueuedCall(b)}) : c.op \in {"complete", "unqueued"}
        BY <4>2
      <4> QED
        BY <4>1, <4>3
    <3> QED
      BY <2>2, <3>1 DEF Turns, Waits
  <2>7. \A d : ~Finishing(q, d)
    BY <2>6 DEF Finishing, Waits, FinishedCall
  <2>8. StackOK(y, q)
    BY <2>4, <2>5, <2>6 DEF StackOK
  <2> QED
    BY <1>1, <1>2, <1>3, <1>5, <1>6, <1>8, <2>3, <2>4, <2>5, <2>7, <2>8, LowStep DEF Elem
<1> QED
  BY <1>7, <1>8, SMTT(30)

\* The call is the last of the stack.
LEMMA LastCall ==
  ASSUME NEW E, NEW A, NEW r \in Seq(FrameType(E, A)), r # <<>>, r[Len(r)].f = "todo",
         \A s \in Slots(r) : CallOf(r, s) = Head(r[Len(r)].todo) => s = <<1, 0>>
  PROVE  Len(r) = 1 /\ CallDone(r) = <<>>
<1>1. PICK k, g, cs, n : k = Len(r) /\ g = r[Len(r)] /\ cs = g.todo /\ n = Len(cs)
  OBVIOUS
<1>2. k \in Nat /\ k >= 1 /\ g \in FrameType(E, A)
  BY <1>1, FramesAre
<1>3. cs \in Seq(CallType(E, A)) /\ cs # <<>> /\ n \in Nat \ {0} /\ Head(cs) = cs[1]
  BY <1>1, <1>2, TodoFrameIs
<1>4. PICK s : s = <<k, n - 1>>
  OBVIOUS
<1>5. s \in Slots(r)
  <2>1. k \in 1..Len(r) /\ r[k].f = "todo" /\ n - 1 \in 0..Len(r[k].todo) - 1
    BY <1>1, <1>2, <1>3
  <2> QED
    BY <1>4, <2>1, SlotsAre
<1>6. CallOf(r, s) = Head(cs)
  <2>1. n - (n - 1) = 1
    BY <1>3
  <2> QED
    BY <1>1, <1>3, <1>4, <2>1 DEF CallOf
<1>7. s = <<1, 0>>
  BY <1>1, <1>5, <1>6
<1>8. k = 1 /\ n = 1
  BY <1>3, <1>4, <1>7
<1>9. Todo(Tail(cs)) = <<>>
  <2>1. Tail(cs) \in Seq(CallType(E, A)) /\ Len(Tail(cs)) = 0
    BY <1>1, <1>3, <1>8, HeadTailProperties
  <2>2. Tail(cs) = <<>>
    BY <2>1, EmptySeq
  <2> QED
    BY <2>2 DEF Todo
<1>10. Front(r) = <<>>
  <2>1. Front(r) \in Seq(FrameType(E, A)) /\ Len(Front(r)) = k - 1
    BY <1>1, PopIs
  <2> QED
    BY <1>8, <2>1
<1> QED
  BY <1>1, <1>8, <1>9, <1>10 DEF CallDone

\* finish is over, and lets the queue go on.
LEMMA FinishedOnPage ==
  ASSUME PageTypes, DoFinished
  PROVE  PageTypes' /\ (PageCalm => PageCalm')
<1>1. FxOK(fx) /\ RunOK /\ QueuesOK(fx) /\ UNCHANGED <<calls, threw, meddled>> /\ CallIs("finished")
  BY DEF PageTypes, FxTypeOK, DoFinished
<1>2. PICK E, A, x, y, r, q, c, e : E = DOMAIN fx.el /\ A = 1..Len(fx.anim) /\ x = fx /\ y = fx' /\ r = run /\ q = run' /\ c = Call /\ e = c.e
  OBVIOUS
<1>3. /\ r # <<>> /\ r[Len(r)].f = "todo" /\ c = Head(r[Len(r)].todo) /\ c \in CallType(E, A) /\ c.op = "finished" /\ q = CallDone(r)
      /\ r \in Seq(FrameType(E, A)) /\ DOMAIN x.el = E
  BY <1>1, <1>2, TopCall DEF DoFinished, Elem, RunOK
<1>4. e \in E
  BY <1>2, <1>3 DEF CallType
<1>5. /\ FxOK(y) /\ Only(x, y, e) /\ y.anim = x.anim /\ y.timers = x.timers
      /\ y.el[e].inDocument = x.el[e].inDocument /\ y.el[e].queue = x.el[e].queue
  <2>1. PICK k : k = [x.el[e] EXCEPT !.finish = FALSE]
    OBVIOUS
  <2>2. k \in ElementType /\ k.inDocument = x.el[e].inDocument /\ k.queue = x.el[e].queue
    <3>1. x.el[e] \in ElementType
      BY <1>1, <1>2, <1>4, FxParts
    <3> QED
      BY <2>1, <3>1 DEF ElementType
  <2>3. y = [x EXCEPT !.el[e] = k]
    BY <1>2, <2>1 DEF DoFinished
  <2>4. FxOK(x) /\ e \in DOMAIN x.el
    BY <1>1, <1>2, <1>4
  <2>5. FxOK(y) /\ Only(x, y, e) /\ y.anim = x.anim /\ y.timers = x.timers /\ y.el[e] = k
    BY ONLY <2>2, <2>3, <2>4, WithElement
  <2> QED
    BY <2>2, <2>5
<1>6. DOMAIN y.el = E /\ \A d \in E : y.el[d].inDocument = x.el[d].inDocument /\ Queue(y, d) = Queue(x, d)
  BY <1>3, <1>5 DEF Only, Queue
<1>7. PageTypes'
  <2>1. QueuesOK(y)
    BY <1>1, <1>2, <1>3, <1>6, QueuesSame
  <2>2. q \in Seq(FrameType(E, A))
    BY <1>3, CallMade
  <2> QED
    BY <1>1, <1>2, <1>5, <1>6, <2>1, <2>2, PageTypesStay DEF PageTypes, FxTypeOK, Elem
<1>8. ASSUME PageCalm PROVE PageCalm'
  <2>1. StackOK(x, r) /\ TimersOK(x)
    BY <1>2, <1>8 DEF PageCalm
  <2>2. Len(r) = 1 /\ q = <<>>
    BY <1>3, <2>1, LastCall DEF StackOK
  <2>3. \A d : ~JustAsked(r, d)
    <3>1. SUFFICES ASSUME NEW d, JustAsked(r, d) PROVE FALSE
      OBVIOUS
    <3>2. PICK cs : cs = <<DequeueCall(d)>>
      OBVIOUS
    <3>3. Head(cs) = DequeueCall(d) /\ DequeueCall(d).op = "dequeue"
      BY <3>2 DEF DequeueCall
    <3> QED
      BY <1>3, <3>1, <3>2, <3>3 DEF JustAsked
  <2>4. ~Walking(r)
    BY <1>3, <2>2 DEF Walking
  <2>5. ASSUME NEW d \in E, y.el[d].inDocument
        PROVE  /\ \A a, b \in InQueue(y, d) : a = b
               /\ InQueue(y, d) = {} \/ HasSentinel(y, d) \/ (Queue(y, d) = <<>> /\ threw)
    <3>1. OneMover(x, r, threw, d)
      BY <1>2, <1>6, <1>8, <2>5 DEF PageCalm, Movers, Elem
    <3>2. InQueue(y, d) = InQueue(x, d)
      BY <1>5 DEF InQueue
    <3> QED
      BY <1>6, <2>3, <2>4, <2>5, <3>1, <3>2, MoverParts DEF NoCalls, HasSentinel
  <2>6. TimersOK(y)
    BY <1>5, <2>1 DEF TimersOK, InTimers
  <2> QED
    BY <1>1, <1>2, <1>6, <2>2, <2>5, <2>6, EmptyCalm
<1> QED
  BY <1>7, <1>8

-----------------------------------------------------------------------------
(***************************************************************************)
(* stop and finish.                                                        *)
(***************************************************************************)

\* The frame of the walk at a timer that it stops, and when it has passed one.
Splicing(w) == [f |-> "stop", e |-> w.e, i |-> w.i, gotoEnd |-> w.gotoEnd, dequeue |-> FALSE, splice |-> TRUE, then |-> w.then]

Passed(w) == [f |-> "stop", e |-> w.e, i |-> w.i - 1, gotoEnd |-> w.gotoEnd, dequeue |-> w.dequeue, splice |-> FALSE, then |-> w.then]

\* The frame of stop as the walk changes it.
LEMMA WalkFrames ==
  ASSUME NEW E, NEW A, NEW w \in FrameType(E, A), w.f = "stop"
  PROVE  /\ [w EXCEPT !.splice = TRUE, !.dequeue = FALSE] = Splicing(w)
         /\ [w EXCEPT !.splice = FALSE, !.i = @ - 1] = Passed(w)
         /\ ~w.splice => [w EXCEPT !.i = @ - 1] = Passed(w)
<1>1. /\ w.e \in E /\ w.i \in Nat /\ (w.splice => w.i # 0) /\ w.gotoEnd \in BOOLEAN /\ w.dequeue \in BOOLEAN /\ w.splice \in BOOLEAN
      /\ w.then \in Seq(CallType(E, A))
      /\ w = [f |-> "stop", e |-> w.e, i |-> w.i, gotoEnd |-> w.gotoEnd, dequeue |-> w.dequeue, splice |-> w.splice, then |-> w.then]
  BY StopTyped
<1>2. PICK e, i, ge, dq, sp, th : e = w.e /\ i = w.i /\ ge = w.gotoEnd /\ dq = w.dequeue /\ sp = w.splice /\ th = w.then
  OBVIOUS
<1>3. w = [f |-> "stop", e |-> e, i |-> i, gotoEnd |-> ge, dequeue |-> dq, splice |-> sp, then |-> th]
  BY <1>1, <1>2
<1>4. PICK b, c, j : b = TRUE /\ c = FALSE /\ j = i - 1
  OBVIOUS
<1>5. [w EXCEPT !.splice = TRUE, !.dequeue = FALSE] = Splicing(w)
  <2>1. [w EXCEPT !.splice = b, !.dequeue = c] = [f |-> "stop", e |-> e, i |-> i, gotoEnd |-> ge, dequeue |-> c, splice |-> b, then |-> th]
    <3>1. PICK v : v = [w EXCEPT !.splice = b]
      OBVIOUS
    <3>2. v = [f |-> "stop", e |-> e, i |-> i, gotoEnd |-> ge, dequeue |-> dq, splice |-> b, then |-> th]
      BY ONLY <1>3, <3>1
    <3>3. [w EXCEPT !.splice = b, !.dequeue = c] = [v EXCEPT !.dequeue = c]
      BY ONLY <3>1
    <3> QED
      BY ONLY <3>2, <3>3
  <2>2. [w EXCEPT !.splice = b, !.dequeue = c] = [w EXCEPT !.splice = TRUE, !.dequeue = FALSE]
    BY ONLY <1>4
  <2> QED
    BY <1>2, <1>4, <2>1, <2>2 DEF Splicing
<1>6. [w EXCEPT !.splice = FALSE, !.i = @ - 1] = Passed(w)
  <2>1. [w EXCEPT !.splice = c, !.i = j] = [f |-> "stop", e |-> e, i |-> j, gotoEnd |-> ge, dequeue |-> dq, splice |-> c, then |-> th]
    <3>1. PICK v : v = [w EXCEPT !.splice = c]
      OBVIOUS
    <3>2. v = [f |-> "stop", e |-> e, i |-> i, gotoEnd |-> ge, dequeue |-> dq, splice |-> c, then |-> th]
      BY ONLY <1>3, <3>1
    <3>3. [w EXCEPT !.splice = c, !.i = j] = [v EXCEPT !.i = j]
      BY ONLY <3>1
    <3> QED
      BY ONLY <3>2, <3>3
  <2>2. [w EXCEPT !.splice = c, !.i = j] = [w EXCEPT !.splice = FALSE, !.i = @ - 1]
    BY ONLY <1>2, <1>4
  <2> QED
    BY <1>2, <1>4, <2>1, <2>2 DEF Passed
<1>7. ASSUME ~w.splice PROVE [w EXCEPT !.i = @ - 1] = Passed(w)
  <2>1. [w EXCEPT !.i = j] = [f |-> "stop", e |-> e, i |-> j, gotoEnd |-> ge, dequeue |-> dq, splice |-> sp, then |-> th]
    BY ONLY <1>3
  <2>2. [w EXCEPT !.i = j] = [w EXCEPT !.i = @ - 1]
    BY ONLY <1>2, <1>4
  <2>3. w.splice = FALSE
    BY <1>1, <1>7
  <2> QED
    BY <1>2, <1>4, <2>1, <2>2, <2>3 DEF Passed
<1> QED
  BY <1>5, <1>6, <1>7

\* Those frames are frames.
LEMMA WalkFramesTyped ==
  ASSUME NEW E, NEW A, NEW w \in FrameType(E, A), w.f = "stop", w.i # 0
  PROVE  Splicing(w) \in FrameType(E, A) /\ Passed(w) \in FrameType(E, A)
<1>1. /\ w.e \in E /\ w.i \in Nat /\ w.gotoEnd \in BOOLEAN /\ w.dequeue \in BOOLEAN /\ w.then \in Seq(CallType(E, A))
  BY StopTyped
<1>2. w.i - 1 \in Nat
  BY <1>1
<1>3. Splicing(w) \in FrameType(E, A)
  BY <1>1 DEF FrameType, Splicing
<1>4. Passed(w) \in FrameType(E, A)
  BY <1>1, <1>2 DEF FrameType, Passed
<1> QED
  BY <1>3, <1>4

\* What is called when an animation is stopped.
StopAdds(a, queued, gotoEnd) ==
  IF gotoEnd THEN Ended(a, queued) ELSE {IF queued THEN <<>> ELSE <<UnqueuedCall(a)>>}

\* Its calls.
LEMMA StopAddsIs ==
  ASSUME NEW E, NEW A, NEW a \in A, NEW queued \in BOOLEAN, NEW gotoEnd \in BOOLEAN, NEW cs \in StopAdds(a, queued, gotoEnd)
  PROVE  /\ cs \in Seq(CallType(E, A)) /\ Len(cs) \in Nat
         /\ \A j \in 1..Len(cs) : cs[j] \in {CompleteCall(a), UnqueuedCall(a)}
         /\ \A j, k \in 1..Len(cs) : cs[j] = CompleteCall(a) /\ cs[k] = CompleteCall(a) => j = k
         /\ ~gotoEnd => \A j \in 1..Len(cs) : cs[j] = UnqueuedCall(a)
<1>1. CASE gotoEnd
  BY <1>1, EndedIs DEF StopAdds
<1>2. CASE ~gotoEnd /\ queued
  BY <1>2 DEF StopAdds
<1>3. CASE ~gotoEnd /\ ~queued
  <2>1. PICK c : c = UnqueuedCall(a)
    OBVIOUS
  <2>2. c \in CallType(E, A)
    BY <2>1 DEF CallType, UnqueuedCall
  <2>3. cs = <<c>>
    BY <1>3, <2>1 DEF StopAdds
  <2> QED
    BY <1>3, <2>1, <2>2, <2>3
<1> QED
  BY <1>1, <1>2, <1>3

\* The walk is at the timer of animation a, and stops it.
StopsAt(x, y, r, q, w, a) ==
  /\ a = x.timers[w.i] /\ x.anim[a].elem = w.e /\ x.anim[a].state = "pending" /\ (w.then # <<>> => x.anim[a].queued)
  /\ FxOK(y) /\ Only(x, y, w.e) /\ y.timers = x.timers /\ SameQueue(x.el[w.e], y.el[w.e])
  /\ \E cs \in StopAdds(a, x.anim[a].queued, w.gotoEnd) \union {<<>>} :
       /\ q = Asked(Pushed(Front(r), Splicing(w)), cs)
       /\ \/ x.anim[a].stopped /\ y = x /\ cs = <<>>
          \/ /\ Settles(x, y, a, IF w.gotoEnd THEN "resolved" ELSE "rejected") /\ y.anim[a].stopped
             /\ cs \in StopAdds(a, x.anim[a].queued, w.gotoEnd)

\* The walk passes timer i.
PassesBy(x, y, r, q, w) ==
  /\ y = x /\ q = Pushed(Front(r), Passed(w))
  /\ LET b == x.timers[w.i] IN ~(x.anim[b].elem = w.e /\ x.anim[b].state = "pending" /\ (w.then # <<>> => x.anim[b].queued))

\* The next timer: stopped, or passed by, or beyond the list.
LEMMA StopNextIs ==
  ASSUME FxOK(fx), RunOK, StopNext, NEW w, w = run[Len(run)]
  PROVE  /\ run # <<>> /\ w.f = "stop" /\ ~w.splice /\ w.i > 0 /\ w \in FrameType(DOMAIN fx.el, 1..Len(fx.anim))
         /\ \/ fx' = fx /\ run' = <<>> /\ threw' = TRUE /\ calls' = 0 /\ w.i > Len(fx.timers)
            \/ /\ w.i <= Len(fx.timers) /\ UNCHANGED <<calls, threw>>
               /\ (\E a \in DOMAIN fx.anim : StopsAt(fx, fx', run, run', w, a)) \/ PassesBy(fx, fx', run, run', w)
<1>1. /\ run # <<>> /\ w.f = "stop" /\ ~w.splice /\ w.i > 0
  BY DEF StopNext, TopIs, Top
<1>2. w \in FrameType(DOMAIN fx.el, 1..Len(fx.anim)) /\ w.i \in Nat /\ w.gotoEnd \in BOOLEAN /\ Len(fx.timers) \in Nat
  <2>1. run \in Seq(FrameType(DOMAIN fx.el, 1..Len(fx.anim))) /\ Len(run) \in 1..Len(run)
    BY <1>1 DEF RunOK
  <2>2. w \in FrameType(DOMAIN fx.el, 1..Len(fx.anim))
    BY <2>1, FramesAre
  <2> QED
    BY <1>1, <2>2, StopTyped, FxParts
<1>3. CASE w.i > Len(fx.timers)
  BY <1>1, <1>2, <1>3 DEF StopNext, Top
<1>4. CASE ~(w.i > Len(fx.timers))
  <2>1. w.i <= Len(fx.timers) /\ UNCHANGED <<calls, threw>>
    BY <1>2, <1>4 DEF StopNext, Top
  <2>2. PICK a, an : a = fx.timers[w.i] /\ an = fx.anim[a]
    OBVIOUS
  <2>3. a \in DOMAIN fx.anim
    BY <1>1, <1>2, <2>1, <2>2, FxParts
  <2>4. an.queued \in BOOLEAN /\ an.elem \in DOMAIN fx.el
    BY <2>2, <2>3, FxParts DEF AnimationOf
  <2>5. CASE IsOf(w.i, w.e, w.then # <<>>)
    <3>1. an.elem = w.e /\ an.state = "pending" /\ (w.then # <<>> => an.queued)
      BY <2>2, <2>5 DEF IsOf
    <3>2. PICK g, cs : g = [w EXCEPT !.splice = TRUE, !.dequeue = FALSE] /\ cs = StopCalls(fx, a, w.gotoEnd)
      BY SMTT(30)
    <3>3. fx' = Stopped(fx, a, w.gotoEnd) /\ run' = Append(Front(run), g) \o Todo(cs)
      BY <1>4, <2>2, <2>5, <3>2 DEF StopNext, Top, WithTop, Below
    <3>4. run' = Asked(Pushed(Front(run), Splicing(w)), cs)
      <4>1. Front(run) \in Seq(FrameType(DOMAIN fx.el, 1..Len(fx.anim)))
        BY <1>1, PopIs DEF RunOK
      <4>2. Append(Front(run), g) = Pushed(Front(run), g)
        BY <4>1 DEF Pushed
      <4>3. [w EXCEPT !.splice = TRUE, !.dequeue = FALSE] = Splicing(w)
        <5>1. PICK E, A : w \in FrameType(E, A) /\ w.f = "stop"
          BY <1>1, <1>2
        <5> QED
          BY ONLY <5>1, WalkFrames, Zenon
      <4>4. g = Splicing(w)
        BY <3>2, <4>3, Zenon
      <4> QED
        BY <3>3, <4>2, <4>4 DEF Asked
    <3>5. CASE an.stopped
      <4>1. fx' = fx /\ cs = <<>>
        BY <2>2, <3>2, <3>3, <3>5 DEF Stopped, StopCalls
      <4>2. SameQueue(fx.el[w.e], fx.el[w.e])
        BY DEF SameQueue, SameMarks
      <4>3. StopsAt(fx, fx', run, run', w, a)
        BY <2>2, <3>1, <3>2, <3>4, <3>5, <4>1, <4>2, Zenon DEF StopsAt, Only
      <4> QED
        BY <1>1, <1>2, <2>1, <2>3, <4>3
    <3>6. CASE ~an.stopped
      <4>1. /\ FxOK(fx') /\ Only(fx, fx', w.e) /\ fx'.timers = fx.timers
            /\ Settles(fx, fx', a, IF w.gotoEnd THEN "resolved" ELSE "rejected") /\ fx'.anim[a].stopped
            /\ SameQueue(fx.el[w.e], fx'.el[w.e])
        <5>1. PICK x, y, b : x = fx /\ y = fx' /\ b = w.gotoEnd
          BY SMTT(30)
        <5>2. FxOK(x) /\ a \in DOMAIN x.anim /\ b \in BOOLEAN /\ x.anim[a].state = "pending" /\ ~x.anim[a].stopped /\ y = Stopped(x, a, b)
          BY <1>2, <2>2, <2>3, <3>1, <3>3, <3>6, <5>1
        <5>3. /\ FxOK(y) /\ Only(x, y, x.anim[a].elem) /\ y.timers = x.timers
              /\ Settles(x, y, a, IF b THEN "resolved" ELSE "rejected") /\ y.anim[a].stopped
              /\ SameQueue(x.el[x.anim[a].elem], y.el[x.anim[a].elem])
          BY ONLY <5>2, StoppedIs
        <5> QED
          BY <2>2, <3>1, <5>1, <5>3, Zenon
      <4>2. cs \in StopAdds(a, an.queued, w.gotoEnd)
        BY <2>2, <3>1, <3>2, <3>6, DoneCallsIs, Zenon DEF StopCalls, StopAdds, Beside
      <4>3. StopsAt(fx, fx', run, run', w, a)
        BY <2>2, <3>1, <3>2, <3>4, <4>1, <4>2, Zenon DEF StopsAt
      <4> QED
        BY <1>1, <1>2, <2>1, <2>3, <4>3
    <3> QED
      BY <3>5, <3>6
  <2>6. CASE ~IsOf(w.i, w.e, w.then # <<>>)
    <3>1. PICK g : g = [w EXCEPT !.i = @ - 1]
      OBVIOUS
    <3>2. fx' = fx /\ run' = Append(Front(run), g)
      BY <1>4, <2>6, <3>1 DEF StopNext, Top, WithTop, Below
    <3>3. run' = Pushed(Front(run), Passed(w))
      <4>1. Front(run) \in Seq(FrameType(DOMAIN fx.el, 1..Len(fx.anim)))
        BY <1>1, PopIs DEF RunOK
      <4>2. [w EXCEPT !.i = @ - 1] = Passed(w)
        <5>1. PICK E, A : w \in FrameType(E, A) /\ w.f = "stop" /\ ~w.splice
          BY <1>1, <1>2
        <5> QED
          BY ONLY <5>1, WalkFrames, Zenon
      <4> QED
        BY <3>1, <3>2, <4>1, <4>2 DEF Pushed
    <3>4. PassesBy(fx, fx', run, run', w)
      BY <2>6, <3>1, <3>2, <3>3 DEF PassesBy, IsOf
    <3> QED
      BY <1>1, <1>2, <2>1, <3>4
  <2> QED
    BY <2>5, <2>6
<1> QED
  BY <1>3, <1>4

\* The walk of stop is all there is on the stack.
LEMMA WalkAlone ==
  ASSUME NEW x, NEW E, NEW A, NEW r \in Seq(FrameType(E, A)), r # <<>>, r[Len(r)].f = "stop", StackOK(x, r)
  PROVE  /\ Len(r) = 1 /\ r[1] = r[Len(r)] /\ Front(r) = <<>> /\ Slots(r) = {} /\ Walking(r)
         /\ \A d : ~Finishing(r, d) /\ ~JustAsked(r, d) /\ Moving(x, r, d) = {<<0, b>> : b \in InQueue(x, d)}
<1>1. Len(r) = 1 /\ Slots(r) = {} /\ Front(r) = <<>>
  BY TickAlone DEF StackOK
<1>2. Walking(r)
  BY <1>1 DEF Walking
<1>3. \A d : ~Finishing(r, d)
  BY <1>1 DEF Finishing, Waits
<1>4. \A d : ~JustAsked(r, d)
  BY DEF JustAsked
<1>5. \A d : Moving(x, r, d) = {<<0, b>> : b \in InQueue(x, d)}
  BY <1>1 DEF Moving
<1> QED
  BY <1>1, <1>2, <1>3, <1>4, <1>5

\* A frame of stop, with calls above it perhaps: what is on the stack.
LEMMA WalkTopped ==
  ASSUME NEW E, NEW A, NEW g \in FrameType(E, A), g.f = "stop", NEW a \in A, NEW queued \in BOOLEAN, NEW gotoEnd \in BOOLEAN,
         NEW cs \in StopAdds(a, queued, gotoEnd) \union {<<>>}, NEW q, q = Asked(<<g>>, cs)
  PROVE  /\ q \in Seq(FrameType(E, A)) /\ q # <<>> /\ q[1] = g /\ Len(q) \in 1..2
         /\ \A i \in 2..Len(q) : q[i] = [f |-> "todo", todo |-> cs]
         /\ \A s \in Slots(q) : CallOf(q, s) \in {CompleteCall(a), UnqueuedCall(a)}
         /\ \A s, t \in Slots(q) : CallOf(q, s) = CompleteCall(a) /\ CallOf(q, t) = CompleteCall(a) => s = t
<1>1. PICK r : r = <<g>>
  OBVIOUS
<1>2. r \in Seq(FrameType(E, A)) /\ Len(r) = 1 /\ r[1] = g /\ r # <<>>
  BY <1>1
<1>3. Slots(r) = {}
  <2>1. \A i \in 2..Len(r) : r[i].f \in {"todo", "fn"}
    BY <1>2
  <2>2. r[Len(r)].f \in {"tick", "stop"}
    BY <1>2
  <2> QED
    BY <1>2, <2>1, <2>2, TickAlone
<1>4. CASE cs = <<>>
  <2>1. q = r
    BY <1>1, <1>2, <1>4 DEF Asked, Todo
  <2>2. Len(q) \in 1..2 /\ \A i \in 2..Len(q) : FALSE
    <3>1. Len(q) = 1
      BY <1>2, <2>1
    <3> QED
      BY ONLY <3>1
  <2>3. q \in Seq(FrameType(E, A)) /\ q # <<>> /\ q[1] = g /\ Slots(q) = {}
    BY <1>2, <1>3, <2>1
  <2>4. \A i \in 2..Len(q) : q[i] = [f |-> "todo", todo |-> cs]
    BY <2>2
  <2> QED
    BY <2>2, <2>3, <2>4
<1>5. CASE cs # <<>>
  <2>1. /\ cs \in Seq(CallType(E, A)) /\ Len(cs) \in Nat
        /\ \A j \in 1..Len(cs) : cs[j] \in {CompleteCall(a), UnqueuedCall(a)}
        /\ \A j, k \in 1..Len(cs) : cs[j] = CompleteCall(a) /\ cs[k] = CompleteCall(a) => j = k
    BY <1>5, StopAddsIs
  <2>2. PICK h : h = [f |-> "todo", todo |-> cs]
    OBVIOUS
  <2>3. q \in Seq(FrameType(E, A)) /\ Topped(r, q, h) /\ NewSlots(r, q, cs)
    BY <1>1, <1>2, <1>5, <2>1, <2>2, PushTodoIs
  <2>4. Len(q) = 2 /\ q[2] = h /\ q[1] = g
    <3>1. PICK k, l : k = Len(r) /\ l = Len(q)
      OBVIOUS
    <3>2. l = k + 1 /\ q[l] = h /\ (\A i \in 1..k : q[i] = r[i]) /\ k = 1
      BY <1>2, <2>3, <3>1 DEF Topped
    <3>3. l = 2 /\ q[1] = r[1]
      BY ONLY <3>2
    <3> QED
      BY <1>2, <3>1, <3>2, <3>3
  <2>5. \A s \in Slots(q) : \E j \in 1..Len(cs) : s = <<2, Len(cs) - j>> /\ CallOf(q, s) = cs[j]
    BY <1>2, <1>3, <2>3 DEF NewSlots
  <2>6. \A s \in Slots(q) : CallOf(q, s) \in {CompleteCall(a), UnqueuedCall(a)}
    BY <2>1, <2>5
  <2>7. \A s, t \in Slots(q) : CallOf(q, s) = CompleteCall(a) /\ CallOf(q, t) = CompleteCall(a) => s = t
    BY <2>1, <2>5
  <2>8. \A i \in 2..Len(q) : q[i] = h
    BY <2>4
  <2>9. q # <<>> /\ Len(q) \in 1..2
    BY <2>3, <2>4
  <2> QED
    BY <2>2, <2>3, <2>4, <2>6, <2>7, <2>8, <2>9
<1> QED
  BY <1>4, <1>5

\* The walk goes on: what it keeps.
WalkGoes(x, y, w, g) ==
  /\ g.e = w.e /\ g.then = w.then /\ g.gotoEnd = w.gotoEnd
  /\ g.i \in Nat /\ g.i <= Len(y.timers) /\ (g.dequeue => w.dequeue /\ ~g.splice)
  /\ g.splice => g.i \in 1..Len(y.timers) /\ y.anim[y.timers[g.i]].state # "pending"
  /\ InQueue(x, w.e) \subseteq InTimers(x, w.i) => InQueue(y, w.e) \subseteq InTimers(y, g.i)

\* What a step of the walk keeps.
LEMMA WalkStep ==
  ASSUME PageTypes, PageCalm, run # <<>>, NEW w, w = run[Len(run)], w.f = "stop", FxOK(fx'), DOMAIN fx'.el = Elem, threw' = threw,
         \A d \in Elem : fx'.el[d].inDocument = fx.el[d].inDocument /\ fx'.el[d].finish = fx.el[d].finish /\ Queue(fx', d) = Queue(fx, d),
         TimersOK(fx'), NEW g, g.f = "stop", WalkGoes(fx, fx', w, g),
         run' # <<>>, run'[1] = g, g.dequeue => Len(run') = 1,
         \A i \in 2..Len(run') : run'[i].f = "todo" /\ (~g.gotoEnd => \A j \in 1..Len(run'[i].todo) : run'[i].todo[j].op = "unqueued"),
         \A s \in Slots(run') : CallOf(run', s).op \in {"complete", "unqueued"},
         \A d : Passes(fx, run, fx', run', d)
  PROVE  PageCalm'
<1>1. PICK E, A, x, y, r, q, t : E = DOMAIN fx.el /\ A = 1..Len(fx.anim) /\ x = fx /\ y = fx' /\ r = run /\ q = run' /\ t = threw
  OBVIOUS
<1>2. /\ r \in Seq(FrameType(E, A)) /\ StackOK(x, r) /\ WalkOK(x, r) /\ FxOK(x)
      /\ \A d \in E : x.el[d].inDocument => OneMover(x, r, t, d)
  BY <1>1 DEF PageTypes, FxTypeOK, RunOK, PageCalm, Movers, Elem
<1>3. /\ Len(r) = 1 /\ r[1] = w /\ Walking(r) /\ r # <<>>
      /\ \A d : ~Finishing(r, d) /\ ~JustAsked(r, d)
  BY <1>1, <1>2, WalkAlone
<1>4. w.e \in E /\ w.gotoEnd \in BOOLEAN
  <2>1. w \in FrameType(E, A)
    BY <1>2, <1>3, FramesAre
  <2> QED
    BY <2>1, StopTyped
<1>5. StackOK(y, q)
  <2>1. \A s \in Slots(q) : CallOf(q, s).op \notin {"finished", "start", "insert"}
    BY <1>1
  <2>2. q[1].f # "tick" /\ \A i \in 2..Len(q) : q[i].f \in {"todo", "fn"}
    BY <1>1
  <2> QED
    BY <2>1, <2>2 DEF StackOK
<1>6. Walking(q) /\ q[1] = g /\ q[1].e = w.e
  BY <1>1 DEF Walking, WalkGoes
<1>7. WalkOK(y, q)
  <2>1. /\ ThenOK(w.then, w.e)
        /\ w.then # <<>> => w.gotoEnd /\ (x.el[w.e].inDocument => x.el[w.e].finish /\ Queue(x, w.e) = <<>>)
        /\ x.el[w.e].inDocument /\ (Queue(x, w.e) = <<>> \/ ~w.gotoEnd \/ w.dequeue) =>
             InQueue(x, w.e) \subseteq InTimers(x, w.i)
    BY <1>2, <1>3 DEF WalkOK
  <2>2. y.el[w.e].inDocument = x.el[w.e].inDocument /\ y.el[w.e].finish = x.el[w.e].finish /\ Queue(y, w.e) = Queue(x, w.e)
    BY <1>1, <1>4 DEF Elem
  <2>3. WalkGoes(x, y, w, g)
    BY <1>1
  <2>4. ThenOK(g.then, g.e)
    BY <2>1, <2>3 DEF WalkGoes
  <2>5. g.then # <<>> => g.gotoEnd /\ (y.el[g.e].inDocument => y.el[g.e].finish /\ Queue(y, g.e) = <<>>)
    BY <2>1, <2>2, <2>3 DEF WalkGoes
  <2>6. y.el[g.e].inDocument /\ (Queue(y, g.e) = <<>> \/ ~g.gotoEnd \/ g.dequeue) => InQueue(y, g.e) \subseteq InTimers(y, g.i)
    BY <2>1, <2>2, <2>3 DEF WalkGoes
  <2>7. ~g.gotoEnd => \A i \in 2..Len(q) : q[i].f = "todo" /\ \A j \in 1..Len(q[i].todo) : q[i].todo[j].op = "unqueued"
    BY <1>1
  <2>8. (g.dequeue => Len(q) = 1 /\ ~g.splice) /\ g.i <= Len(y.timers)
    BY <1>1, <2>3 DEF WalkGoes
  <2>9. g.splice => g.i \in 1..Len(y.timers) /\ y.anim[y.timers[g.i]].state # "pending"
    BY <2>3 DEF WalkGoes
  <2> QED
    BY ONLY <1>6, <2>4, <2>5, <2>6, <2>7, <2>8, <2>9 DEF WalkOK
<1>8. \A d : ~Finishing(q, d)
  BY <1>1 DEF Finishing, Waits, FinishedCall
<1>9. ASSUME NEW d \in E, y.el[d].inDocument PROVE OneMover(y, q, t, d)
  <2>1. OneMover(x, r, t, d) /\ Queue(y, d) = Queue(x, d) /\ Passes(x, r, y, q, d)
    BY <1>1, <1>2, <1>9 DEF Elem
  <2>2. NoCalls(x, r, t, d) => NoCalls(y, q, t, d)
    BY <1>3, <1>6, <2>1 DEF NoCalls
  <2> QED
    BY <1>3, <1>8, <2>1, <2>2, MoverGoesOn DEF HasSentinel
<1> QED
  BY <1>1, <1>5, <1>7, <1>9 DEF PageCalm, Movers, Elem

\* Who runs when a is stopped.
PassesStop(x, y, r, q, w, a) ==
  /\ \A d : Passes(x, r, y, q, d)
  /\ q # <<>> /\ q[1] = Splicing(w)
  /\ \A i \in 2..Len(q) : q[i].f = "todo" /\ (~w.gotoEnd => \A j \in 1..Len(q[i].todo) : q[i].todo[j].op = "unqueued")
  /\ \A s \in Slots(q) : CallOf(q, s).op \in {"complete", "unqueued"}
  /\ y.anim[a].state # "pending" /\ TimersOK(y) /\ \A d : InQueue(y, d) \subseteq InQueue(x, d)

\* What is stopped passes its mover on to its complete callback.
LEMMA StopPasses ==
  ASSUME NEW x, FxOK(x), NEW r \in Seq(FrameType(DOMAIN x.el, 1..Len(x.anim))), r # <<>>, NEW w, w = r[Len(r)], w.f = "stop", StackOK(x, r), TimersOK(x),
         NEW y, NEW q, NEW a \in DOMAIN x.anim, StopsAt(x, y, r, q, w, a), w.i # 0
  PROVE  PassesStop(x, y, r, q, w, a)
<1>1. PICK E, A, g : E = DOMAIN x.el /\ A = 1..Len(x.anim) /\ g = Splicing(w)
  OBVIOUS
<1>2. r \in Seq(FrameType(E, A)) /\ a \in A /\ w \in FrameType(E, A) /\ w.gotoEnd \in BOOLEAN /\ g \in FrameType(E, A)
  <2>1. r \in Seq(FrameType(E, A)) /\ a \in A
    BY <1>1, FxParts
  <2>2. w \in FrameType(E, A)
    BY <2>1, WalkAlone, FramesAre
  <2> QED
    BY <1>1, <2>1, <2>2, StopTyped, WalkFramesTyped
<1>3. g.f = "stop"
  BY <1>1 DEF Splicing
<1>4. /\ Front(r) = <<>> /\ Slots(r) = {} /\ \A d : Moving(x, r, d) = {<<0, b>> : b \in InQueue(x, d)}
  BY <1>2, WalkAlone
<1>5. ~x.anim[a].stopped
  BY Zenon DEF TimersOK, StopsAt
<1>6. PICK cs \in StopAdds(a, x.anim[a].queued, w.gotoEnd) : q = Asked(Pushed(Front(r), g), cs)
  BY <1>1, <1>5, Zenon DEF StopsAt
<1>7. Settles(x, y, a, IF w.gotoEnd THEN "resolved" ELSE "rejected") /\ y.anim[a].stopped /\ y.timers = x.timers
  BY <1>5, Zenon DEF StopsAt
<1>8. q = Asked(<<g>>, cs)
  <2>1. Pushed(Front(r), g) = <<g>>
    BY <1>4, EmptyBefore DEF Pushed
  <2> QED
    BY <1>6, <2>1
<1>9. x.anim[a].queued \in BOOLEAN
  BY FxParts DEF AnimationOf
<1>10. /\ q \in Seq(FrameType(E, A)) /\ q # <<>> /\ q[1] = g /\ Len(q) \in 1..2
       /\ \A i \in 2..Len(q) : q[i] = [f |-> "todo", todo |-> cs]
       /\ \A s \in Slots(q) : CallOf(q, s) \in {CompleteCall(a), UnqueuedCall(a)}
       /\ \A s, t \in Slots(q) : CallOf(q, s) = CompleteCall(a) /\ CallOf(q, t) = CompleteCall(a) => s = t
  <2>1. PICK wq, ge : wq = x.anim[a].queued /\ ge = w.gotoEnd
    OBVIOUS
  <2>2. wq \in BOOLEAN /\ ge \in BOOLEAN /\ cs \in StopAdds(a, wq, ge) \union {<<>>} /\ a \in A /\ g \in FrameType(E, A) /\ g.f = "stop" /\ q = Asked(<<g>>, cs)
    BY <1>2, <1>3, <1>6, <1>8, <1>9, <2>1
  <2> QED
    BY ONLY <2>2, WalkTopped
<1>11. y.anim[a].state # "pending" /\ \A b \in DOMAIN y.anim : b \in DOMAIN x.anim /\ (b = a \/ y.anim[b] = x.anim[b])
  BY <1>7 DEF Settles
<1>12. TimersOK(y)
  BY <1>7, <1>11 DEF TimersOK, InTimers
<1>13. \A d : InQueue(y, d) \subseteq InQueue(x, d) \ {a}
  BY <1>11 DEF InQueue
<1>14. \A i \in 2..Len(q) : q[i].f = "todo" /\ (~w.gotoEnd => \A j \in 1..Len(q[i].todo) : q[i].todo[j].op = "unqueued")
  <2>1. ~w.gotoEnd => \A j \in 1..Len(cs) : cs[j] = UnqueuedCall(a)
    <3>1. PICK wq, ge : wq = x.anim[a].queued /\ ge = w.gotoEnd
      OBVIOUS
    <3>2. wq \in BOOLEAN /\ ge \in BOOLEAN /\ cs \in StopAdds(a, wq, ge) /\ a \in A
      BY <1>2, <1>6, <1>9, <3>1
    <3>3. ~ge => \A j \in 1..Len(cs) : cs[j] = UnqueuedCall(a)
      BY ONLY <3>2 DEF StopAdds
    <3> QED
      BY <3>1, <3>3
  <2>2. UnqueuedCall(a).op = "unqueued"
    BY DEF UnqueuedCall
  <2> QED
    BY <1>10, <2>1, <2>2
<1>15. \A s \in Slots(q) : CallOf(q, s).op \in {"complete", "unqueued"}
  BY <1>10 DEF CompleteCall, UnqueuedCall
<1>16. ASSUME NEW d PROVE Passes(x, r, y, q, d)
  <2>1. ASSUME NEW k \in Moving(y, q, d)
        PROVE  (\E b \in InQueue(x, d) \ {a} : k = <<0, b>>)
               \/ (k \in Slots(q) /\ CallOf(q, k) = CompleteCall(a) /\ x.anim[a].elem = d /\ x.anim[a].queued)
    <3>1. CASE k \in {<<0, b>> : b \in InQueue(y, d)}
      BY <1>13, <3>1
    <3>2. CASE k \in Slots(q) /\ GoesOn(y, CallOf(q, k), d)
      <4>1. CallOf(q, k) \in {CompleteCall(a), UnqueuedCall(a)}
        BY <1>10, <3>2
      <4>2. CompleteCall(a).op = "complete" /\ CompleteCall(a).a = a /\ UnqueuedCall(a).op = "unqueued" /\ DequeueCall(d).op = "dequeue"
        BY DEF CompleteCall, UnqueuedCall, DequeueCall
      <4>3. CallOf(q, k) = CompleteCall(a) /\ y.anim[a].elem = d /\ y.anim[a].queued
        BY <3>2, <4>1, <4>2 DEF GoesOn
      <4> QED
        BY <1>7, <3>2, <4>3 DEF Settles
    <3> QED
      BY <2>1, <3>1, <3>2 DEF Moving
  <2>2. CASE x.anim[a].elem = d /\ x.anim[a].queued
    <3>1. PICK m : m = <<0, a>>
      OBVIOUS
    <3>2. m \in Moving(x, r, d)
      <4>1. a \in InQueue(x, d)
        BY <2>2, SMTT(30) DEF InQueue, StopsAt
      <4> QED
        BY <1>4, <3>1, <4>1
    <3>3. PICK n : \A k \in Moving(y, q, d) : (k \in Moving(x, r, d) /\ k # m) \/ k = n
      <4>1. CASE \E n : n \in Slots(q) /\ CallOf(q, n) = CompleteCall(a)
        <5>1. PICK n : n \in Slots(q) /\ CallOf(q, n) = CompleteCall(a)
          BY <4>1
        <5>2. \A k \in Moving(y, q, d) : (k \in Moving(x, r, d) /\ k # m) \/ k = n
          BY <1>4, <1>10, <2>1, <3>1, <5>1
        <5> QED
          BY <5>2
      <4>2. CASE ~\E n : n \in Slots(q) /\ CallOf(q, n) = CompleteCall(a)
        BY <1>4, <2>1, <3>1, <4>2
      <4> QED
        BY <4>1, <4>2
    <3> QED
      BY <3>2, <3>3 DEF Passes
  <2>3. CASE ~(x.anim[a].elem = d /\ x.anim[a].queued)
    <3>1. Moving(y, q, d) \subseteq Moving(x, r, d)
      BY <1>4, <2>1, <2>3
    <3> QED
      BY <3>1 DEF Passes
  <2> QED
    BY <2>2, <2>3
<1> QED
  BY <1>1, <1>10, <1>11, <1>12, <1>13, <1>14, <1>15, <1>16 DEF PassesStop

\* The walk is at a timer.
LEMMA StopNextOnPage ==
  ASSUME PageTypes, StopNext
  PROVE  PageTypes' /\ (PageCalm => PageCalm')
<1>1. FxOK(fx) /\ RunOK /\ QueuesOK(fx) /\ UNCHANGED meddled /\ calls \in Nat /\ threw \in BOOLEAN /\ meddled \in BOOLEAN /\ (threw => calls = 0)
  BY DEF PageTypes, FxTypeOK, StopNext
<1>2. PICK E, A, r, q, x, y, w : E = DOMAIN fx.el /\ A = 1..Len(fx.anim) /\ r = run /\ q = run' /\ x = fx /\ y = fx' /\ w = run[Len(run)]
  OBVIOUS
<1>3. /\ r # <<>> /\ w.f = "stop" /\ ~w.splice /\ w.i > 0 /\ w \in FrameType(E, A)
      /\ \/ y = x /\ q = <<>> /\ threw' = TRUE /\ calls' = 0 /\ w.i > Len(x.timers)
         \/ /\ w.i <= Len(x.timers) /\ UNCHANGED <<calls, threw>>
            /\ (\E a \in DOMAIN x.anim : StopsAt(x, y, r, q, w, a)) \/ PassesBy(x, y, r, q, w)
  BY <1>1, <1>2, StopNextIs
<1>4. /\ w.i \in Nat /\ w.e \in E /\ w.gotoEnd \in BOOLEAN /\ w.dequeue \in BOOLEAN
      /\ w = [f |-> "stop", e |-> w.e, i |-> w.i, gotoEnd |-> w.gotoEnd, dequeue |-> w.dequeue, splice |-> w.splice, then |-> w.then]
      /\ Len(x.timers) \in Nat /\ DOMAIN x.anim = A /\ r \in Seq(FrameType(E, A))
  BY <1>1, <1>2, <1>3, StopTyped, FxParts DEF RunOK
<1>5. PICK g, k : g = Splicing(w) /\ k = Passed(w)
  OBVIOUS
<1>6. /\ g \in FrameType(E, A) /\ g.f = "stop" /\ g.e = w.e /\ g.then = w.then /\ g.gotoEnd = w.gotoEnd /\ g.i = w.i /\ g.splice /\ ~g.dequeue
  <2>1. g \in FrameType(E, A)
    BY <1>3, <1>4, <1>5, WalkFramesTyped
  <2>2. g.f = "stop" /\ g.e = w.e /\ g.then = w.then /\ g.gotoEnd = w.gotoEnd /\ g.i = w.i /\ g.splice /\ ~g.dequeue
    BY ONLY <1>5 DEF Splicing
  <2> QED
    BY <2>1, <2>2
<1>7. /\ k \in FrameType(E, A) /\ k.f = "stop" /\ k.e = w.e /\ k.then = w.then /\ k.gotoEnd = w.gotoEnd /\ k.i = w.i - 1
      /\ ~k.splice /\ k.dequeue = w.dequeue
  BY <1>3, <1>4, <1>5, WalkFramesTyped DEF Passed
<1>8. ASSUME PageCalm PROVE ~(w.i > Len(x.timers)) /\ StackOK(x, r) /\ WalkOK(x, r) /\ TimersOK(x) /\ Len(r) = 1 /\ r[1] = w /\ Front(r) = <<>> /\ Walking(r)
  <2>1. StackOK(x, r) /\ WalkOK(x, r) /\ TimersOK(x)
    BY <1>2, <1>8 DEF PageCalm
  <2>2. Len(r) = 1 /\ r[1] = w /\ Front(r) = <<>> /\ Walking(r)
    BY <1>2, <1>3, <1>4, <2>1, WalkAlone
  <2>3. w.i <= Len(x.timers)
    BY <2>1, <2>2 DEF WalkOK
  <2> QED
    BY <1>4, <2>1, <2>2, <2>3
<1>9. CASE y = x /\ q = <<>> /\ threw' = TRUE /\ calls' = 0 /\ w.i > Len(x.timers)
  <2>1. run' \in Seq(FrameType(DOMAIN fx'.el, 1..Len(fx'.anim)))
    BY <1>2, <1>9
  <2>2. PageTypes'
    BY <1>1, <1>2, <1>9, <2>1, PageTypesStay DEF Elem
  <2> QED
    BY <1>8, <1>9, <2>2
<1>10. ASSUME w.i <= Len(x.timers), UNCHANGED <<calls, threw>>, NEW a \in DOMAIN x.anim, StopsAt(x, y, r, q, w, a)
       PROVE  PageTypes' /\ (PageCalm => PageCalm')
  <2>1. PICK cs \in StopAdds(a, x.anim[a].queued, w.gotoEnd) \union {<<>>} : q = Asked(Pushed(Front(r), g), cs)
    BY <1>5, <1>10 DEF StopsAt
  <2>2. FxOK(y) /\ Only(x, y, w.e) /\ y.timers = x.timers /\ SameQueue(x.el[w.e], y.el[w.e]) /\ Len(y.anim) = Len(x.anim) /\ DOMAIN x.el = E
    BY <1>2, <1>10, Zenon DEF StopsAt, Settles
  <2>3. DOMAIN y.el = E /\ \A d \in E : y.el[d].inDocument = x.el[d].inDocument /\ y.el[d].finish = x.el[d].finish /\ Queue(y, d) = Queue(x, d)
    BY <1>4, <2>2 DEF Only, SameQueue, SameMarks, Queue
  <2>4. PageTypes'
    <3>1. QueuesOK(y)
      BY <1>1, <1>2, <2>3, QueuesSame
    <3>2. q \in Seq(FrameType(E, A))
      <4>1. PICK p : p = Pushed(Front(r), g)
        OBVIOUS
      <4>2. Front(r) \in Seq(FrameType(E, A))
        BY <1>3, <1>4, PopIs
      <4>3. p \in Seq(FrameType(E, A))
        BY <1>6, <4>1, <4>2, PushIs
      <4>4. CASE cs = <<>>
        <5>1. q = p
          BY <2>1, <4>1, <4>3, <4>4 DEF Asked, Todo
        <5> QED
          BY <4>3, <5>1
      <4>5. CASE cs # <<>>
        <5>1. PICK wq, ge : wq = x.anim[a].queued /\ ge = w.gotoEnd
          OBVIOUS
        <5>2. wq \in BOOLEAN /\ ge \in BOOLEAN /\ cs \in StopAdds(a, wq, ge) /\ a \in A
          BY <1>1, <1>2, <1>4, <2>1, <4>5, <5>1, <1>10, FxParts DEF AnimationOf
        <5>3. cs \in Seq(CallType(E, A))
          BY <5>2, StopAddsIs
        <5> QED
          BY <2>1, <4>1, <4>3, <4>5, <5>3, PushTodoIs
      <4> QED
        BY <4>4, <4>5
    <3> QED
      BY <1>1, <1>2, <1>10, <2>2, <2>3, <3>1, <3>2, PageTypesStay DEF Elem
  <2>5. ASSUME PageCalm PROVE PageCalm'
    <3>1. /\ \A d : Passes(x, r, y, q, d)
          /\ q # <<>> /\ q[1] = g
          /\ \A i \in 2..Len(q) : q[i].f = "todo" /\ (~w.gotoEnd => \A j \in 1..Len(q[i].todo) : q[i].todo[j].op = "unqueued")
          /\ \A s \in Slots(q) : CallOf(q, s).op \in {"complete", "unqueued"}
          /\ y.anim[a].state # "pending" /\ TimersOK(y) /\ \A d : InQueue(y, d) \subseteq InQueue(x, d)
      <4>1. FxOK(x) /\ r \in Seq(FrameType(DOMAIN x.el, 1..Len(x.anim))) /\ r # <<>> /\ w = r[Len(r)] /\ w.f = "stop" /\ StackOK(x, r) /\ TimersOK(x)
            /\ a \in DOMAIN x.anim /\ StopsAt(x, y, r, q, w, a) /\ w.i # 0
        BY <1>1, <1>2, <1>3, <1>4, <1>8, <1>10, <2>5
      <4>2. g = Splicing(w)
        BY <1>5
      <4>3. PassesStop(x, y, r, q, w, a)
        BY ONLY <4>1, StopPasses
      <4> QED
        BY <4>2, <4>3 DEF PassesStop
    <3>2. WalkGoes(x, y, w, g)
      <4>1. g.i \in 1..Len(y.timers) /\ y.timers[g.i] = a
        BY <1>3, <1>4, <1>6, <1>10, <2>2, SMTT(30) DEF StopsAt
      <4>2. InTimers(y, g.i) = InTimers(x, w.i)
        BY <1>6, <2>2 DEF InTimers
      <4>3. g.i \in Nat /\ g.i <= Len(y.timers)
        BY <1>4, <1>6, <1>10, <2>2
      <4> QED
        BY <1>6, <3>1, <4>1, <4>2, <4>3 DEF WalkGoes
    <3> QED
      BY <1>1, <1>2, <1>3, <1>6, <1>10, <2>2, <2>3, <2>5, <3>1, <3>2, WalkStep DEF Elem
  <2> QED
    BY <2>4, <2>5, SMTT(30)
<1>11. ASSUME w.i <= Len(x.timers), UNCHANGED <<calls, threw>>, PassesBy(x, y, r, q, w)
       PROVE  PageTypes' /\ (PageCalm => PageCalm')
  <2>1. y = x /\ q = Pushed(Front(r), k)
    BY <1>5, <1>11 DEF PassesBy
  <2>2. q \in Seq(FrameType(E, A)) /\ SameSlots(r, q)
    <3>1. r[Len(r)].f # "todo" /\ k.f # "todo"
      BY <1>2, <1>3, <1>7
    <3> QED
      BY <1>3, <1>4, <1>7, <2>1, <3>1, Retop
  <2>3. PageTypes'
    BY <1>1, <1>2, <1>11, <2>1, <2>2, PageTypesStay DEF PageTypes, Elem
  <2>4. ASSUME PageCalm PROVE PageCalm'
    <3>1. q = <<k>>
      BY <1>8, <2>1, <2>4, EmptyBefore DEF Pushed
    <3>2. q # <<>> /\ q[1] = k /\ Len(q) = 1 /\ \A i \in 2..Len(q) : FALSE
      <4>1. Len(q) = 1
        BY <3>1
      <4>2. \A i \in 2..Len(q) : FALSE
        BY ONLY <4>1
      <4> QED
        BY <3>1, <4>1, <4>2
    <3>3. Slots(q) = {}
      <4>1. Slots(r) = {}
        BY <1>2, <1>3, <1>4, <1>8, <2>4, WalkAlone
      <4> QED
        BY <2>2, <4>1 DEF SameSlots, Keeps
    <3>4. \A d : Passes(x, r, y, q, d)
      BY <1>1, <1>2, <2>1, <2>2, SlotsPass
    <3>5. WalkGoes(x, y, w, k)
      <4>1. PICK b, i : b = x.timers[w.i] /\ i = w.i
        OBVIOUS
      <4>2. ~(x.anim[b].elem = w.e /\ x.anim[b].state = "pending" /\ (w.then # <<>> => x.anim[b].queued))
        BY <1>11, <4>1 DEF PassesBy
      <4>3. b \notin InQueue(x, w.e)
        BY <4>2 DEF InQueue
      <4>4. InQueue(x, w.e) \subseteq InTimers(x, i) => InQueue(x, w.e) \subseteq InTimers(x, i - 1)
        <5>1. SUFFICES ASSUME InQueue(x, w.e) \subseteq InTimers(x, i), NEW c \in InQueue(x, w.e) PROVE c \in InTimers(x, i - 1)
          OBVIOUS
        <5>2. PICK j \in 1..i : c = x.timers[j]
          BY <5>1 DEF InTimers
        <5>3. j # i
          BY <4>1, <4>3, <5>1, <5>2
        <5>4. j \in 1..(i - 1)
          BY <1>4, <4>1, <5>2, <5>3
        <5> QED
          BY <5>2, <5>4 DEF InTimers
      <4>5. k.i \in Nat /\ k.i <= Len(y.timers) /\ k.i = i - 1
        BY <1>3, <1>4, <1>7, <1>11, <2>1, <4>1
      <4> QED
        BY <1>7, <2>1, <4>1, <4>4, <4>5 DEF WalkGoes
    <3>6. TimersOK(y)
      BY <1>8, <2>1, <2>4
    <3> QED
      BY <1>1, <1>2, <1>3, <1>7, <1>11, <2>1, <2>4, <3>2, <3>3, <3>4, <3>5, <3>6, WalkStep DEF PageTypes, Elem
  <2> QED
    BY <2>3, <2>4
<1> QED
  BY <1>3, <1>9, <1>10, <1>11

\* The timers of the effects are set.
LEMMA TimersSet ==
  ASSUME NEW x, FxOK(x), NEW ts \in Seq(1..Len(x.anim)), NEW y, y = [x EXCEPT !.timers = ts]
  PROVE  FxOK(y) /\ y.el = x.el /\ y.anim = x.anim /\ y.timers = ts
<1>1. PICK b : b = x.ticking
  OBVIOUS
<1>2. x = [el |-> x.el, hooks |-> x.hooks, anim |-> x.anim, timers |-> x.timers, ticking |-> b] /\ b \in BOOLEAN
  BY <1>1 DEF FxOK
<1>3. y = [el |-> x.el, hooks |-> x.hooks, anim |-> x.anim, timers |-> ts, ticking |-> b]
  BY ONLY <1>2, y = [x EXCEPT !.timers = ts], SMTT(30)
<1>4. FxOK(x) /\ ts \in Seq(1..Len(x.anim))
  OBVIOUS
<1> QED
  BY ONLY <1>2, <1>3, <1>4, WithTimers

\* The timer that was stopped is taken out.
LEMMA StopSpliceIs ==
  ASSUME FxOK(fx), RunOK, StopSplice, NEW w, w = run[Len(run)], NEW E, E = DOMAIN fx.el, NEW A, A = 1..Len(fx.anim)
  PROVE  /\ run # <<>> /\ run \in Seq(FrameType(E, A)) /\ w.f = "stop" /\ w.splice /\ w \in FrameType(E, A) /\ w.i \in Nat \ {0}
         /\ FxOK(fx') /\ fx'.el = fx.el /\ fx'.anim = fx.anim
         /\ fx'.timers = IF w.i <= Len(fx.timers) THEN RemoveAt(fx.timers, w.i) ELSE fx.timers
         /\ run' = Pushed(Front(run), Passed(w)) /\ run' \in Seq(FrameType(E, A)) /\ SameSlots(run, run')
<1>1. PICK r, q, x, y, left : r = run /\ q = run' /\ x = fx /\ y = fx' /\ left = IF w.i <= Len(fx.timers) THEN RemoveAt(fx.timers, w.i) ELSE fx.timers
  OBVIOUS
<1>2. r \in Seq(FrameType(E, A)) /\ r # <<>> /\ r[Len(r)] = w /\ w.f = "stop" /\ w.splice
  BY <1>1 DEF RunOK, StopSplice, TopIs, Top
<1>3. w \in FrameType(E, A)
  BY ONLY <1>2
<1>4. w.i \in Nat \ {0}
  BY <1>2, <1>3, StopTyped
<1>5. y = [x EXCEPT !.timers = left]
  BY <1>1 DEF StopSplice, Top
<1>6. q = Append(Front(r), [w EXCEPT !.splice = FALSE, !.i = @ - 1])
  BY <1>1 DEF StopSplice, Top, WithTop, Below
<1>7. [w EXCEPT !.splice = FALSE, !.i = @ - 1] = Passed(w)
  <2>1. w \in FrameType(E, A) /\ w.f = "stop"
    BY <1>2, <1>3
  <2> QED
    BY ONLY <2>1, WalkFrames, Zenon
<1>8. q = Pushed(Front(r), Passed(w))
  <2>1. q = Append(Front(r), Passed(w))
    BY ONLY <1>6, <1>7
  <2>2. Front(r) \in Seq(FrameType(E, A))
    BY <1>2, PopIs
  <2> QED
    BY <2>1, <2>2 DEF Pushed
<1>9. q \in Seq(FrameType(E, A)) /\ SameSlots(r, q)
  <2>1. PICK g : g = Passed(w)
    OBVIOUS
  <2>2. g \in FrameType(E, A)
    BY <1>2, <1>3, <1>4, <2>1, WalkFramesTyped
  <2>3. g.f # "todo" /\ r[Len(r)].f # "todo" /\ q = Pushed(Front(r), g)
    BY <1>2, <1>8, <2>1 DEF Passed
  <2> QED
    BY <1>2, <2>2, <2>3, Retop
<1>10. left \in Seq(1..Len(x.anim))
  <2>1. x.timers \in Seq(1..Len(x.anim)) /\ Len(x.timers) \in Nat
    BY <1>1, FxParts
  <2>2. CASE w.i <= Len(x.timers)
    <3>1. left = RemoveAt(x.timers, w.i) /\ w.i \in 1..Len(x.timers)
      BY <1>1, <1>4, <2>1, <2>2
    <3> QED
      BY ONLY <2>1, <3>1, RemoveAtIs
  <2>3. CASE ~(w.i <= Len(x.timers))
    BY <1>1, <2>1, <2>3
  <2> QED
    BY <2>2, <2>3
<1>11. FxOK(y) /\ y.el = x.el /\ y.anim = x.anim /\ y.timers = left
  <2>1. FxOK(x)
    BY <1>1
  <2> QED
    BY ONLY <1>5, <1>10, <2>1, TimersSet
<1> QED
  BY <1>1, <1>2, <1>3, <1>4, <1>8, <1>9, <1>11

\* The walk takes a timer out.
LEMMA StopSpliceOnPage ==
  ASSUME PageTypes, StopSplice
  PROVE  PageTypes' /\ (PageCalm => PageCalm')
<1>1. FxOK(fx) /\ RunOK /\ QueuesOK(fx) /\ UNCHANGED <<calls, threw, meddled>>
  BY DEF PageTypes, FxTypeOK, StopSplice
<1>2. PICK E, A, r, q, x, y, w : E = DOMAIN fx.el /\ A = 1..Len(fx.anim) /\ r = run /\ q = run' /\ x = fx /\ y = fx' /\ w = run[Len(run)]
  OBVIOUS
<1>3. /\ r # <<>> /\ r \in Seq(FrameType(E, A)) /\ w.f = "stop" /\ w.splice /\ w \in FrameType(E, A) /\ w.i \in Nat \ {0}
      /\ FxOK(y) /\ y.el = x.el /\ y.anim = x.anim
      /\ y.timers = IF w.i <= Len(x.timers) THEN RemoveAt(x.timers, w.i) ELSE x.timers
      /\ q = Pushed(Front(r), Passed(w)) /\ q \in Seq(FrameType(E, A)) /\ SameSlots(r, q)
  BY <1>1, <1>2, StopSpliceIs
<1>4. \A d : Queue(y, d) = Queue(x, d)
  BY <1>3 DEF Queue
<1>5. PageTypes'
  <2>1. QueuesOK(y)
    BY <1>1, <1>2, <1>3, <1>4, QueuesSame
  <2> QED
    BY <1>1, <1>2, <1>3, <2>1, PageTypesStay DEF PageTypes, FxTypeOK, Elem
<1>6. ASSUME PageCalm PROVE PageCalm'
  <2>1. StackOK(x, r) /\ WalkOK(x, r) /\ TimersOK(x)
    BY <1>2, <1>6 DEF PageCalm
  <2>2. Len(r) = 1 /\ r[1] = w /\ Front(r) = <<>> /\ Slots(r) = {} /\ Walking(r)
    BY <1>2, <1>3, <2>1, WalkAlone
  <2>3. w.i \in 1..Len(x.timers) /\ x.anim[x.timers[w.i]].state # "pending" /\ ~w.dequeue
    BY <1>3, <2>1, <2>2 DEF WalkOK
  <2>4. PICK g, i : g = Passed(w) /\ i = w.i
    OBVIOUS
  <2>5. /\ g.f = "stop" /\ g.e = w.e /\ g.then = w.then /\ g.gotoEnd = w.gotoEnd /\ g.i = w.i - 1 /\ g.dequeue = w.dequeue /\ ~g.splice
    BY ONLY <2>4 DEF Passed
  <2>6. q # <<>> /\ q[1] = g /\ Len(q) = 1 /\ \A b \in 2..Len(q) : FALSE
    <3>1. q = <<g>>
      BY <1>3, <2>2, <2>4, EmptyBefore DEF Pushed
    <3>2. Len(q) = 1
      BY <3>1
    <3>3. \A b \in 2..Len(q) : FALSE
      BY ONLY <3>2
    <3> QED
      BY <3>1, <3>2, <3>3
  <2>7. /\ TimersOK(y) /\ Len(y.timers) = Len(x.timers) - 1
        /\ \A j \in 1..Len(y.timers) : y.timers[j] = IF j < i THEN x.timers[j] ELSE x.timers[j + 1]
    <3>1. y.timers = RemoveAt(x.timers, i) /\ i \in 1..Len(x.timers) /\ x.anim[x.timers[i]].state # "pending" /\ FxOK(x) /\ y.anim = x.anim
      BY <1>1, <1>2, <1>3, <2>3, <2>4
    <3> QED
      BY ONLY <2>1, <3>1, RemoveTimer
  <2>8. Len(x.timers) \in Nat
    BY <1>1, <1>2, FxParts
  <2>9. WalkGoes(x, y, w, g)
    <3>1. g.i \in Nat /\ g.i <= Len(y.timers) /\ g.i = i - 1
      BY <1>3, <2>3, <2>4, <2>5, <2>7, <2>8
    <3>2. InQueue(x, w.e) \subseteq InTimers(x, i) => InQueue(y, w.e) \subseteq InTimers(y, i - 1)
      <4>1. SUFFICES ASSUME InQueue(x, w.e) \subseteq InTimers(x, i), NEW c \in InQueue(x, w.e) PROVE c \in InTimers(y, i - 1)
        BY <1>3 DEF InQueue
      <4>2. PICK j \in 1..i : c = x.timers[j]
        BY <4>1 DEF InTimers
      <4>3. j # i
        BY <2>3, <2>4, <4>1, <4>2 DEF InQueue
      <4>4. i \in 1..Len(x.timers)
        BY <2>3, <2>4
      <4>5. j \in 1..(i - 1) /\ j < i /\ j \in 1..Len(y.timers)
        BY <2>7, <2>8, <4>2, <4>3, <4>4
      <4>6. y.timers[j] = c
        BY <2>7, <4>2, <4>5
      <4> QED
        BY <4>5, <4>6 DEF InTimers
    <3> QED
      BY <2>3, <2>4, <2>5, <3>1, <3>2 DEF WalkGoes
  <2>10. Slots(q) = {}
    BY <1>3, <2>2 DEF SameSlots, Keeps
  <2>11. \A d : Passes(x, r, y, q, d)
    BY <1>1, <1>2, <1>3, SlotsPass
  <2>12. DOMAIN y.el = E /\ \A d \in E : y.el[d].inDocument = x.el[d].inDocument /\ y.el[d].finish = x.el[d].finish
    BY <1>2, <1>3
  <2> QED
    BY <1>1, <1>2, <1>3, <1>4, <1>6, <2>5, <2>6, <2>7, <2>9, <2>10, <2>11, <2>12, WalkStep DEF Elem
<1> QED
  BY <1>5, <1>6

\* What stop and finish go on with.
AfterWalk(w) ==
  IF w.then # <<>> THEN w.then ELSE IF w.dequeue \/ ~w.gotoEnd THEN <<DequeueCall(w.e)>> ELSE <<>>

\* The walk is over.
LEMMA StopOverIs ==
  ASSUME FxOK(fx), RunOK, StopOver, NEW w, w = run[Len(run)], NEW E, E = DOMAIN fx.el, NEW A, A = 1..Len(fx.anim), NEW cs, cs = AfterWalk(w)
  PROVE  /\ run # <<>> /\ run \in Seq(FrameType(E, A)) /\ w.f = "stop" /\ w \in FrameType(E, A) /\ w.i = 0
         /\ cs \in Seq(CallType(E, A)) /\ run' = Asked(Front(run), cs) /\ run' \in Seq(FrameType(E, A))
<1>1. PICK r, q : r = run /\ q = run'
  OBVIOUS
<1>2. r \in Seq(FrameType(E, A)) /\ r # <<>> /\ r[Len(r)] = w /\ w.f = "stop" /\ w.i = 0
  BY <1>1 DEF RunOK, StopOver, TopIs, Top
<1>3. w \in FrameType(E, A)
  BY ONLY <1>2
<1>4. w.e \in E /\ w.then \in Seq(CallType(E, A))
  BY <1>2, <1>3, StopTyped
<1>5. cs \in Seq(CallType(E, A))
  <2>1. DequeueCall(w.e) \in CallType(E, A)
    BY <1>4 DEF CallType, DequeueCall
  <2>2. <<DequeueCall(w.e)>> \in Seq(CallType(E, A)) /\ <<>> \in Seq(CallType(E, A))
    BY <2>1
  <2>3. cs \in {w.then, <<DequeueCall(w.e)>>, <<>>}
    BY DEF AfterWalk
  <2> QED
    BY <1>4, <2>2, <2>3
<1>6. q = Asked(Front(r), cs)
  BY <1>1 DEF StopOver, Top, Below, AfterWalk, Asked
<1>7. q \in Seq(FrameType(E, A))
  <2>1. Front(r) \in Seq(FrameType(E, A))
    BY <1>2, PopIs
  <2>2. CASE cs = <<>>
    BY <1>6, <2>1, <2>2 DEF Asked, Todo
  <2>3. CASE cs # <<>>
    BY <1>5, <1>6, <2>1, <2>3, PushTodoIs
  <2> QED
    BY <2>2, <2>3
<1> QED
  BY <1>1, <1>2, <1>3, <1>5, <1>6, <1>7

\* A stack of calls alone.
LEMMA CallsAlone ==
  ASSUME NEW E, NEW A, NEW cs \in Seq(CallType(E, A)), cs # <<>>, NEW r, r = <<>>, NEW q, q = Asked(r, cs)
  PROVE  /\ q # <<>> /\ Len(q) = 1 /\ q[1] = [f |-> "todo", todo |-> cs] /\ Len(cs) \in Nat \ {0}
         /\ \A s \in Slots(q) : \E j \in 1..Len(cs) : s = <<1, Len(cs) - j>> /\ CallOf(q, s) = cs[j]
         /\ <<1, 0>> \in Slots(q) /\ CallOf(q, <<1, 0>>) = cs[Len(cs)]
<1>1. PICK h, n : h = [f |-> "todo", todo |-> cs] /\ n = Len(cs)
  OBVIOUS
<1>2. r \in Seq(FrameType(E, A)) /\ Len(r) = 0 /\ n \in Nat \ {0}
  BY <1>1
<1>3. Slots(r) = {}
  BY NoSlots
<1>4. q \in Seq(FrameType(E, A)) /\ Topped(r, q, h) /\ NewSlots(r, q, cs)
  BY <1>1, <1>2, PushTodoIs
<1>5. Len(q) = 1 /\ q[1] = h
  <2>1. PICK k : k = Len(q)
    OBVIOUS
  <2>2. k = 0 + 1 /\ q[k] = h
    BY <1>2, <1>4, <2>1 DEF Topped
  <2> QED
    BY <2>1, <2>2
<1>6. \A s \in Slots(q) : \E j \in 1..Len(cs) : s = <<1, Len(cs) - j>> /\ CallOf(q, s) = cs[j]
  BY <1>2, <1>3, <1>4 DEF NewSlots
<1>7. <<1, 0>> \in Slots(q)
  <2>1. 1 \in 1..Len(q) /\ q[1].f = "todo" /\ 0 \in 0..Len(q[1].todo) - 1
    BY <1>1, <1>2, <1>5
  <2> QED
    BY <1>4, <2>1, SlotsAre
<1>8. CallOf(q, <<1, 0>>) = cs[Len(cs)]
  <2>1. n - 0 = n
    BY <1>2
  <2> QED
    BY <1>1, <1>5, <2>1 DEF CallOf
<1> QED
  BY <1>1, <1>2, <1>5, <1>6, <1>7, <1>8

\* ... and what follows it finds no animation of the queue that runs.
LEMMA StopOverOnPage ==
  ASSUME PageTypes, StopOver
  PROVE  PageTypes' /\ (PageCalm => PageCalm')
<1>1. FxOK(fx) /\ RunOK /\ QueuesOK(fx) /\ UNCHANGED <<fx, calls, threw, meddled>>
  BY DEF PageTypes, FxTypeOK, StopOver
<1>2. PICK E, A, r, q, x, w, cs, t : E = DOMAIN fx.el /\ A = 1..Len(fx.anim) /\ r = run /\ q = run' /\ x = fx /\ w = run[Len(run)] /\ cs = AfterWalk(w) /\ t = threw
  OBVIOUS
<1>3. /\ r # <<>> /\ r \in Seq(FrameType(E, A)) /\ w.f = "stop" /\ w \in FrameType(E, A) /\ w.i = 0
      /\ cs \in Seq(CallType(E, A)) /\ q = Asked(Front(r), cs) /\ q \in Seq(FrameType(E, A))
  BY <1>1, <1>2, StopOverIs
<1>4. PageTypes'
  BY <1>1, <1>2, <1>3, PageTypesStay DEF PageTypes, FxTypeOK, Elem
<1>5. ASSUME PageCalm PROVE PageCalm'
  <2>1. StackOK(x, r) /\ WalkOK(x, r) /\ TimersOK(x) /\ \A d \in E : x.el[d].inDocument => OneMover(x, r, t, d)
    BY <1>2, <1>5 DEF PageCalm, Movers, Elem
  <2>2. /\ Len(r) = 1 /\ r[1] = w /\ Front(r) = <<>> /\ Walking(r)
        /\ \A d : ~Finishing(r, d) /\ ~JustAsked(r, d) /\ Moving(x, r, d) = {<<0, b>> : b \in InQueue(x, d)}
    BY <1>2, <1>3, <2>1, WalkAlone
  <2>3. InTimers(x, w.i) = {}
    BY <1>3 DEF InTimers
  <2>4. /\ ThenOK(w.then, w.e)
        /\ w.then # <<>> => w.gotoEnd /\ (x.el[w.e].inDocument => x.el[w.e].finish /\ Queue(x, w.e) = <<>>)
        /\ x.el[w.e].inDocument /\ (Queue(x, w.e) = <<>> \/ ~w.gotoEnd \/ w.dequeue) => InQueue(x, w.e) = {}
    BY <2>1, <2>2, <2>3 DEF WalkOK
  <2>5. q = Asked(<<>>, cs)
    BY <1>3, <2>2
  <2>6. CASE cs = <<>>
    <3>1. q = <<>>
      BY <2>5, <2>6 DEF Asked, Todo
    <3>2. w.then = <<>> /\ ~w.dequeue /\ w.gotoEnd
      <4>1. <<DequeueCall(w.e)>> # <<>>
        OBVIOUS
      <4> QED
        BY <1>2, <2>6, <4>1 DEF AfterWalk
    <3>3. ASSUME NEW d \in E, x.el[d].inDocument
          PROVE  /\ \A a, b \in InQueue(x, d) : a = b
                 /\ InQueue(x, d) = {} \/ HasSentinel(x, d) \/ (Queue(x, d) = <<>> /\ t)
      <4>1. OneMover(x, r, t, d)
        BY <2>1, <3>3
      <4>2. /\ \A a, b \in InQueue(x, d) : a = b
            /\ InQueue(x, d) = {} \/ HasSentinel(x, d) \/ NoCalls(x, r, t, d)
        BY <2>2, <4>1, MoverParts
      <4>3. NoCalls(x, r, t, d) => InQueue(x, d) = {} \/ (Queue(x, d) = <<>> /\ t)
        BY <2>2, <2>4, <3>3 DEF NoCalls
      <4> QED
        BY <4>2, <4>3
    <3> QED
      BY <1>1, <1>2, <2>1, <3>1, <3>3, EmptyCalm
  <2>7. CASE cs # <<>>
    <3>1. /\ q # <<>> /\ Len(q) = 1 /\ q[1] = [f |-> "todo", todo |-> cs] /\ Len(cs) \in Nat \ {0}
          /\ \A s \in Slots(q) : \E j \in 1..Len(cs) : s = <<1, Len(cs) - j>> /\ CallOf(q, s) = cs[j]
          /\ <<1, 0>> \in Slots(q) /\ CallOf(q, <<1, 0>>) = cs[Len(cs)]
      BY <1>3, <2>5, <2>7, CallsAlone
    <3>2. ~Walking(q) /\ (\A i \in 2..Len(q) : FALSE) /\ q[1].f = "todo"
      <4>1. \A i \in 2..Len(q) : FALSE
        BY ONLY <3>1
      <4>2. q[1].f = "todo"
        BY <3>1
      <4> QED
        BY <4>1, <4>2 DEF Walking
    <3>3. WalkOK(x, q)
      BY <3>2 DEF WalkOK
    <3>4. CASE w.then # <<>>
      <4>1. cs = w.then /\ cs[Len(cs)] = FinishedCall(w.e) /\ \A j \in 1..Len(cs) - 1 : cs[j].op = "start" /\ cs[j].e = w.e
        BY <1>2, <2>4, <3>4 DEF AfterWalk, ThenOK
      <4>2. Finishing(q, w.e)
        BY <3>1, <4>1 DEF Finishing, Waits
      <4>3. \A s \in Slots(q) : (s = <<1, 0>> /\ CallOf(q, s) = FinishedCall(w.e)) \/ (CallOf(q, s).op = "start" /\ CallOf(q, s).e = w.e)
        <5>1. SUFFICES ASSUME NEW s \in Slots(q) PROVE (s = <<1, 0>> /\ CallOf(q, s) = FinishedCall(w.e)) \/ (CallOf(q, s).op = "start" /\ CallOf(q, s).e = w.e)
          OBVIOUS
        <5>2. PICK j \in 1..Len(cs) : s = <<1, Len(cs) - j>> /\ CallOf(q, s) = cs[j]
          BY <3>1, <5>1
        <5>3. CASE j = Len(cs)
          <6>1. Len(cs) - j = 0
            BY <3>1, <5>3
          <6> QED
            BY <4>1, <5>2, <5>3, <6>1
        <5>4. CASE j # Len(cs)
          <6>1. j \in 1..Len(cs) - 1
            BY <3>1, <5>2, <5>4
          <6> QED
            BY <4>1, <5>2, <6>1
        <5> QED
          BY <5>3, <5>4
      <4>4. FinishedCall(w.e).op = "finished" /\ \A d : FinishedCall(d).op = "finished" /\ FinishedCall(d).e = d
        BY DEF FinishedCall
      <4>5. StackOK(x, q)
        BY <3>2, <4>2, <4>3, <4>4 DEF StackOK
      <4>6. \A d : Moving(x, q, d) \subseteq Moving(x, r, d)
        <5>1. \A d, s : s \in Slots(q) => ~GoesOn(x, CallOf(q, s), d)
          BY <4>3, <4>4 DEF GoesOn, DequeueCall
        <5> QED
          BY <2>2, <5>1 DEF Moving
      <4>7. \A d : Finishing(q, d) => d = w.e
        BY <4>3, <4>4 DEF Finishing, Waits
      <4>8. ASSUME NEW d \in E, x.el[d].inDocument PROVE OneMover(x, q, t, d)
        <5>1. CASE d = w.e
          BY <2>4, <3>4, <4>2, <4>8, <5>1 DEF OneMover
        <5>2. CASE d # w.e
          <6>1. OneMover(x, r, t, d)
            BY <2>1, <4>8
          <6>2. NoCalls(x, r, t, d) => NoCalls(x, q, t, d)
            BY <2>2, <5>2 DEF NoCalls
          <6>3. Passes(x, r, x, q, d) /\ ~Finishing(q, d)
            BY <4>6, <4>7, <5>2 DEF Passes
          <6> QED
            BY <2>2, <6>1, <6>2, <6>3, MoverGoesOn
        <5> QED
          BY <5>1, <5>2
      <4> QED
        BY <1>1, <1>2, <2>1, <3>3, <4>5, <4>8 DEF PageCalm, Movers, Elem
    <3>5. CASE w.then = <<>>
      <4>1. cs = <<DequeueCall(w.e)>> /\ (w.dequeue \/ ~w.gotoEnd)
        BY <1>2, <2>7, <3>5 DEF AfterWalk
      <4>2. \A s \in Slots(q) : s = <<1, 0>> /\ CallOf(q, s) = DequeueCall(w.e)
        <5>1. PICK c : c = DequeueCall(w.e)
          OBVIOUS
        <5>2. cs = <<c>>
          BY <4>1, <5>1
        <5>3. Len(cs) = 1 /\ cs[1] = c
          BY ONLY <5>2
        <5>4. \A j \in 1..Len(cs) : Len(cs) - j = 0 /\ cs[j] = c
          BY ONLY <5>3
        <5> QED
          BY <3>1, <5>1, <5>4
      <4>3. JustAsked(q, w.e)
        BY <3>1, <4>1 DEF JustAsked
      <4>4. DequeueCall(w.e).op = "dequeue" /\ \A d : DequeueCall(d).op = "dequeue" /\ DequeueCall(d).e = d
        BY DEF DequeueCall
      <4>5. StackOK(x, q)
        BY <3>2, <4>2, <4>4 DEF StackOK
      <4>6. \A d : ~Finishing(q, d)
        BY <4>2, <4>4 DEF Finishing, Waits, FinishedCall
      <4>7. ASSUME NEW d \in E, x.el[d].inDocument PROVE OneMover(x, q, t, d)
        <5>1. CASE d = w.e
          <6>1. InQueue(x, d) = {}
            BY <2>4, <4>1, <4>7, <5>1
          <6>2. \A m \in Moving(x, q, d) : m = <<1, 0>>
            BY <4>2, <6>1 DEF Moving
          <6> QED
            BY <4>3, <4>6, <5>1, <6>2 DEF OneMover, AtMostOne
        <5>2. CASE d # w.e
          <6>1. OneMover(x, r, t, d)
            BY <2>1, <4>7
          <6>2. NoCalls(x, r, t, d) => NoCalls(x, q, t, d)
            BY <2>2, <5>2 DEF NoCalls
          <6>3. Moving(x, q, d) \subseteq Moving(x, r, d)
            <7>1. \A s \in Slots(q) : ~GoesOn(x, CallOf(q, s), d)
              BY <4>2, <4>4, <5>2 DEF GoesOn
            <7> QED
              BY <2>2, <7>1 DEF Moving
          <6>4. Passes(x, r, x, q, d)
            BY <6>3 DEF Passes
          <6> QED
            BY <2>2, <4>6, <6>1, <6>2, <6>4, MoverGoesOn
        <5> QED
          BY <5>1, <5>2
      <4> QED
        BY <1>1, <1>2, <2>1, <3>3, <4>5, <4>7 DEF PageCalm, Movers, Elem
    <3> QED
      BY <3>4, <3>5
  <2> QED
    BY <2>6, <2>7
<1> QED
  BY <1>4, <1>5

-----------------------------------------------------------------------------
(***************************************************************************)
(* What the page calls.                                                    *)
(***************************************************************************)

\* q is r and call c.
AsksFor(r, q, c) ==
  /\ Len(r) \in Nat /\ Len(q) = Len(r) + 1 /\ Keeps(r, q)
  /\ q[Len(q)] = [f |-> "todo", todo |-> <<c>>] /\ \A i \in 1..Len(r) : q[i] = r[i]
  /\ \E n : \A s \in Slots(q) : s \in Slots(r) \/ (s = n /\ CallOf(q, s) = c)

\* One call is pushed.
LEMMA AskOne ==
  ASSUME NEW E, NEW A, NEW r \in Seq(FrameType(E, A)), NEW c \in CallType(E, A), NEW q, q = Asked(r, <<c>>)
  PROVE  q \in Seq(FrameType(E, A)) /\ AsksFor(r, q, c)
<1>1. PICK cs, h : cs = <<c>> /\ h = [f |-> "todo", todo |-> <<c>>]
  OBVIOUS
<1>2. cs \in Seq(CallType(E, A)) /\ cs # <<>>
  BY <1>1
<1>3. /\ q \in Seq(FrameType(E, A)) /\ Len(r) \in Nat /\ Topped(r, q, [f |-> "todo", todo |-> cs])
      /\ Keeps(r, q) /\ NewSlots(r, q, cs)
  BY <1>1, <1>2, PushTodoIs
<1>4. Len(q) = Len(r) + 1 /\ q[Len(q)] = h /\ \A i \in 1..Len(r) : q[i] = r[i]
  BY <1>1, <1>3 DEF Topped
<1>5. Len(cs) = 1 /\ cs[1] = c
  BY ONLY <1>1
<1>6. \A j \in 1..Len(cs) : Len(cs) - j = 0 /\ cs[j] = c
  BY ONLY <1>5
<1>7. \A s \in Slots(q) : s \in Slots(r) \/ (s = <<Len(r) + 1, 0>> /\ CallOf(q, s) = c)
  BY <1>3, <1>6 DEF NewSlots
<1>8. \E n : \A s \in Slots(q) : s \in Slots(r) \/ (s = n /\ CallOf(q, s) = c)
  BY ONLY <1>7
<1> QED
  BY <1>1, <1>3, <1>4, <1>8 DEF AsksFor

\* Nothing walks: the stack that an animation leaves.
LEMMA AskedCalm ==
  ASSUME NEW x, FxOK(x), NEW E, NEW A, NEW r \in Seq(FrameType(E, A)), StackOK(x, r), TimersOK(x),
         \A i \in 1..Len(r) : r[i].f # "stop", NEW y, y.anim = x.anim, y.timers = x.timers,
         NEW c \in CallType(E, A), NEW q, q = r \/ q = Asked(r, <<c>>),
         c.op = "dequeue" \/ (c.op = "start" /\ ~c.item.queued)
  PROVE  /\ StackOK(y, q) /\ WalkOK(y, q) /\ TimersOK(y) /\ \A d : Finishing(q, d) <=> Finishing(r, d)
         /\ \A i \in 1..Len(q) : q[i].f # "stop"
<1>1. TimersOK(y)
  BY DEF TimersOK, InTimers
<1>2. CASE q = r
  <2>1. StackOK(y, q)
    BY <1>2 DEF StackOK
  <2>2. ~Walking(q)
    <3>1. r # <<>> => 1 \in 1..Len(r)
      OBVIOUS
    <3> QED
      BY <1>2, <3>1 DEF Walking
  <2> QED
    BY <1>1, <1>2, <2>1, <2>2 DEF WalkOK
<1>3. CASE q = Asked(r, <<c>>)
  <2>0. AsksFor(r, q, c)
    BY <1>3, AskOne
  <2>1. PICK n : \A s \in Slots(q) : s \in Slots(r) \/ (s = n /\ CallOf(q, s) = c)
    BY <2>0 DEF AsksFor
  <2>2. /\ Len(r) \in Nat /\ Len(q) = Len(r) + 1 /\ Keeps(r, q)
        /\ q[Len(q)] = [f |-> "todo", todo |-> <<c>>] /\ \A i \in 1..Len(r) : q[i] = r[i]
    BY <2>0 DEF AsksFor
  <2>3. \A i \in 1..Len(q) : i = Len(r) + 1 \/ i \in 1..Len(r)
    BY <2>2
  <2>4. q[Len(r) + 1].f = "todo"
    BY <2>2
  <2>5. (\A i \in 1..Len(q) : q[i].f # "stop") /\ \A i \in 2..Len(q) : q[i].f \in {"todo", "fn"}
    <3>1. \A i \in 1..Len(q) : q[i].f # "stop"
      BY <2>2, <2>3, <2>4
    <3>2. \A i \in 2..Len(q) : i = Len(r) + 1 \/ i \in 2..Len(r)
      BY <2>2
    <3>3. \A i \in 2..Len(r) : i \in 1..Len(r) /\ r[i].f \in {"todo", "fn"}
      BY DEF StackOK
    <3> QED
      BY <2>2, <2>4, <3>1, <3>2, <3>3
  <2>6. q # <<>> /\ 1 \in 1..Len(q) /\ (q[1].f = "tick" => r # <<>> /\ q[1] = r[1])
    <3>1. CASE r = <<>>
      <4>1. Len(r) + 1 = 1
        BY <3>1
      <4>2. q[1].f = "todo"
        BY <2>4, <4>1
      <4> QED
        BY <2>2, <4>1, <4>2
    <3>2. CASE r # <<>>
      <4>1. 1 \in 1..Len(r)
        BY <2>2, <3>2
      <4> QED
        BY <2>2, <3>2, <4>1
    <3> QED
      BY <3>1, <3>2
  <2>7. WalkOK(y, q)
    BY <2>5, <2>6 DEF WalkOK, Walking
  <2>8. \A d : Finishing(q, d) <=> Finishing(r, d)
    BY <2>1, <2>2 DEF Finishing, Waits, FinishedCall, Keeps
  <2>9. StackOK(y, q)
    <3>1. q # <<>> /\ q[1].f = "tick" /\ q[1].over # 0 => y.anim[q[1].over].state # "pending"
      BY <2>6 DEF StackOK
    <3>2. ASSUME NEW s \in Slots(q)
          PROVE  /\ CallOf(q, s).op = "finished" => s = <<1, 0>>
                 /\ CallOf(q, s).op = "start" => ~CallOf(q, s).item.queued \/ Finishing(q, CallOf(q, s).e)
                 /\ CallOf(q, s).op # "insert"
      <4>1. CASE s \in Slots(r)
        <5>1. PICK k : k = CallOf(r, s)
          OBVIOUS
        <5>2. CallOf(q, s) = k
          BY <2>2, <4>1, <5>1 DEF Keeps
        <5>3. /\ k.op = "finished" => s = <<1, 0>>
              /\ k.op = "start" => ~k.item.queued \/ Finishing(r, k.e)
              /\ k.op # "insert"
          BY <4>1, <5>1 DEF StackOK
        <5> QED
          BY <2>8, <5>2, <5>3
      <4>2. CASE CallOf(q, s) = c
        BY <4>2
      <4> QED
        BY <2>1, <3>2, <4>1, <4>2
    <3> QED
      BY <2>5, <3>1, <3>2 DEF StackOK
  <2> QED
    BY <1>1, <2>5, <2>7, <2>8, <2>9
<1> QED
  BY <1>2, <1>3

\* The page animates.
LEMMA AnimateCalm ==
  ASSUME PageTypes, PageCalm, PageRuns, ~threw, threw' = threw, \A i \in 1..Len(run) : run[i].f # "stop",
         DOMAIN fx'.el = Elem, fx'.anim = fx.anim, fx'.timers = fx.timers, NEW e \in Elem, Only(fx, fx', e),
         SameMarks(fx.el[e], fx'.el[e]), HasSentinel(fx, e) => HasSentinel(fx', e),
         NEW c \in CallType(Elem, 1..Len(fx.anim)),
         c = DequeueCall(e) \/ (c.op = "start" /\ ~c.item.queued),
         run' = run \/ (run' = Asked(run, <<c>>) /\ (c = DequeueCall(e) => ~HasSentinel(fx, e)))
  PROVE  PageCalm'
<1>1. PICK E, A, r, q, x, y, t : E = DOMAIN fx.el /\ A = 1..Len(fx.anim) /\ r = run /\ q = run' /\ x = fx /\ y = fx' /\ t = threw
  OBVIOUS
<1>2. FxOK(x) /\ r \in Seq(FrameType(E, A))
  BY <1>1 DEF PageTypes, FxTypeOK, RunOK
<1>3. StackOK(x, r) /\ TimersOK(x) /\ \A d \in E : x.el[d].inDocument => OneMover(x, r, t, d)
  BY <1>1 DEF PageCalm, Movers, Elem
<1>4. c.op = "dequeue" \/ (c.op = "start" /\ ~c.item.queued)
  BY DEF DequeueCall
<1>5. \A i \in 1..Len(r) : r[i].f # "stop"
  BY <1>1
<1>6. y.anim = x.anim /\ y.timers = x.timers /\ c \in CallType(E, A)
  BY <1>1 DEF Elem
<1>7. q = r \/ q = Asked(r, <<c>>)
  BY <1>1
<1>8. /\ StackOK(y, q) /\ WalkOK(y, q) /\ TimersOK(y) /\ \A d : Finishing(q, d) <=> Finishing(r, d)
  BY ONLY <1>2, <1>3, <1>4, <1>5, <1>6, <1>7, AskedCalm
<1>9. ~Walking(r) /\ \A d : ~JustAsked(r, d) /\ ~NoCalls(x, r, t, d)
  <2>1. r # <<>> => 1 \in 1..Len(r)
    BY <1>2
  <2>2. ~Walking(r)
    BY <1>5, <2>1 DEF Walking
  <2>3. r # <<>> => r[Len(r)].f = "fn"
    BY <1>1 DEF PageRuns, Top
  <2> QED
    BY <1>1, <2>2, <2>3 DEF JustAsked, NoCalls
<1>10. \A d \in E : y.el[d].inDocument = x.el[d].inDocument /\ y.el[d].finish = x.el[d].finish /\ (HasSentinel(x, d) => HasSentinel(y, d))
  <2>1. SUFFICES ASSUME NEW d \in E
                 PROVE y.el[d].inDocument = x.el[d].inDocument /\ y.el[d].finish = x.el[d].finish /\ (HasSentinel(x, d) => HasSentinel(y, d))
    OBVIOUS
  <2>2. CASE d = e
    BY <1>1, <2>2 DEF SameMarks
  <2>3. CASE d # e
    <3>1. y.el[d] = x.el[d]
      BY <1>1, <2>3 DEF Only
    <3> QED
      BY <3>1 DEF HasSentinel, Queue
  <2> QED
    BY <2>2, <2>3
<1>11. \A d : InQueue(y, d) = InQueue(x, d) /\ \A k : GoesOn(y, k, d) <=> GoesOn(x, k, d)
  BY <1>6 DEF InQueue, GoesOn
<1>12. ASSUME q = r \/ c.op = "start", NEW d PROVE Moving(y, q, d) \subseteq Moving(x, r, d)
  <2>1. CASE q = r
    BY <1>11, <2>1 DEF Moving
  <2>2. CASE q = Asked(r, <<c>>) /\ c.op = "start"
    <3>0. AsksFor(r, q, c)
      BY <1>2, <1>6, <2>2, AskOne
    <3>1. PICK n : \A s \in Slots(q) : s \in Slots(r) \/ (s = n /\ CallOf(q, s) = c)
      BY <3>0 DEF AsksFor
    <3>2. Keeps(r, q)
      BY <3>0 DEF AsksFor
    <3>3. ~GoesOn(x, c, d)
      BY <2>2 DEF GoesOn, DequeueCall
    <3> QED
      BY <1>11, <3>1, <3>2, <3>3 DEF Moving, Keeps
  <2> QED
    BY <1>7, <1>12, <2>1, <2>2
<1>13. ASSUME NEW d \in E, y.el[d].inDocument PROVE OneMover(y, q, t, d)
  <2>1. OneMover(x, r, t, d)
    BY <1>3, <1>10, <1>13
  <2>2. ASSUME Moving(y, q, d) \subseteq Moving(x, r, d) PROVE OneMover(y, q, t, d)
    <3>1. Passes(x, r, y, q, d)
      BY <2>2 DEF Passes
    <3> QED
      BY <1>8, <1>9, <1>10, <1>11, <2>1, <3>1, MoverGoesOn
  <2>3. CASE q = r \/ c.op = "start"
    BY <1>12, <2>2, <2>3
  <2>4. CASE q = Asked(r, <<c>>) /\ c = DequeueCall(e)
    <3>0. AsksFor(r, q, c)
      BY <1>2, <1>6, <2>4, AskOne
    <3>1. PICK n : \A s \in Slots(q) : s \in Slots(r) \/ (s = n /\ CallOf(q, s) = c)
      BY <3>0 DEF AsksFor
    <3>2. Keeps(r, q) /\ q[Len(q)] = [f |-> "todo", todo |-> <<c>>] /\ Len(q) = Len(r) + 1 /\ Len(r) \in Nat
      BY <3>0 DEF AsksFor
    <3>3. \A m \in Moving(y, q, d) : m \in Moving(x, r, d) \/ m = n
      BY <1>11, <3>1, <3>2 DEF Moving, Keeps
    <3>4. CASE d # e
      <4>1. ~GoesOn(x, c, d)
        BY <2>4, <3>4 DEF GoesOn, DequeueCall
      <4>2. Moving(y, q, d) \subseteq Moving(x, r, d)
        BY <1>11, <3>1, <3>2, <4>1 DEF Moving, Keeps
      <4> QED
        BY <2>2, <4>2
    <3>5. CASE d = e /\ Finishing(r, e)
      BY <1>8, <1>10, <1>11, <2>1, <3>5 DEF OneMover
    <3>6. CASE d = e /\ ~Finishing(r, e)
      <4>1. CASE q = r
        BY <2>3, <4>1
      <4>2. CASE q # r
        <5>1. ~HasSentinel(x, e)
          BY <1>1, <2>4, <4>2
        <5>2. Moving(x, r, d) = {}
          BY <1>9, <2>1, <3>6, <5>1 DEF OneMover
        <5>3. AtMostOne(y, q, d)
          BY <3>3, <5>2 DEF AtMostOne
        <5>4. JustAsked(q, d)
          <6>1. q # <<>>
            BY <3>2
          <6> QED
            BY <2>4, <3>2, <3>6, <6>1 DEF JustAsked
        <5> QED
          BY <1>8, <3>6, <5>3, <5>4 DEF OneMover
      <4> QED
        BY <4>1, <4>2
    <3> QED
      BY <3>4, <3>5, <3>6
  <2> QED
    BY <1>1, <1>7, <2>3, <2>4
<1> QED
  BY <1>1, <1>8, <1>13 DEF PageCalm, Movers, Elem

\* stop or finish begins to walk.
LEMMA WalkBegins ==
  ASSUME PageTypes, PageCalm, run = <<>>, ~threw, threw' = threw, FxOK(fx'), DOMAIN fx'.el = Elem,
         fx'.anim = fx.anim, fx'.timers = fx.timers, NEW e \in Elem, Only(fx, fx', e),
         fx'.el[e].inDocument = fx.el[e].inDocument, Queue(fx', e) = Queue(fx, e) \/ Queue(fx', e) = <<>>,
         NEW gotoEnd \in BOOLEAN, NEW dequeue \in BOOLEAN, NEW then, ThenOK(then, e),
         then # <<>> => gotoEnd /\ fx'.el[e].finish /\ Queue(fx', e) = <<>>,
         NEW g, g = StopFrame(e, Len(fx.timers), gotoEnd, dequeue, then), run' = <<g>>
  PROVE  PageCalm'
<1>1. PICK E, r, q, x, y, t : E = DOMAIN fx.el /\ r = run /\ q = run' /\ x = fx /\ y = fx' /\ t = threw
  OBVIOUS
<1>2. FxOK(x) /\ r = <<>> /\ q = <<g>>
  BY <1>1 DEF PageTypes, FxTypeOK
<1>3. TimersOK(x) /\ \A d \in E : x.el[d].inDocument => OneMover(x, r, t, d)
  BY <1>1 DEF PageCalm, Movers, Elem
<1>4. Len(q) = 1 /\ q[1] = g /\ q # <<>>
  BY <1>2
<1>5. /\ g.f = "stop" /\ g.e = e /\ g.i = Len(x.timers) /\ g.gotoEnd = gotoEnd /\ g.dequeue = dequeue
      /\ ~g.splice /\ g.then = then
  BY <1>1 DEF StopFrame
<1>6. \A i \in 2..Len(q) : FALSE
  BY ONLY <1>4
<1>7. Slots(q) = {}
  <2>1. \A i \in 1..Len(q) : i = 1
    BY ONLY <1>4
  <2>2. {i \in 1..Len(q) : q[i].f = "todo"} = {}
    BY <1>4, <1>5, <2>1
  <2> QED
    BY <2>2 DEF Slots
<1>8. Slots(r) = {} /\ ~Walking(r) /\ \A d : ~JustAsked(r, d) /\ ~Finishing(r, d) /\ ~Finishing(q, d)
  <2>1. Slots(r) = {}
    BY <1>2, NoSlots
  <2> QED
    BY <1>2, <1>7, <2>1 DEF Walking, JustAsked, Finishing, Waits
<1>9. TimersOK(y)
  BY <1>1, <1>3 DEF TimersOK, InTimers
<1>10. StackOK(y, q)
  BY <1>4, <1>5, <1>6, <1>7 DEF StackOK
<1>11. WalkOK(y, q)
  <2>1. \A d : InQueue(y, d) \subseteq InTimers(y, Len(x.timers))
    BY <1>1, <1>9 DEF TimersOK, InQueue
  <2>2. Len(x.timers) \in Nat
    BY <1>2, FxParts
  <2>3. g.i <= Len(y.timers)
    BY <1>1, <1>5, <2>2
  <2>4. then # <<>> => gotoEnd /\ y.el[e].finish /\ Queue(y, e) = <<>>
    BY <1>1
  <2> QED
    BY <1>4, <1>5, <1>6, <2>1, <2>3, <2>4 DEF WalkOK
<1>12. Walking(q)
  BY <1>4, <1>5 DEF Walking
<1>13. ASSUME NEW d \in E, y.el[d].inDocument PROVE OneMover(y, q, t, d)
  <2>1. x.el[d].inDocument
    BY <1>1, <1>13 DEF Only
  <2>2. OneMover(x, r, t, d) /\ ~NoCalls(x, r, t, d)
    BY <1>1, <1>3, <1>8, <2>1 DEF NoCalls
  <2>3. Moving(y, q, d) = Moving(x, r, d)
    BY <1>1, <1>7, <1>8 DEF Moving, InQueue
  <2>4. AtMostOne(y, q, d) /\ (Moving(x, r, d) = {} \/ HasSentinel(x, d))
    BY <1>8, <2>2, <2>3 DEF OneMover, AtMostOne
  <2>5. HasSentinel(x, d) => HasSentinel(y, d) \/ NoCalls(y, q, t, d)
    <3>1. CASE d # e
      <4>1. y.el[d] = x.el[d]
        BY <1>1, <3>1 DEF Only
      <4> QED
        BY <4>1 DEF HasSentinel, Queue
    <3>2. CASE d = e
      BY <1>1, <1>4, <1>5, <1>12, <3>2 DEF HasSentinel, NoCalls
    <3> QED
      BY <3>1, <3>2
  <2> QED
    BY <1>8, <2>3, <2>4, <2>5 DEF OneMover
<1> QED
  BY <1>1, <1>9, <1>10, <1>11, <1>13 DEF PageCalm, Movers, Elem

\* What the page has when it calls the library.
LEMMA SpendIs ==
  ASSUME PageTypes, Spend
  PROVE  /\ PageRuns /\ ~threw /\ threw' = threw /\ calls' \in Nat /\ (threw' => calls' = 0) /\ threw' \in BOOLEAN
         /\ FxOK(fx) /\ QueuesOK(fx) /\ run \in Seq(FrameType(Elem, 1..Len(fx.anim))) /\ DOMAIN fx.el = Elem
         /\ meddled \in BOOLEAN
  BY DEF PageTypes, FxTypeOK, Spend, RunOK, Elem

\* An element is removed.
LEMMA RemoveOnPage ==
  ASSUME PageTypes, NEW e \in Elem, Spend, fx' = Removed(fx, e), UNCHANGED <<run, meddled>>
  PROVE  PageTypes' /\ (PageCalm => PageCalm')
<1>1. PICK E, r, x, y, t : E = DOMAIN fx.el /\ r = run /\ x = fx /\ y = fx' /\ t = threw
  OBVIOUS
<1>2. FxOK(x) /\ QueuesOK(x) /\ e \in DOMAIN x.el /\ y = Removed(x, e)
  BY <1>1, SpendIs DEF Elem
<1>3. /\ FxOK(y) /\ Only(x, y, e) /\ y.anim = x.anim /\ y.timers = x.timers
      /\ ~y.el[e].inDocument /\ y.el[e].queue = Nothing
  BY <1>2, RemovedIs
<1>4. DOMAIN y.el = E /\ \A d \in E \ {e} : y.el[d] = x.el[d]
  BY <1>1, <1>3 DEF Only
<1>5. QueuesOK(y)
  <2>1. Queue(y, e) = <<>>
    BY <1>3 DEF Queue
  <2>2. \A d \in E \ {e} : Queue(y, d) = Queue(x, d)
    BY <1>4 DEF Queue
  <2>3. \A j \in 1..Len(Queue(y, e)) : FALSE
    BY <2>1
  <2> QED
    BY <1>1, <1>2, <1>4, <2>2, <2>3 DEF QueuesOK
<1>6. PageTypes'
  <2>1. run' \in Seq(FrameType(DOMAIN fx'.el, 1..Len(fx'.anim))) /\ DOMAIN fx'.el = Elem
    BY <1>1, <1>3, <1>4, SpendIs DEF Elem
  <2>2. meddled' \in BOOLEAN /\ FxOK(fx') /\ QueuesOK(fx') /\ calls' \in Nat /\ threw' \in BOOLEAN /\ (threw' => calls' = 0)
    BY <1>1, <1>3, <1>5, SpendIs
  <2> QED
    BY <2>1, <2>2, PageTypesStay
<1>7. ASSUME PageCalm PROVE PageCalm'
  <2>1. StackOK(x, r) /\ WalkOK(x, r) /\ TimersOK(x) /\ \A d \in E : x.el[d].inDocument => OneMover(x, r, t, d)
    BY <1>1, <1>7 DEF PageCalm, Movers, Elem
  <2>2. TimersOK(y) /\ StackOK(y, r)
    BY <1>3, <2>1 DEF TimersOK, InTimers, StackOK
  <2>3. WalkOK(y, r)
    <3>1. SUFFICES ASSUME Walking(r) PROVE WalkOK(y, r)
      BY DEF WalkOK
    <3>2. r[1].e \in E
      <4>1. r \in Seq(FrameType(E, 1..Len(x.anim))) /\ r # <<>>
        BY <1>1, <3>1, SpendIs DEF Elem, Walking
      <4>2. r[1] \in FrameType(E, 1..Len(x.anim))
        BY <4>1
      <4> QED
        BY <3>1, <4>2, StopTyped DEF Walking
    <3>3. y.el[r[1].e].inDocument => y.el[r[1].e] = x.el[r[1].e] /\ Queue(y, r[1].e) = Queue(x, r[1].e)
      BY <1>3, <1>4, <3>2 DEF Queue
    <3>4. InQueue(y, r[1].e) = InQueue(x, r[1].e) /\ \A i : InTimers(y, i) = InTimers(x, i)
      BY <1>3 DEF InQueue, InTimers
    <3> QED
      BY <1>3, <2>1, <3>1, <3>3, <3>4 DEF WalkOK
  <2>4. ASSUME NEW d \in E, y.el[d].inDocument PROVE OneMover(y, r, t, d)
    <3>1. y.el[d] = x.el[d]
      BY <1>3, <1>4, <2>4
    <3>2. OneMover(x, r, t, d)
      BY <2>1, <2>4, <3>1
    <3>3. Moving(y, r, d) = Moving(x, r, d) /\ InQueue(y, d) = InQueue(x, d)
      BY <1>3 DEF Moving, InQueue, GoesOn
    <3>4. (HasSentinel(x, d) => HasSentinel(y, d)) /\ (NoCalls(x, r, t, d) => NoCalls(y, r, t, d))
      BY <3>1 DEF HasSentinel, NoCalls, Queue
    <3> QED
      BY <3>1, <3>2, <3>3, <3>4 DEF OneMover, AtMostOne
  <2>5. threw' = threw
    BY SpendIs
  <2> QED
    BY <1>1, <1>4, <2>2, <2>3, <2>4, <2>5 DEF PageCalm, Movers, Elem
<1> QED
  BY <1>6, <1>7

\* animate, on the queue or beside it.
LEMMA AnimateOnPage ==
  ASSUME PageTypes, NEW e \in Elem, NEW what \in Scripted, NEW queued \in BOOLEAN,
         Spend, Animated(e, what, queued, run), StopMeddles
  PROVE  PageTypes' /\ (~meddled' => ~meddled) /\ (~meddled' /\ PageCalm => PageCalm')
<1>1. PICK x, y, r, q, E, A : x = fx /\ y = fx' /\ r = run /\ q = run' /\ E = DOMAIN fx.el /\ A = 1..Len(fx.anim)
  OBVIOUS
<1>2. /\ PageRuns /\ ~threw /\ threw' = threw /\ FxOK(x) /\ QueuesOK(x) /\ r \in Seq(FrameType(E, A)) /\ e \in E
      /\ calls' \in Nat /\ threw' \in BOOLEAN /\ (threw' => calls' = 0)
  BY <1>1, SpendIs DEF Elem
<1>3. meddled' \in BOOLEAN /\ (~meddled' => ~meddled /\ \A i \in DOMAIN run : run[i].f # "stop")
  BY SpendIs DEF StopMeddles
<1>4. DOMAIN r = 1..Len(r)
  BY <1>2
<1>5. \A d \in E : DequeueCall(d) \in CallType(E, A)
  BY DEF DequeueCall, CallType
<1>6. what \in Whats
  BY DEF Whats
<1>7. CASE queued
  <2>1. Animated(e, what, TRUE, run)
    BY <1>7
  <2>2. PICK c : c = DequeueCall(e)
    OBVIOUS
  <2>3. /\ FxOK(y) /\ QueuesOK(y) /\ Only(x, y, e) /\ y.anim = x.anim /\ y.timers = x.timers
        /\ SameMarks(x.el[e], y.el[e])
        /\ \/ HasSentinel(x, e) /\ HasSentinel(y, e) /\ q = r
           \/ ~HasSentinel(x, e) /\ q = Asked(r, <<c>>)
    BY <1>1, <1>2, <1>6, <2>1, <2>2, AnimatedIs DEF Elem
  <2>4. c \in CallType(E, A)
    BY <1>2, <1>5, <2>2
  <2>5. q \in Seq(FrameType(E, A))
    BY <1>2, <2>3, <2>4, AskOne
  <2>6. DOMAIN y.el = E
    BY <1>1, <2>3 DEF Only
  <2>7. PageTypes'
    BY <1>1, <1>2, <1>3, <2>3, <2>5, <2>6, PageTypesStay DEF Elem
  <2>8. ASSUME ~meddled', PageCalm PROVE PageCalm'
    <3>1. \A i \in 1..Len(run) : run[i].f # "stop"
      BY <1>1, <1>3, <1>4, <2>8
    <3>2. DOMAIN fx'.el = Elem /\ c \in CallType(Elem, 1..Len(fx.anim))
      BY <1>1, <2>4, <2>6 DEF Elem
    <3>3. run' = run \/ (run' = Asked(run, <<c>>) /\ (c = DequeueCall(e) => ~HasSentinel(fx, e)))
      BY <1>1, <2>3
    <3>4. /\ fx'.anim = fx.anim /\ fx'.timers = fx.timers /\ Only(fx, fx', e) /\ SameMarks(fx.el[e], fx'.el[e])
          /\ (HasSentinel(fx, e) => HasSentinel(fx', e))
      BY <1>1, <2>3
    <3> QED
      BY <1>2, <2>2, <2>8, <3>1, <3>2, <3>3, <3>4, AnimateCalm
  <2> QED
    BY <1>3, <2>7, <2>8
<1>8. CASE ~queued
  <2>1. PICK item, c : item = [what |-> what, queued |-> queued] /\ c = StartCall(e, item)
    OBVIOUS
  <2>2. y = x /\ q = Asked(r, <<c>>)
    BY <1>1, <1>8, <2>1 DEF Animated, Asked
  <2>3. item \in ItemType /\ ~item.queued
    BY <1>6, <1>8, <2>1 DEF ItemType
  <2>4. c \in CallType(E, A) /\ c.op = "start" /\ ~c.item.queued
    BY <1>2, <2>1, <2>3 DEF StartCall, CallType
  <2>5. q \in Seq(FrameType(E, A))
    BY <1>2, <2>2, <2>4, AskOne
  <2>6. PageTypes'
    BY <1>1, <1>2, <1>3, <2>2, <2>5, PageTypesStay DEF Elem
  <2>7. ASSUME ~meddled', PageCalm PROVE PageCalm'
    <3>1. \A i \in 1..Len(run) : run[i].f # "stop"
      BY <1>1, <1>3, <1>4, <2>7
    <3>2. DOMAIN fx'.el = Elem /\ c \in CallType(Elem, 1..Len(fx.anim))
      BY <1>1, <2>2, <2>4 DEF Elem
    <3>3. Only(fx, fx', e) /\ SameMarks(fx.el[e], fx'.el[e]) /\ (HasSentinel(fx, e) => HasSentinel(fx', e))
      BY <1>1, <2>2 DEF Only, SameMarks
    <3>4. c # DequeueCall(e)
      BY <2>4 DEF DequeueCall
    <3> QED
      BY <1>1, <1>2, <2>2, <2>4, <2>7, <3>1, <3>2, <3>3, <3>4, AnimateCalm
  <2> QED
    BY <1>3, <2>6, <2>7
<1> QED
  BY <1>7, <1>8

\* The frame of a walk that begins.
LEMMA StopFrameIs ==
  ASSUME NEW E, NEW A, NEW e \in E, NEW i \in Nat, NEW gotoEnd \in BOOLEAN, NEW dequeue \in BOOLEAN,
         NEW then \in Seq(CallType(E, A))
  PROVE  StopFrame(e, i, gotoEnd, dequeue, then) \in FrameType(E, A)
  BY DEF StopFrame, FrameType

\* A walk begins: types, and what is on the stack when the page does not meddle.
LEMMA WalkTypes ==
  ASSUME PageTypes, Spend, Meddles, FxOK(fx'), QueuesOK(fx'), DOMAIN fx'.el = Elem, fx'.anim = fx.anim,
         NEW g \in FrameType(Elem, 1..Len(fx.anim)), run' = Append(run, g)
  PROVE  PageTypes' /\ (~meddled' => ~meddled /\ run = <<>> /\ run' = <<g>>)
<1>1. /\ run \in Seq(FrameType(Elem, 1..Len(fx.anim))) /\ calls' \in Nat /\ threw' \in BOOLEAN /\ (threw' => calls' = 0)
  BY SpendIs
<1>2. run' \in Seq(FrameType(DOMAIN fx'.el, 1..Len(fx'.anim)))
  BY <1>1
<1>3. meddled' \in BOOLEAN /\ (~meddled' => ~meddled /\ run = <<>>)
  BY SpendIs DEF Meddles
<1>4. PageTypes'
  BY <1>1, <1>2, <1>3, PageTypesStay
<1>5. Append(<<>>, g) = <<g>>
  OBVIOUS
<1> QED
  BY <1>3, <1>4, <1>5

\* stop is called.
LEMMA StopOnPage ==
  ASSUME PageTypes, NEW e \in Elem, NEW clearQueue \in BOOLEAN, NEW gotoEnd \in BOOLEAN, Spend, StopAll(e, clearQueue, gotoEnd)
  PROVE  PageTypes' /\ (~meddled' => ~meddled) /\ (~meddled' /\ PageCalm => PageCalm')
<1>1. PICK x, y, E, A, g : x = fx /\ y = fx' /\ E = DOMAIN fx.el /\ A = 1..Len(fx.anim) /\ g = StopFrame(e, Len(fx.timers), gotoEnd, TRUE, <<>>)
  OBVIOUS
<1>2. FxOK(x) /\ QueuesOK(x) /\ e \in DOMAIN x.el /\ Meddles /\ run' = Append(run, g) /\ ~threw /\ threw' = threw
  BY <1>1, SpendIs DEF Elem, StopAll
<1>3. /\ FxOK(y) /\ Only(x, y, e) /\ y.anim = x.anim /\ y.timers = x.timers /\ y.el[e].inDocument = x.el[e].inDocument
      /\ Queue(y, e) = Queue(x, e) \/ Queue(y, e) = <<>>
  <2>1. CASE ~clearQueue
    <3>1. y = x
      BY <1>1, <2>1 DEF StopAll
    <3> QED
      BY <1>2, <3>1 DEF Only
  <2>2. CASE clearQueue
    <3>1. PICK v, w : v = Hooked(x, e) /\ w = WithQueue(v, e, <<>>)
      OBVIOUS
    <3>2. /\ FxOK(v) /\ Only(x, v, e) /\ v.anim = x.anim /\ v.timers = x.timers /\ SameMarks(x.el[e], v.el[e])
      BY <1>2, <3>1, HookedIs
    <3>3. e \in DOMAIN v.el
      BY <1>2, <3>2 DEF Only
    <3>4. PICK k : k = <<>>
      OBVIOUS
    <3>5. /\ FxOK(w) /\ Only(v, w, e) /\ w.anim = v.anim /\ w.timers = v.timers /\ SameMarks(v.el[e], w.el[e]) /\ Queue(w, e) = <<>>
      <4>1. w = WithQueue(v, e, k)
        BY <3>1, <3>4
      <4>2. k \in Seq(Place)
        BY <3>4
      <4>3. FxOK(v) /\ e \in DOMAIN v.el
        BY <3>2, <3>3
      <4>4. /\ FxOK(w) /\ Only(v, w, e) /\ w.anim = v.anim /\ w.timers = v.timers /\ SameMarks(v.el[e], w.el[e]) /\ Queue(w, e) = k
        BY ONLY <4>1, <4>2, <4>3, WithQueueIs
      <4> QED
        BY <3>4, <4>4
    <3>6. e \in DOMAIN w.el
      BY <3>3, <3>5 DEF Only
    <3>7. PICK h : h = w.el[e].hooks
      OBVIOUS
    <3>8. y = EmptyFired(w, e, h)
      BY <1>1, <2>2, <3>1, <3>7 DEF StopAll
    <3>9. /\ FxOK(y) /\ Only(w, y, e) /\ y.anim = w.anim /\ y.timers = w.timers /\ SameMarks(w.el[e], y.el[e]) /\ Queue(y, e) = <<>>
      BY <3>5, <3>6, <3>8, EmptyFiredIs
    <3>10. Only(x, y, e)
      BY <3>2, <3>5, <3>9 DEF Only
    <3>11. y.el[e].inDocument = x.el[e].inDocument
      BY <3>2, <3>5, <3>9 DEF SameMarks
    <3> QED
      BY <3>2, <3>5, <3>9, <3>10, <3>11
  <2> QED
    BY <2>1, <2>2
<1>4. DOMAIN y.el = E /\ QueuesOK(y)
  <2>1. DOMAIN y.el = E /\ \A d \in E \ {e} : Queue(y, d) = Queue(x, d)
    BY <1>1, <1>3 DEF Only, Queue
  <2>2. Queue(y, e) = <<>> => \A j \in 1..Len(Queue(y, e)) : FALSE
    OBVIOUS
  <2> QED
    BY <1>1, <1>2, <1>3, <2>1, <2>2 DEF QueuesOK
<1>5. Len(x.timers) \in Nat
  BY <1>2, FxParts
<1>6. g \in FrameType(E, A)
  <2>1. <<>> \in Seq(CallType(E, A))
    OBVIOUS
  <2> QED
    BY <1>1, <1>2, <1>5, <2>1, StopFrameIs
<1>7. PageTypes' /\ (~meddled' => ~meddled /\ run = <<>> /\ run' = <<g>>)
  BY <1>1, <1>2, <1>3, <1>4, <1>6, WalkTypes DEF Elem
<1>8. ASSUME ~meddled', PageCalm PROVE PageCalm'
  <2>1. ThenOK(<<>>, e)
    BY DEF ThenOK
  <2>2. PICK then, dequeue : then = <<>> /\ dequeue = TRUE
    OBVIOUS
  <2>3. /\ ThenOK(then, e) /\ dequeue \in BOOLEAN /\ (then # <<>> => gotoEnd /\ fx'.el[e].finish /\ Queue(fx', e) = <<>>)
        /\ g = StopFrame(e, Len(fx.timers), gotoEnd, dequeue, then)
    BY <1>1, <2>1, <2>2
  <2>4. /\ FxOK(fx') /\ DOMAIN fx'.el = Elem /\ fx'.anim = fx.anim /\ fx'.timers = fx.timers /\ Only(fx, fx', e)
        /\ fx'.el[e].inDocument = fx.el[e].inDocument /\ (Queue(fx', e) = Queue(fx, e) \/ Queue(fx', e) = <<>>)
    BY <1>1, <1>3, <1>4 DEF Elem
  <2> QED
    BY <1>2, <1>7, <1>8, <2>3, <2>4, WalkBegins
<1> QED
  BY <1>7, <1>8

\* What finish calls in the end: all that was queued, and that it is over.
AllQueued(e, items) == [i \in DOMAIN items |-> StartCall(e, items[i])] \o <<FinishedCall(e)>>

\* All start, and then finish is over.
LEMMA AllQueuedIs ==
  ASSUME NEW E, NEW A, NEW e \in E, NEW items \in Seq(ItemType), NEW then, then = AllQueued(e, items)
  PROVE  then \in Seq(CallType(E, A)) /\ then # <<>> /\ ThenOK(then, e)
<1>1. PICK n, s, c : n = Len(items) /\ s = [i \in 1..n |-> StartCall(e, items[i])] /\ c = FinishedCall(e)
  OBVIOUS
<1>2. n \in Nat /\ DOMAIN items = 1..n /\ \A i \in 1..n : items[i] \in ItemType
  BY <1>1
<1>3. \A i \in 1..n : StartCall(e, items[i]) \in CallType(E, A) /\ StartCall(e, items[i]).op = "start" /\ StartCall(e, items[i]).e = e
  BY <1>2 DEF StartCall, CallType
<1>4. s \in Seq(CallType(E, A)) /\ Len(s) = n
  <2>1. s \in [1..n -> CallType(E, A)]
    BY <1>1, <1>3
  <2> QED
    BY <1>2, <2>1
<1>5. c \in CallType(E, A)
  BY <1>1 DEF FinishedCall, CallType
<1>6. then = s \o <<c>>
  BY <1>1, <1>2 DEF AllQueued
<1>7. <<c>> \in Seq(CallType(E, A)) /\ Len(<<c>>) = 1 /\ <<c>>[1] = c
  BY <1>5
<1>8. then \in Seq(CallType(E, A)) /\ Len(then) = n + 1 /\ then[n + 1] = c /\ \A j \in 1..n : then[j] = s[j]
  <2>1. PICK u : u = <<c>> /\ u \in Seq(CallType(E, A)) /\ Len(u) = 1 /\ u[1] = c
    BY <1>7
  <2>2. then = s \o u
    BY <1>6, <2>1
  <2>3. then \in Seq(CallType(E, A)) /\ Len(then) = n + 1
    BY <1>4, <2>1, <2>2
  <2>4. then[n + 1] = u[n + 1 - n]
    BY <1>2, <1>4, <2>1, <2>2
  <2>5. n + 1 - n = 1
    BY <1>2
  <2>6. \A j \in 1..n : then[j] = s[j]
    BY <1>2, <1>4, <2>1, <2>2
  <2> QED
    BY <2>1, <2>3, <2>4, <2>5, <2>6
<1>9. \A j \in 1..Len(then) - 1 : j \in 1..n
  BY <1>2, <1>8
<1>10. \A j \in 1..n : then[j].op = "start" /\ then[j].e = e
  BY <1>1, <1>3, <1>8
<1>11. then # <<>>
  BY <1>2, <1>8
<1> QED
  BY <1>1, <1>8, <1>9, <1>10, <1>11 DEF ThenOK

\* finish is called.
LEMMA FinishOnPage ==
  ASSUME PageTypes, NEW e \in Elem, Spend, FinishAll(e)
  PROVE  PageTypes' /\ (~meddled' => ~meddled) /\ (~meddled' /\ PageCalm => PageCalm')
<1>1. PICK x, y, E, A, items : x = fx /\ y = fx' /\ E = DOMAIN fx.el /\ A = 1..Len(fx.anim) /\ items = Waiting(Queue(fx, e))
  OBVIOUS
<1>2. PICK then, g : then = AllQueued(e, items) /\ g = StopFrame(e, Len(fx.timers), TRUE, FALSE, then)
  OBVIOUS
<1>3. PICK k, z : k = [x.el[e] EXCEPT !.finish = TRUE, !.queue = <<>>] /\ z = [x EXCEPT !.el[e] = k]
  OBVIOUS
<1>4. /\ FxOK(x) /\ QueuesOK(x) /\ e \in DOMAIN x.el /\ Meddles /\ run' = Append(run, g) /\ ~threw /\ threw' = threw
  BY <1>1, <1>2, SpendIs DEF Elem, FinishAll, AllQueued, FinishedCall
<1>5. y = z
  BY <1>1, <1>3 DEF FinishAll
<1>6. k \in ElementType /\ k.finish = TRUE /\ k.queue = <<>> /\ k.inDocument = x.el[e].inDocument
  <2>1. x.el[e] \in ElementType
    BY <1>4, FxParts
  <2>2. <<>> \in Seq(Place)
    OBVIOUS
  <2> QED
    BY <1>3, <2>1, <2>2 DEF ElementType, Maybe
<1>7. FxOK(y) /\ Only(x, y, e) /\ y.el[e] = k /\ y.anim = x.anim /\ y.timers = x.timers
  BY <1>3, <1>4, <1>5, <1>6, WithElement
<1>8. Queue(y, e) = <<>>
  <2>1. <<>> \in Seq(Place)
    OBVIOUS
  <2>2. e \in DOMAIN y.el
    BY <1>4, <1>7 DEF Only
  <2> QED
    BY <1>6, <1>7, <2>1, <2>2, QueueIs
<1>9. DOMAIN y.el = E /\ QueuesOK(y)
  <2>1. DOMAIN y.el = E /\ \A d \in E \ {e} : Queue(y, d) = Queue(x, d)
    BY <1>1, <1>7 DEF Only, Queue
  <2>2. \A j \in 1..Len(Queue(y, e)) : FALSE
    BY <1>8
  <2> QED
    BY <1>1, <1>4, <2>1, <2>2 DEF QueuesOK
<1>10. items \in Seq(ItemType)
  BY <1>1, <1>4, TakenIs
<1>11. then \in Seq(CallType(E, A)) /\ then # <<>> /\ ThenOK(then, e)
  BY <1>1, <1>2, <1>4, <1>10, AllQueuedIs
<1>12. Len(x.timers) \in Nat
  BY <1>4, FxParts
<1>13. g \in FrameType(E, A)
  BY <1>1, <1>2, <1>4, <1>11, <1>12, StopFrameIs
<1>14. PageTypes' /\ (~meddled' => ~meddled /\ run = <<>> /\ run' = <<g>>)
  BY <1>1, <1>4, <1>7, <1>9, <1>13, WalkTypes DEF Elem
<1>15. ASSUME ~meddled', PageCalm PROVE PageCalm'
  <2>1. PICK gotoEnd, dequeue : gotoEnd = TRUE /\ dequeue = FALSE
    OBVIOUS
  <2>2. /\ gotoEnd \in BOOLEAN /\ dequeue \in BOOLEAN /\ g = StopFrame(e, Len(fx.timers), gotoEnd, dequeue, then)
        /\ (then # <<>> => gotoEnd /\ fx'.el[e].finish /\ Queue(fx', e) = <<>>)
    BY <1>1, <1>2, <1>6, <1>7, <1>8, <2>1
  <2>3. /\ FxOK(fx') /\ DOMAIN fx'.el = Elem /\ fx'.anim = fx.anim /\ fx'.timers = fx.timers /\ Only(fx, fx', e)
        /\ fx'.el[e].inDocument = fx.el[e].inDocument /\ (Queue(fx', e) = Queue(fx, e) \/ Queue(fx', e) = <<>>)
    BY <1>1, <1>6, <1>7, <1>8, <1>9 DEF Elem
  <2> QED
    BY <1>4, <1>11, <1>14, <1>15, <2>2, <2>3, WalkBegins
<1> QED
  BY <1>14, <1>15

-----------------------------------------------------------------------------
(***************************************************************************)
(* The page of boxes, step by step.                                        *)
(***************************************************************************)

\* What holds of it.
Box ==
  /\ PageTypes /\ desk.opened = 0 /\ desk.vertical = FALSE /\ desk.room \in Nat
  /\ ~meddled => PageCalm

\* The library.
LEMMA LibraryOnPage ==
  ASSUME PageTypes, FxSteps \/ Tick
  PROVE  PageTypes' /\ meddled' = meddled /\ (PageCalm => PageCalm')
<1>1. CASE DoDequeue
  <2>1. meddled' = meddled
    BY <1>1 DEF DoDequeue
  <2> QED
    BY <1>1, <2>1, DequeueTypes, DequeueCalm
<1>2. CASE DoStart
  <2>1. meddled' = meddled
    BY <1>2 DEF DoStart
  <2> QED
    BY <1>2, <2>1, StartTypes, StartCalm
<1>3. CASE DoComplete
  <2>1. meddled' = meddled
    BY <1>3 DEF DoComplete
  <2> QED
    BY <1>3, <2>1, CompleteOnPage
<1>4. CASE DoUnqueued
  <2>1. meddled' = meddled
    BY <1>4 DEF DoUnqueued
  <2> QED
    BY <1>4, <2>1, UnqueuedOnPage
<1>5. CASE TimerCalled
  <2>1. meddled' = meddled
    BY <1>5, Zenon DEF TimerCalled
  <2> QED
    BY <1>5, <2>1, TimerOnPage
<1>6. CASE TimerOver
  <2>1. meddled' = meddled
    BY <1>6 DEF TimerOver
  <2> QED
    BY <1>6, <2>1, TimerOverOnPage
<1>7. CASE TickOver
  <2>1. meddled' = meddled
    BY <1>7 DEF TickOver
  <2> QED
    BY <1>7, <2>1, TickOverOnPage
<1>8. CASE StopNext
  <2>1. meddled' = meddled
    BY <1>8 DEF StopNext
  <2> QED
    BY <1>8, <2>1, StopNextOnPage
<1>9. CASE StopSplice
  <2>1. meddled' = meddled
    BY <1>9 DEF StopSplice
  <2> QED
    BY <1>9, <2>1, StopSpliceOnPage
<1>10. CASE StopOver
  <2>1. meddled' = meddled
    BY <1>10 DEF StopOver
  <2> QED
    BY <1>10, <2>1, StopOverOnPage
<1>11. CASE DoFinished
  <2>1. meddled' = meddled
    BY <1>11 DEF DoFinished
  <2> QED
    BY <1>11, <2>1, FinishedOnPage
<1>12. CASE Tick
  <2>1. meddled' = meddled
    BY <1>12 DEF Tick
  <2> QED
    BY <1>12, <2>1, TickOnPage
<1> QED
  BY <1>1, <1>2, <1>3, <1>4, <1>5, <1>6, <1>7, <1>8, <1>9, <1>10, <1>11, <1>12 DEF FxSteps

\* The script.
LEMMA ScriptOnPage ==
  ASSUME PageTypes, Return \/ Throw \/ PageCalls
  PROVE  PageTypes' /\ (~meddled' => ~meddled) /\ (~meddled' /\ PageCalm => PageCalm')
<1>1. CASE Return
  <2>1. meddled' = meddled
    BY <1>1 DEF Return
  <2> QED
    BY <1>1, <2>1, ReturnOnPage
<1>2. CASE Throw
  <2>1. meddled' = meddled
    BY <1>2 DEF Throw
  <2> QED
    BY <1>2, <2>1, ThrowOnPage
<1>3. CASE PageCalls
  <2>1. PICK e \in Elem :
          \/ \E what \in Scripted, queued \in BOOLEAN : Spend /\ Animated(e, what, queued, run) /\ StopMeddles
          \/ \E clearQueue, gotoEnd \in BOOLEAN : Spend /\ StopAll(e, clearQueue, gotoEnd)
          \/ Spend /\ FinishAll(e)
          \/ Spend /\ fx' = Removed(fx, e) /\ UNCHANGED <<run, meddled>>
    BY <1>3 DEF PageCalls
  <2>2. CASE \E what \in Scripted, queued \in BOOLEAN : Spend /\ Animated(e, what, queued, run) /\ StopMeddles
    BY <2>2, AnimateOnPage
  <2>3. CASE \E clearQueue, gotoEnd \in BOOLEAN : Spend /\ StopAll(e, clearQueue, gotoEnd)
    BY <2>3, StopOnPage
  <2>4. CASE Spend /\ FinishAll(e)
    BY <2>4, FinishOnPage
  <2>5. CASE Spend /\ fx' = Removed(fx, e) /\ UNCHANGED <<run, meddled>>
    BY <2>5, RemoveOnPage
  <2> QED
    BY <2>1, <2>2, <2>3, <2>4, <2>5
<1> QED
  BY <1>1, <1>2, <1>3

\* No page of boxes has a desktop, nor becomes one.
LEMMA BoxIsNoDesktop ==
  ASSUME Box
  PROVE  ~OnDesktop /\ Opened = {}
  BY DesktopAssumption DEF Box, PageTypes, OnDesktop, Opened, DesktopAssumption

\* Every step of the page keeps it.
LEMMA BoxNext ==
  ASSUME Box, Next
  PROVE  Box'
<1>1. ~OnDesktop
  BY BoxIsNoDesktop
<1>2. ((FxSteps \/ Tick) \/ (Return \/ Throw \/ PageCalls)) /\ desk' = desk
  BY <1>1 DEF Next
<1>3. PageTypes' /\ (~meddled' => ~meddled) /\ (~meddled' /\ PageCalm => PageCalm')
  <2>1. CASE FxSteps \/ Tick
    BY <2>1, LibraryOnPage DEF Box
  <2>2. CASE Return \/ Throw \/ PageCalls
    BY <2>2, ScriptOnPage DEF Box
  <2> QED
    BY <1>2, <2>1, <2>2
<1> QED
  BY <1>2, <1>3 DEF Box

\* Nothing happens on the page.
LEMMA BoxStutter ==
  ASSUME Box, UNCHANGED deskVars
  PROVE  Box'
  BY DEF Box, deskVars, PageTypes, PageCalm, FxTypeOK, RunOK, Movers, Elem

\* The page of boxes when it is loaded.
LEMMA BoxStarts ==
  ASSUME Init, ~DesktopInit
  PROVE  Box
<1>1. PICK visible \in [Boxes -> BOOLEAN] :
        fx = [el |-> [b \in Boxes |-> NewElement(visible[b])], hooks |-> <<>>, anim |-> <<>>, timers |-> <<>>, ticking |-> FALSE]
  BY DEF Init
<1>2. run = <<>> /\ calls = MaxCalls /\ threw = FALSE /\ meddled = FALSE
  BY DEF Init
<1>3. PICK x, E : x = fx /\ E = Boxes
  OBVIOUS
<1>4. /\ DOMAIN x.el = E /\ x.hooks = <<>> /\ x.anim = <<>> /\ x.timers = <<>> /\ x.ticking = FALSE
      /\ \A b \in E : x.el[b] = NewElement(visible[b])
      /\ x.el = [b \in E |-> NewElement(visible[b])]
      /\ x = [el |-> x.el, hooks |-> x.hooks, anim |-> x.anim, timers |-> x.timers, ticking |-> x.ticking]
  BY <1>1, <1>3
<1>5. \A b \in E : NewElement(visible[b]) \in ElementType
  <2>1. Full \in Int
    BY EffectsAssumption DEF EffectsAssumption
  <2>2. \A b \in E : visible[b] \in BOOLEAN
    BY <1>3
  <2> QED
    BY <2>1, <2>2 DEF NewElement, ElementType, Maybe
<1>6. FxOK(x)
  <2>1. x.el \in [DOMAIN x.el -> ElementType]
    BY <1>4, <1>5
  <2>2. x.hooks \in Seq(HookType)
    BY <1>4
  <2>3. x.anim \in Seq(AnimationOf(DOMAIN x.el))
    BY <1>4
  <2>4. x.timers \in Seq(1..Len(x.anim))
    BY <1>4
  <2> QED
    BY <1>4, <2>1, <2>2, <2>3, <2>4 DEF FxOK
<1>7. \A b \in E : Queue(x, b) = <<>>
  BY <1>4 DEF Queue, NewElement
<1>8. QueuesOK(x)
  <2>1. \A b \in E : \A j \in 1..Len(Queue(x, b)) : FALSE
    BY <1>7
  <2> QED
    BY <1>4, <2>1 DEF QueuesOK
<1>9. PageTypes
  <2>1. run \in Seq(FrameType(DOMAIN fx.el, 1..Len(fx.anim)))
    BY <1>2
  <2>2. MaxCalls \in Nat
    BY DesktopAssumption DEF DesktopAssumption
  <2> QED
    BY <1>2, <1>3, <1>4, <1>6, <1>8, <2>1, <2>2 DEF PageTypes, FxTypeOK, RunOK, Elem
<1>10. desk.opened = 0 /\ desk.vertical = FALSE /\ desk.room \in Nat
  <2>1. Fits \subseteq Nat
    BY DesktopAssumption DEF DesktopAssumption
  <2>2. desk \in [clicks : {IF calls = 0 THEN MaxClicks ELSE 0}, room : IF calls = 0 THEN Fits ELSE {0},
                  opened : {0}, vertical : {FALSE}, listButton : {TRUE}]
    BY DEF Init
  <2>3. PICK C, R : C = {IF calls = 0 THEN MaxClicks ELSE 0} /\ R = IF calls = 0 THEN Fits ELSE {0}
    OBVIOUS
  <2>4. desk \in [clicks : C, room : R, opened : {0}, vertical : {FALSE}, listButton : {TRUE}]
    BY <2>2, <2>3
  <2>5. desk.opened \in {0} /\ desk.vertical \in {FALSE} /\ desk.room \in R
    BY <2>4
  <2>6. R \subseteq Nat
    BY <2>1, <2>3
  <2> QED
    BY <2>5, <2>6
<1>11. PageCalm
  <2>1. DOMAIN x.anim = {}
    BY <1>4
  <2>2. TimersOK(x)
    BY <2>1 DEF TimersOK
  <2>3. Slots(run) = {} /\ ~Walking(run)
    BY <1>2, NoSlots DEF Walking
  <2>4. \A i \in 2..Len(run) : FALSE
    BY <1>2
  <2>5. StackOK(x, run)
    BY <1>2, <2>3, <2>4 DEF StackOK
  <2>6. WalkOK(x, run)
    BY <2>3 DEF WalkOK
  <2>7. \A d : ~Finishing(run, d) /\ InQueue(x, d) = {} /\ Moving(x, run, d) = {}
    BY <2>1, <2>3 DEF Finishing, Waits, InQueue, Moving
  <2>8. \A d : OneMover(x, run, threw, d)
    BY <2>7 DEF OneMover, AtMostOne
  <2> QED
    BY <1>3, <2>2, <2>5, <2>6, <2>8 DEF PageCalm, Movers
<1> QED
  BY <1>9, <1>10, <1>11 DEF Box

-----------------------------------------------------------------------------
(***************************************************************************)
(* The theorems.                                                           *)
(***************************************************************************)

Whole == (OnDesktop /\ DeskInv) \/ Box

\* A desktop has its list.
LEMMA StaysDesktop ==
  ASSUME DeskInv
  PROVE  OnDesktop
  BY DEF DeskInv, OnDesktop, ElementsOf

\* One of the two pages is loaded,
LEMMA WholeStarts ==
  ASSUME Init
  PROVE  Whole
  BY DeskStarts, BoxStarts, StaysDesktop DEF Whole

\* ... a desktop stays one,
LEMMA DeskNextOn ==
  ASSUME DeskInv, Next \/ UNCHANGED deskVars
  PROVE  (DeskInv /\ OnDesktop)' /\ (ShowsNone \/ \E n \in Opened : TaskButton(n) /\ ShowsOnly(n))
<1>1. OnDesktop
  BY StaysDesktop
<1>2. DeskInv' /\ (ShowsNone \/ \E n \in Opened : TaskButton(n) /\ ShowsOnly(n))
  BY <1>1, DeskNext, DeskStutter
<1>3. OnDesktop'
  BY <1>2 DEF DeskInv, OnDesktop, ElementsOf
<1> QED
  BY <1>2, <1>3

\* ... and so does a page of boxes.
LEMMA WholeNext ==
  ASSUME Whole, [Next]_deskVars
  PROVE  Whole'
<1>1. CASE Box
  BY <1>1, BoxNext, BoxStutter DEF Whole
<1>2. CASE DeskInv
  BY <1>2, DeskNextOn DEF Whole
<1> QED
  BY <1>1, <1>2 DEF Whole

\* THEOREM.  Whatever page is loaded, and whatever is called on it, its
\* invariant holds: types, timers, stack and walk of Effects, and that of each
\* queue one animation at most moves on; or those of the desktop.
THEOREM WholeAlways == Spec => []Whole
<1> QED
  BY WholeStarts, WholeNext, PTL DEF Spec

\* Of what is drawn with a queue one runs at most.
LEMMA SomeOne ==
  ASSUME NEW S, \A a, b \in S : a = b
  PROVE  Cardinality(S) <= 1
<1>1. CASE S = {}
  BY <1>1, FS_EmptySet
<1>2. CASE S # {}
  <2>1. PICK a : a \in S
    BY <1>2
  <2>2. S = {a}
    BY <2>1
  <2>3. Cardinality({a}) = 1
    BY FS_Singleton
  <2> QED
    BY <2>2, <2>3
<1> QED
  BY <1>1, <1>2

\* One animation of a queue runs at a time.
LEMMA WholeOne ==
  ASSUME Whole
  PROVE  OneAtATime
<1>1. SUFFICES ASSUME ~meddled, NEW e \in Elem, fx.el[e].inDocument
               PROVE  Cardinality({a \in Running(e) : fx.anim[a].queued}) <= 1
  BY DEF OneAtATime
<1>2. {a \in Running(e) : fx.anim[a].queued} = InQueue(fx, e)
  BY DEF Running, InQueue
<1>3. \A a, b \in InQueue(fx, e) : a = b
  <2>1. CASE Box
    <3>1. OneMover(fx, run, threw, e)
      BY <1>1, <2>1 DEF Box, PageCalm, Movers
    <3> QED
      BY <3>1, MoverParts
  <2>2. CASE DeskInv
    <3>1. AtMostOne(fx, run, e)
      BY <1>1, <2>2 DEF DeskInv, DesktopOne, Elem
    <3>2. SUFFICES ASSUME NEW a \in InQueue(fx, e), NEW b \in InQueue(fx, e) PROVE a = b
      OBVIOUS
    <3>3. <<0, a>> \in Moving(fx, run, e) /\ <<0, b>> \in Moving(fx, run, e)
      BY <3>2 DEF Moving
    <3>4. <<0, a>> = <<0, b>>
      BY <3>1, <3>3 DEF AtMostOne
    <3> QED
      BY <3>4
  <2> QED
    BY <2>1, <2>2 DEF Whole
<1> QED
  BY <1>2, <1>3, SomeOne

\* THEOREM.  Of the animations in an element's queue one runs at a time, for any
\* elements, and any calls of animate, show, hide, toggle, stop, finish and
\* remove (jQuery.fx, jQuery.queue, and the desktop of comment.js).
THEOREM OneAnimationAtATime == Spec => []OneAtATime
<1> QED
  BY WholeAlways, WholeOne, PTL

\* The task bar fits.
LEMMA WholeFits ==
  ASSUME Whole
  PROVE  TaskBarFits
<1>1. CASE DeskInv
  BY <1>1, StillIsLaidOut
<1>2. CASE Box
  <2>1. Opened = {}
    BY <1>2, BoxIsNoDesktop
  <2>2. {n \in Opened : fx.el[Button(n)].inDocument} = {}
    BY <2>1
  <2>3. Cardinality({}) = 0
    BY FS_EmptySet
  <2>4. ~(0 > desk.room) /\ desk.vertical = FALSE
    BY <1>2 DEF Box
  <2> QED
    BY <2>2, <2>3, <2>4 DEF TaskBarFits
<1> QED
  BY <1>1, <1>2 DEF Whole

\* THEOREM.  When no button fades in, the task bar is laid out for the buttons
\* it has, whatever the user opened, closed and sized meanwhile (toolBRAuto).
THEOREM TaskBarIsLaidOut == Spec => []TaskBarFits
<1> QED
  BY WholeAlways, WholeFits, PTL

\* A step that shows a window of the document is its task button's.
ShownByItsButton ==
  \A n \in Opened :
    fx.el[Win(n)].inDocument /\ ~fx.el[Win(n)].visible /\ fx'.el[Win(n)].visible => TaskButton(n)

\* Only its button shows a window again.
LEMMA WholeStays ==
  ASSUME Whole, [Next]_deskVars
  PROVE  ShownByItsButton
<1>1. CASE DeskInv
  <2>1. ShowsNone \/ \E n \in Opened : TaskButton(n) /\ ShowsOnly(n)
    BY <1>1, DeskNextOn
  <2>2. CASE ShowsNone
    BY <2>2 DEF ShowsNone, ShownByItsButton
  <2>3. CASE \E n \in Opened : TaskButton(n) /\ ShowsOnly(n)
    BY <2>3 DEF ShowsOnly, ShownByItsButton
  <2> QED
    BY <2>1, <2>2, <2>3
<1>2. CASE Box
  BY <1>2, BoxIsNoDesktop DEF ShownByItsButton
<1> QED
  BY <1>1, <1>2 DEF Whole

\* THEOREM.  A minimised window is shown again by its task button alone, though
\* the animation it was opened with may still run in it (titMin and movTop).
THEOREM MinimisedWindowsStay == Spec => MinimisedStays
<1>1. Whole /\ [Next]_deskVars => [ShownByItsButton]_deskVars
  BY WholeStays
<1> QED
  BY <1>1, WholeAlways, PTL DEF Spec, MinimisedStays, ShownByItsButton
=============================================================================
