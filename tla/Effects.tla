------------------------------- MODULE Effects ------------------------------
(***************************************************************************)
(* jQuery.queue and jQuery.fx: animations of elements, one after another.  *)
(*                                                                         *)
(* The page queues animations; the first of an element's queue runs, with  *)
(* a sentinel in its place, until its complete callback takes the next one *)
(* out.  One interval of the browser drives all that run, in one list that *)
(* callbacks of the page, stop and finish change while it is walked.  An   *)
(* animation that shows or hides an element plays with its size, and what  *)
(* the size was is kept in the element's data until an animation ends.     *)
(***************************************************************************)
EXTENDS Integers, SequencesExt, FiniteSets

CONSTANTS
  Nothing,     \* undefined
  Scripted,    \* what a script animates, of show, hide and toggle (a bound)
  Full         \* the size an element has when nothing moves

ASSUME EffectsAssumption ==
  /\ Full \in Nat \ {0}
  /\ Nothing \notin Seq([what : Scripted \union {"show", "opaque", "up", "down"}, queued : BOOLEAN] \union {[what |-> "inprogress"]})

VARIABLES
  fx,       \* elements, hooks of queues, animations, jQuery.timers, the interval
  run,      \* the call stack
  calls,    \* calls the page's script may still make
  threw,    \* whether a callback has thrown
  meddled   \* ghost: a callback has stopped animations, or has animated while stop or finish walks

fxVars == <<fx, run, calls, threw, meddled>>

Elem == DOMAIN fx.el      \* elements of the page

Sentinel == [what |-> "inprogress"]
Moves == {"show", "hide", "toggle"}

\* What is kept of an element; at: where a plain animation has brought it;
\* hooks: a place in fx.hooks, or 0.
NewElement(visible) ==
  [inDocument |-> TRUE, visible |-> visible, size |-> Full, at |-> Nothing, queue |-> Nothing,
   hooks |-> 0, fxshow |-> Nothing, finish |-> FALSE]

NewHooks == [unqueued |-> 0, fired |-> FALSE]

Queue(x, e) == IF x.el[e].queue = Nothing THEN <<>> ELSE x.el[e].queue

WithQueue(x, e, q) == [x EXCEPT !.el[e].queue = q]

\* _queueHooks.
Hooked(x, e) ==
  IF x.el[e].hooks # 0 THEN x
  ELSE [x EXCEPT !.hooks = Append(@, NewHooks), !.el[e].hooks = Len(x.hooks) + 1]

\* Animations beside the queue are counted.
Counted(hooks, h, n) == [hooks EXCEPT ![h].unqueued = @ + n]

\* hooks.empty.fire: once, and not while animations run beside the queue.
EmptyFired(x, e, h) ==
  IF x.hooks[h].unqueued > 0 \/ x.hooks[h].fired THEN x
  ELSE [x EXCEPT !.hooks[h].fired = TRUE, !.el[e] = [@ EXCEPT !.queue = Nothing, !.hooks = 0]]

-----------------------------------------------------------------------------
(***************************************************************************)
(* The call stack.                                                         *)
(***************************************************************************)

Todo(cs) == IF cs = <<>> THEN <<>> ELSE <<[f |-> "todo", todo |-> cs]>>
FnFrame(a) == [f |-> "fn", a |-> a]

Top == run[Len(run)]
Below == Front(run)
TopIs(f) == run # <<>> /\ Top.f = f
CallIs(op) == TopIs("todo") /\ Head(Top.todo).op = op
Call == Head(Top.todo)
AfterCall == Below \o Todo(Tail(Top.todo))
WithTop(frame) == Append(Below, frame)
PageRuns == run # <<>> => Top.f = "fn"

DequeueCall(e) == [op |-> "dequeue", e |-> e]
StartCall(e, item) == [op |-> "start", e |-> e, item |-> item]
CompleteCall(a) == [op |-> "complete", a |-> a]
UnqueuedCall(a) == [op |-> "unqueued", a |-> a]

-----------------------------------------------------------------------------
(***************************************************************************)
(* An animation.                                                           *)
(***************************************************************************)

\* moves: whether it has anything to do; goal: where it brings the element, or
\* sized: whether it plays with the size;
\* orig: the size to be restored then.
NewAnimation(e, item, h) ==
  [elem |-> e, goal |-> Nothing, queued |-> item.queued, hooks |-> h, sized |-> FALSE, state |-> "pending", stopped |-> FALSE,
   percent |-> 0, moves |-> FALSE, hides |-> FALSE, start |-> 0, end |-> 0, orig |-> 0]

IsHidden(el) == ~el.visible \/ ~el.inDocument

\* The show/hide pass of defaultPrefilter over one property, and the tween's
\* first frame: the element, and the animation.
Prefiltered(el, a, what) ==
  LET saved == el.fxshow
      hidden == IF saved # Nothing /\ saved.hidden # Nothing THEN saved.hidden ELSE IsHidden(el)
      size == IF saved = Nothing THEN el.size ELSE saved.size
      start == IF hidden /\ saved = Nothing THEN 0 ELSE el.size
  IN  IF what \notin Moves THEN [el |-> el, anim |-> [a EXCEPT !.moves = TRUE, !.goal = what]]
      ELSE IF what = (IF IsHidden(el) THEN "hide" ELSE "show") THEN [el |-> el, anim |-> a]
      ELSE [el |-> [el EXCEPT !.visible = @ \/ hidden, !.size = start,
                      !.fxshow = [size |-> size,
                                  hidden |-> IF what = "toggle" THEN ~hidden
                                             ELSE IF saved = Nothing THEN Nothing ELSE saved.hidden]],
            anim |-> [a EXCEPT !.moves = TRUE, !.sized = TRUE, !.hides = ~hidden, !.start = start,
                        !.end = IF hidden THEN size ELSE 0,
                        !.orig = IF saved # Nothing /\ saved.size # 0 THEN saved.size ELSE el.size]]

\* The tweens of a are run up to percent, of 2.
Tweened(x, a, percent) ==
  LET an == x.anim[a]
      now == CASE percent = 0 -> an.start [] percent = 1 -> (an.start + an.end) \div 2 [] OTHER -> an.end
  IN  IF an.sized THEN [x EXCEPT !.el[an.elem].size = now]
      ELSE IF an.moves THEN [x EXCEPT !.el[an.elem].at = IF percent = 2 THEN an.goal ELSE Nothing]
      ELSE x

\* Mutation of Resolved: what was to be shown is shown at the end.
ResolvedShows(x, a) ==
  LET an == x.anim[a]
  IN  [x EXCEPT !.anim[a].state = "resolved",
                !.el[an.elem] = IF ~an.sized THEN @
                                ELSE [@ EXCEPT !.visible = ~an.hides, !.size = an.orig, !.fxshow = Nothing]]

\* The callbacks of done that the library adds: hide, and restore the size.
Restored(el, an) ==
  IF ~an.sized THEN el
  ELSE [el EXCEPT !.visible = @ /\ ~an.hides, !.size = an.orig, !.fxshow = Nothing]

Resolved(x, a) ==
  [x EXCEPT !.anim[a].state = "resolved", !.el[x.anim[a].elem] = Restored(@, x.anim[a])]

\* ... and what is called after them.
Beside(x, a) == IF x.anim[a].queued THEN <<>> ELSE <<UnqueuedCall(a)>>
DoneCalls(x, a) == <<CompleteCall(a)>> \o Beside(x, a)

\* animation.stop( gotoEnd ): what it makes, and what it calls.
Stopped(x, a, gotoEnd) ==
  LET s == [x EXCEPT !.anim[a].stopped = TRUE]
      e == IF gotoEnd THEN Tweened(s, a, 2) ELSE s
  IN  IF x.anim[a].stopped THEN x
      ELSE IF x.anim[a].state # "pending" THEN e
      ELSE IF gotoEnd THEN Resolved(e, a)
      ELSE [e EXCEPT !.anim[a].state = "rejected"]

StopCalls(x, a, gotoEnd) ==
  IF x.anim[a].stopped \/ x.anim[a].state # "pending" THEN <<>>
  ELSE IF gotoEnd THEN DoneCalls(x, a) ELSE Beside(x, a)

\* Animation: without anything to move it is done at once; else it joins the
\* timers, and if the element is being finished it is stopped at its end.
Animation(x, e, item, rest) ==
  LET y == IF item.queued THEN x ELSE Hooked(x, e)
      h == y.el[e].hooks
      a == Len(x.anim) + 1
      p == Prefiltered(y.el[e], NewAnimation(e, item, h), item.what)
      z == [y EXCEPT !.el[e] = p.el, !.anim = Append(@, p.anim),
                     !.hooks = IF item.queued THEN @ ELSE Counted(@, h, 1)]
      t == [z EXCEPT !.timers = Append(@, a), !.ticking = TRUE]
  IN  IF ~p.anim.moves
      THEN fx' = Resolved(z, a) /\ run' = rest \o Todo(Beside(z, a) \o <<CompleteCall(a)>>)
      ELSE IF y.el[e].finish
      THEN fx' = Stopped(t, a, TRUE) /\ run' = rest \o Todo(StopCalls(t, a, TRUE))
      ELSE fx' = t /\ run' = rest

-----------------------------------------------------------------------------
(***************************************************************************)
(* Calls of the library, one action each.                                  *)
(***************************************************************************)

\* Mutation of WithSentinel: the sentinel is not put back.
WithoutSentinel(q) == Tail(q)

\* What is left in the queue when its first animation is taken out to run.
WithSentinel(q) == <<Sentinel>> \o Tail(q)

\* What waits in a queue.
Waiting(q) == IF q # <<>> /\ Head(q) = Sentinel THEN Tail(q) ELSE q

\* The last of the queue has been taken.
Emptied(x, e) == IF Queue(x, e) = <<>> THEN x ELSE WithQueue(x, e, <<>>)

\* jQuery.dequeue.
DoDequeue ==
  /\ CallIs("dequeue")
  /\ LET e == Call.e
         x == Hooked(fx, e)
         rest == Waiting(Queue(x, e))
     IN IF rest = <<>>
        THEN fx' = EmptyFired(Emptied(x, e), e, x.el[e].hooks) /\ run' = AfterCall
        ELSE Animation(WithQueue(x, e, WithSentinel(rest)), e, Head(rest), AfterCall)
  /\ UNCHANGED <<calls, threw, meddled>>

DoStart ==
  /\ CallIs("start")
  /\ Animation(fx, Call.e, Call.item, AfterCall)
  /\ UNCHANGED <<calls, threw, meddled>>

\* opt.complete: the page's callback, then the next in the queue.
DoComplete ==
  /\ CallIs("complete")
  /\ LET an == fx.anim[Call.a]
     IN run' = AfterCall \o (IF an.queued THEN Todo(<<DequeueCall(an.elem)>>) ELSE <<>>)
                         \o <<FnFrame(Call.a)>>
  /\ UNCHANGED <<fx, calls, threw, meddled>>

\* One animation beside the queue less: perhaps that was the last of all.
UnqueuedEnds(x, e, h) ==
  LET y == [x EXCEPT !.hooks = Counted(@, h, -1)]
  IN  IF Queue(x, e) = <<>> THEN EmptyFired(y, e, h) ELSE y

DoUnqueued ==
  /\ CallIs("unqueued")
  /\ LET an == fx.anim[Call.a]
     IN fx' = UnqueuedEnds(fx, an.elem, an.hooks)
  /\ run' = AfterCall
  /\ UNCHANGED <<calls, threw, meddled>>

Return ==
  /\ TopIs("fn")
  /\ run' = Below
  /\ UNCHANGED <<fx, calls, threw, meddled>>

\* Bound: the page's script makes no more calls; the interval goes on.
Throw ==
  /\ TopIs("fn")
  /\ run' = <<>> /\ threw' = TRUE /\ calls' = 0
  /\ UNCHANGED <<fx, meddled>>

-----------------------------------------------------------------------------
(***************************************************************************)
(* jQuery.fx.tick.  A timer is called and, if it is over and still there,  *)
(* taken out of the list.                                                  *)
(***************************************************************************)

TickFrame(i, over) == [f |-> "tick", i |-> i, over |-> over]

Tick ==
  /\ run = <<>> /\ fx.ticking
  /\ run' = <<TickFrame(1, 0)>>
  /\ UNCHANGED <<fx, calls, threw, meddled>>

\* The next timer: time goes on by a frame, or to the end.
TimerCalled ==
  /\ TopIs("tick") /\ Top.over = 0 /\ Top.i <= Len(fx.timers)
  /\ LET a == fx.timers[Top.i]
         an == fx.anim[a]
     IN IF an.stopped THEN run' = WithTop(TickFrame(Top.i, a)) /\ UNCHANGED fx
        ELSE \E percent \in {1, 2} :
          /\ an.percent < percent \/ percent = 2
          /\ LET x == Tweened([fx EXCEPT !.anim[a].percent = percent], a, percent)
             IN IF percent < 2 THEN fx' = x /\ run' = WithTop(TickFrame(Top.i + 1, 0))
                ELSE IF an.state = "pending"
                THEN fx' = Resolved(x, a) /\ run' = WithTop(TickFrame(Top.i, a)) \o Todo(DoneCalls(x, a))
                ELSE fx' = x /\ run' = WithTop(TickFrame(Top.i, a))
  /\ UNCHANGED <<calls, threw, meddled>>

\* Mutation of TakenOut: a timer that is over stays.
NotTakenOut(timers, i, a) == timers

TakenOut(timers, i, a) == IF i <= Len(timers) /\ timers[i] = a THEN RemoveAt(timers, i) ELSE timers

TimerOver ==
  /\ TopIs("tick") /\ Top.over # 0
  /\ LET left == TakenOut(fx.timers, Top.i, Top.over)
     IN /\ fx' = [fx EXCEPT !.timers = left]
        /\ run' = WithTop(TickFrame(IF left = fx.timers THEN Top.i + 1 ELSE Top.i, 0))
  /\ UNCHANGED <<calls, threw, meddled>>

TickOver ==
  /\ TopIs("tick") /\ Top.over = 0 /\ Top.i > Len(fx.timers)
  /\ fx' = [fx EXCEPT !.ticking = fx.timers # <<>>]
  /\ run' = Below
  /\ UNCHANGED <<calls, threw, meddled>>

-----------------------------------------------------------------------------
(***************************************************************************)
(* stop( clearQueue, gotoEnd ) and finish(): from the last timer to the    *)
(* first, by index; `splice' is a timer that was stopped and is to be      *)
(* taken out.  An index beyond the list, which a callback has shortened,   *)
(* is a TypeError.                                                         *)
(***************************************************************************)

StopFrame(e, i, gotoEnd, dequeue, then) ==
  [f |-> "stop", e |-> e, i |-> i, gotoEnd |-> gotoEnd, dequeue |-> dequeue, splice |-> FALSE, then |-> then]

\* Whether timer i is one to be stopped; a settled one has no element any more.
IsOf(i, e, onlyQueued) ==
  LET an == fx.anim[fx.timers[i]]
  IN  an.elem = e /\ an.state = "pending" /\ (onlyQueued => an.queued)

StopNext ==
  /\ TopIs("stop") /\ ~Top.splice /\ Top.i > 0
  /\ IF Top.i > Len(fx.timers) THEN run' = <<>> /\ threw' = TRUE /\ calls' = 0 /\ UNCHANGED fx
     ELSE /\ IF IsOf(Top.i, Top.e, Top.then # <<>>)
             THEN LET a == fx.timers[Top.i]
                  IN /\ fx' = Stopped(fx, a, Top.gotoEnd)
                     /\ run' = WithTop([Top EXCEPT !.splice = TRUE, !.dequeue = FALSE])
                                 \o Todo(StopCalls(fx, a, Top.gotoEnd))
             ELSE run' = WithTop([Top EXCEPT !.i = @ - 1]) /\ UNCHANGED fx
          /\ UNCHANGED <<calls, threw>>
  /\ UNCHANGED meddled

StopSplice ==
  /\ TopIs("stop") /\ Top.splice
  /\ fx' = [fx EXCEPT !.timers = IF Top.i <= Len(@) THEN RemoveAt(@, Top.i) ELSE @]
  /\ run' = WithTop([Top EXCEPT !.splice = FALSE, !.i = @ - 1])
  /\ UNCHANGED <<calls, threw, meddled>>

\* stop goes on with the queue if no animation was brought to its end; finish
\* runs all that was queued, each to its end.
StopOver ==
  /\ TopIs("stop") /\ Top.i = 0
  /\ run' = Below \o Todo(IF Top.then # <<>> THEN Top.then
                          ELSE IF Top.dequeue \/ ~Top.gotoEnd THEN <<DequeueCall(Top.e)>> ELSE <<>>)
  /\ UNCHANGED <<fx, calls, threw, meddled>>

\* delete data.finish.
DoFinished ==
  /\ CallIs("finished")
  /\ fx' = [fx EXCEPT !.el[Call.e].finish = FALSE]
  /\ run' = AfterCall
  /\ UNCHANGED <<calls, threw, meddled>>

FxSteps ==
  \/ DoDequeue \/ DoStart \/ DoComplete \/ DoUnqueued \/ TimerCalled \/ TimerOver \/ TickOver
  \/ StopNext \/ StopSplice \/ StopOver \/ DoFinished

-----------------------------------------------------------------------------
(***************************************************************************)
(* What the page calls.  Anims: bound on animations.                       *)
(***************************************************************************)

\* animate, show, hide and toggle with a speed; queue: false runs beside.
Animated(e, what, queued, rest) ==
  LET item == [what |-> what, queued |-> queued]
      q == Append(Queue(fx, e), item)
  IN  IF queued
      THEN /\ fx' = WithQueue(Hooked(fx, e), e, q)
           /\ run' = rest \o (IF Head(q) = Sentinel THEN <<>> ELSE Todo(<<DequeueCall(e)>>))
      ELSE UNCHANGED fx /\ run' = rest \o Todo(<<StartCall(e, item)>>)

Meddles == meddled' = (meddled \/ run # <<>>)
StopMeddles == meddled' = (meddled \/ \E i \in DOMAIN run : run[i].f = "stop")

\* stop: clearing the queue throws the sentinel away too, and dequeues.
StopAll(e, clearQueue, gotoEnd) ==
  /\ LET x == WithQueue(Hooked(fx, e), e, <<>>)
     IN fx' = IF clearQueue THEN EmptyFired(x, e, x.el[e].hooks) ELSE fx
  /\ run' = Append(run, StopFrame(e, Len(fx.timers), gotoEnd, TRUE, <<>>))
  /\ Meddles

FinishAll(e) ==
  /\ LET items == Waiting(Queue(fx, e))
         after == [i \in DOMAIN items |-> StartCall(e, items[i])] \o <<[op |-> "finished", e |-> e]>>
     IN /\ fx' = [fx EXCEPT !.el[e] = [@ EXCEPT !.finish = TRUE, !.queue = <<>>]]
        /\ run' = Append(run, StopFrame(e, Len(fx.timers), TRUE, FALSE, after))
  /\ Meddles

\* remove(): the element's data goes, its animations stay.
Removed(x, e) ==
  [x EXCEPT !.el[e] = [@ EXCEPT !.inDocument = FALSE, !.queue = Nothing, !.hooks = 0,
                                !.fxshow = Nothing, !.finish = FALSE]]

Spend == PageRuns /\ calls > 0 /\ calls' = calls - 1 /\ UNCHANGED threw

PageCalls ==
  \E e \in Elem :
    \/ \E what \in Scripted, queued \in BOOLEAN :
         Spend /\ Animated(e, what, queued, run) /\ StopMeddles
    \/ \E clearQueue, gotoEnd \in BOOLEAN : Spend /\ StopAll(e, clearQueue, gotoEnd)
    \/ Spend /\ FinishAll(e)
    \/ Spend /\ fx' = Removed(fx, e) /\ UNCHANGED <<run, meddled>>

-----------------------------------------------------------------------------
(***************************************************************************)
(* What holds.                                                             *)
(***************************************************************************)

Running(e) == {a \in DOMAIN fx.anim : fx.anim[a].elem = e /\ fx.anim[a].state = "pending"}

(***************************************************************************)
(* Of the animations in an element's queue one runs at a time, as long as  *)
(* it is in the document and no callback stops animations: the sentinel    *)
(* keeps the next one waiting until the complete callback, stop or finish  *)
(* is through.                                                             *)
(***************************************************************************)
OneAtATime ==
  ~meddled => \A e \in Elem :
    fx.el[e].inDocument => Cardinality({a \in Running(e) : fx.anim[a].queued}) <= 1

(***************************************************************************)
(* In the end every animation is over, the interval is cleared, and        *)
(* nothing waits in a queue: whichever way an animation went, beside the   *)
(* queue or in it, even of an element that was removed meanwhile, the      *)
(* queue went on.  (Where no callback threw, or stopped animations.)       *)
(***************************************************************************)
AllEnds ==
  <>[](/\ run = <<>> /\ fx.timers = <<>> /\ ~fx.ticking
       /\ threw \/ meddled \/ \A e \in Elem : Queue(fx, e) = <<>>)
=============================================================================
