----------------------------- MODULE PageProofs -----------------------------
(***************************************************************************)
(* Proofs about the page, for any lists, Deferreds, requests, functions    *)
(* and scripts: every step of callbacks, Deferreds, requests and ready     *)
(* keeps the invariant of PageLemmas, and is a step of Promise or none.    *)
(***************************************************************************)
EXTENDS PageLemmas

-----------------------------------------------------------------------------
(***************************************************************************)
(* Calls in a row.                                                         *)
(***************************************************************************)

LEMMA CallsNone == ASSUME NEW L PROVE CallsOK(<<>>, L)
<1>1. Stack(<<>>) /\ \A i \in 1..Len(<<>>) : FALSE
  BY StackEmpty
<1> QED
  BY <1>1 DEF CallsOK

LEMMA CallsOne ==
  ASSUME NEW L, NEW x, CallOK(x, L)
  PROVE  CallsOK(<<x>>, L)
<1>1. PICK s : s = <<x>> /\ Stack(s) /\ Len(s) = 1 /\ s[1] = x
  BY StackOne
<1>2. \A i \in 1..Len(s) : i = 1
  BY <1>1
<1> QED
  BY <1>1, <1>2 DEF CallsOK

LEMMA CallsConcat ==
  ASSUME NEW L, NEW s, CallsOK(s, L), NEW t, CallsOK(t, L)
  PROVE  CallsOK(s \o t, L)
<1>1. Stack(s) /\ Stack(t) /\ Len(s) \in Nat /\ Len(t) \in Nat
  BY StackLen DEF CallsOK
<1>2. PICK r : r = s \o t
  OBVIOUS
<1>3. /\ Stack(r) /\ Len(r) = Len(s) + Len(t)
      /\ \A i \in 1..Len(s) : r[i] = s[i]
      /\ \A i \in Len(s) + 1..Len(s) + Len(t) : r[i] = t[i - Len(s)]
  BY <1>1, <1>2, StackConcat
<1>4. \A i \in 1..Len(r) : \/ i \in 1..Len(s) /\ r[i] = s[i]
                           \/ i - Len(s) \in 1..Len(t) /\ r[i] = t[i - Len(s)]
  BY <1>1, <1>3
<1> QED
  BY <1>2, <1>3, <1>4 DEF CallsOK

LEMMA CallsTwo ==
  ASSUME NEW L, NEW x, CallOK(x, L), NEW y, CallOK(y, L)
  PROVE  CallsOK(<<x, y>>, L)
<1>1. <<x, y>> = <<x>> \o <<y>>
  OBVIOUS
<1> QED
  BY <1>1, CallsOne, CallsConcat

LEMMA CallsThree ==
  ASSUME NEW L, NEW x, CallOK(x, L), NEW y, CallOK(y, L), NEW z, CallOK(z, L)
  PROVE  CallsOK(<<x, y, z>>, L)
<1>1. <<x, y, z>> = <<x, y>> \o <<z>>
  OBVIOUS
<1>2. CallsOK(<<x, y>>, L) /\ CallsOK(<<z>>, L)
  BY CallsTwo, CallsOne
<1> QED
  BY <1>1, <1>2, CallsConcat

LEMMA CallsFour ==
  ASSUME NEW L, NEW w, CallOK(w, L), NEW x, CallOK(x, L), NEW y, CallOK(y, L), NEW z, CallOK(z, L)
  PROVE  CallsOK(<<w, x, y, z>>, L)
<1>1. <<w, x, y, z>> = <<w, x, y>> \o <<z>>
  OBVIOUS
<1>2. CallsOK(<<w, x, y>>, L) /\ CallsOK(<<z>>, L)
  BY CallsThree, CallsOne
<1> QED
  BY <1>1, <1>2, CallsConcat

LEMMA AddCallOK ==
  ASSUME NEW L, NEW l \in L \ {OwnList}, NEW x, Addable(x, L),
         l = <<ReadyList, "done">> => x \in {OfPage(fn) : fn \in Fn}
  PROVE  CallOK(AddCall(l, x), L)
BY DEF CallOK, AddCall

LEMMA FireCallOK ==
  ASSUME NEW L, NEW l \in L \ {OwnList}, l # <<ReadyList, "fail">>, NEW v
  PROVE  CallOK(FireCall(l, v), L)
BY DEF CallOK, FireCall

\* The page's own list is none of these.
LEMMA NotOwn ==
  /\ \A d \in DefId, a \in Action : <<d, a>> # OwnList
  /\ \A q \in ReqId, a \in {"done", "fail", "complete"} : <<q, a>> # OwnList
<1>1. \A d \in DefId, a \in Action : <<d, a>> # OwnList
  BY ScriptsAssumption
<1>2. \A q \in ReqId : q \in DefId
  BY AjaxAssumption
<1>3. \A q \in ReqId : <<q, "complete">> # OwnList
  BY ScriptsAssumption
<1> QED
  BY <1>1, <1>2, <1>3 DEF Action

\* The lists of a Deferred.
LEMMA MadeLists ==
  ASSUME PageOK, NEW d \in DefId, Made(d), NEW a \in Action
  PROVE  <<d, a>> \in DOMAIN cb \ {OwnList} /\ {d} \X Action \subseteq DOMAIN cb
BY ScriptsAssumption DEF PageOK

LEMMA RestsAfter ==
  ASSUME Inv, NEW op, CallIs(op)
  PROVE  /\ Rests(AfterCall, DOMAIN cb) /\ FromRun(AfterCall)
         /\ CallOK(Call, DOMAIN cb) /\ Call.op = op /\ NothingEarly
<1>1. TopIs("todo") /\ Call.op = op
  BY DEF CallIs, Call
<1>2. /\ Rests(Below, DOMAIN cb) /\ FromRun(Below) /\ Len(run) \in Nat \ {0}
  BY <1>1, RestsBelow DEF Inv
<1>3. IsTodo(Top, DOMAIN cb)
  <2>1. PICK n \in 1..Len(run) : Top = run[n]
    BY <1>2 DEF Top
  <2>2. IsFire(Top, DOMAIN cb) \/ IsFn(Top, DOMAIN cb) \/ IsTodo(Top, DOMAIN cb)
    BY <2>1 DEF Inv, StackOK, Frames
  <2> QED
    BY <1>1, <2>2 DEF IsFire, IsFn, TopIs
<1>4. PICK q : q = Top.todo
  OBVIOUS
<1>5. q # <<>> /\ Stack(q) /\ \A i \in 1..Len(q) : CallOK(q[i], DOMAIN cb)
  BY <1>3, <1>4 DEF IsTodo, CallsOK
<1>6. /\ Stack(Tail(q)) /\ Len(Tail(q)) = Len(q) - 1 /\ Len(q) \in Nat \ {0}
      /\ \A i \in 1..Len(q) - 1 : Tail(q)[i] = q[i + 1]
      /\ Head(q) = q[1]
  BY <1>5, StackTail
<1>7. CallOK(Head(q), DOMAIN cb)
  BY <1>5, <1>6
<1>8. CallsOK(Tail(q), DOMAIN cb)
  <2>1. \A i \in 1..Len(Tail(q)) : i \in 1..Len(q) - 1 /\ i + 1 \in 1..Len(q)
    BY <1>6
  <2> QED
    BY <1>5, <1>6, <2>1 DEF CallsOK
<1>9. Rests(Below \o Todo(Tail(q)), DOMAIN cb) /\ FromRun(Below \o Todo(Tail(q)))
  BY <1>2, <1>8, RestsTodo
<1>10. NothingEarly
  BY <1>1, OutsideLoops
<1> QED
  BY <1>1, <1>4, <1>7, <1>9, <1>10 DEF AfterCall, Call

-----------------------------------------------------------------------------
(***************************************************************************)
(* A loop calls a function of the page: it is told how the Deferred        *)
(* settled, if the list is one of a Deferred.                              *)
(***************************************************************************)
LEMMA RestsTell ==
  ASSUME NEW s, Rests(s, DOMAIN cb), NEW x, IsFn(x, DOMAIN cb),
         x.l \in SettlingList => x.l \in DOMAIN cb /\ cb[x.l].fired /\ x.v = cb[x.l].memory
  PROVE  Rests(Append(s, x), DOMAIN cb)
<1>1. PICK r : r = Append(s, x)
  OBVIOUS
<1>2. Stack(s) /\ Len(s) \in Nat
  BY StackLen DEF Rests, Frames
<1>3. /\ Stack(r) /\ Len(r) = Len(s) + 1
      /\ \A i \in 1..Len(s) : r[i] = s[i]
      /\ r[Len(s) + 1] = x
  BY <1>1, <1>2, StackPush
<1>4. \A i \in 1..Len(r) : r[i] = x \/ (i \in 1..Len(s) /\ r[i] = s[i])
  BY <1>2, <1>3
<1>5. \A i \in 1..Len(s) : i \in 1..Len(r)
  BY <1>2, <1>3
<1>6. x.f = "fn"
  BY DEF IsFn
<1>7. Frames(r, DOMAIN cb)
  BY <1>3, <1>4 DEF Rests, Frames
<1>8. Paused(r, Len(r))
  BY <1>4, <1>6 DEF Rests, Paused
<1>9. OneLoop(r)
  BY <1>4, <1>6 DEF Rests, OneLoop, LoopAt
<1>10. ToldRight(r, cb)
  BY <1>4 DEF Rests, ToldRight
<1>11. \A l : Looping(r, l) <=> Looping(s, l)
  BY <1>3, <1>4, <1>5, <1>6 DEF Looping, LoopAt
<1> QED
  BY <1>1, <1>7, <1>8, <1>9, <1>10, <1>11 DEF Rests

LEMMA OutcomeOfFired ==
  ASSUME Inv, NEW d \in DefId, NEW a \in Settling, <<d, a>> \in DOMAIN cb, cb[<<d, a>>].fired
  PROVE  /\ OutcomeOf(d).how = StateOf(a) /\ OutcomeOf(d).with = cb[<<d, a>>].memory
         /\ OutcomeOf(d).how \in {"resolved", "rejected"}
<1>1. Made(d)
  BY DEF Inv, PageOK, Settling, Action
<1>2. PICK l : l = <<d, a>> /\ l \in SettlingList /\ Partner(l) = <<d, Other(a)>>
  BY DEF SettlingList, Partner
<1>3. ~cb[<<d, Other(a)>>].fired
  BY <1>2 DEF Inv, Settled
<1>4. CASE a = "done"
  BY <1>1, <1>4 DEF OutcomeOf, StateOf
<1>5. CASE a = "fail"
  <2>1. ~cb[<<d, "done">>].fired
    BY <1>3, <1>5 DEF Other
  <2> QED
    BY <1>1, <1>5, <2>1 DEF OutcomeOf, StateOf
<1> QED
  BY <1>4, <1>5 DEF Settling

LEMMA TellStep ==
  ASSUME Inv, PageOK', NothingEarly, threw' = threw, TopIs("fire"),
         ListsOK(cb'), Keeps(cb'), DOMAIN cb' = DOMAIN cb,
         NEW fn, NEW to, to = Nothing \/ Ref(to, DOMAIN cb),
         run' = Append(Goto("calling"), FnFrame(fn, Top.l, Top.v, to))
  PROVE  Inv' /\ Kept
<1>1. PICK s : s = Goto("calling")
  OBVIOUS
<1>2. /\ Rests(s, DOMAIN cb) /\ FromRun(s)
      /\ Len(run) \in Nat \ {0} /\ IsFire(Top, DOMAIN cb)
      /\ Stack(s) /\ Len(s) = Len(run)
      /\ s[Len(run)] = [f |-> "fire", l |-> Top.l, v |-> Top.v, pc |-> "calling"]
      /\ \A i \in 1..Len(run) - 1 : s[i] = run[i]
  BY <1>1, RestsCalling DEF Inv
<1>3. PICK l, v : l = Top.l /\ v = Top.v
  OBVIOUS
<1>4. PICK x : x = FnFrame(fn, l, v, to)
  OBVIOUS
<1>5. PICK n : n = Len(run) /\ n \in 1..Len(run) /\ Top = run[n]
  BY <1>2 DEF Top
<1>6. l \in DOMAIN cb /\ Top.f = "fire"
  BY <1>2, <1>3 DEF IsFire
<1>7. l \in SettlingList => cb[l].fired /\ v = cb[l].memory
  BY <1>3, <1>5, <1>6 DEF Inv, StackOK, ToldRight
<1>8. /\ x = [f |-> "fn", fn |-> fn, l |-> l, v |-> v, to |-> to]
      /\ x.f = "fn" /\ x.l = l /\ x.v = v /\ x.to = to /\ x.fn = fn
  BY <1>4 DEF FnFrame
<1>9. IsFn(x, DOMAIN cb)
  BY <1>6, <1>8 DEF IsFn
<1>10. PICK r : r = Append(s, x) /\ run' = r
  BY <1>1, <1>3, <1>4
<1>11. Rests(r, DOMAIN cb)
  BY <1>2, <1>6, <1>7, <1>8, <1>9, <1>10, RestsTell
<1>12. Inv' /\ (FromRun(run') => Silent)
  <2>1. Rests(run', DOMAIN cb')
    BY <1>10, <1>11
  <2> QED
    BY <2>1, CalmStep DEF NothingEarly
<1>13. /\ Stack(r) /\ Len(r) = Len(run) + 1 /\ Len(r) \in Nat
       /\ \A i \in 1..Len(s) : r[i] = s[i]
       /\ r[Len(r)] = x
  BY <1>2, <1>10, StackPush
<1>14. \A i \in 1..Len(s) : s[i].f = "fn" => i \in 1..Len(run) /\ s[i] = run[i]
  <2>1. \A i \in 1..Len(s) : i = Len(run) \/ i \in 1..Len(run) - 1
    BY <1>2
  <2> QED
    BY <1>2, <2>1
<1>15. \A i \in 1..Len(run) : run[i].f = "fn" => i \in 1..Len(s) /\ s[i] = run[i]
  <2>1. \A i \in 1..Len(run) : i = n \/ i \in 1..Len(run) - 1
    BY <1>2, <1>5
  <2> QED
    BY <1>2, <1>5, <1>6, <2>1
<1>16. \A i \in 1..Len(r) : i = Len(r) \/ (i \in 1..Len(s) /\ r[i] = s[i])
  BY <1>2, <1>13
<1>17. CASE l \notin SettlingList
  <2>1. FromRun(r)
    BY <1>8, <1>13, <1>14, <1>16, <1>17 DEF FromRun
  <2> QED
    BY <1>10, <1>12, <2>1 DEF Kept
<1>18. CASE l \in SettlingList
  <2>1. PICK d \in DefId, a \in Settling : l = <<d, a>>
    BY <1>18 DEF SettlingList
  <2>2. OutcomeOf(d).how = StateOf(a) /\ OutcomeOf(d).with = v /\ OutcomeOf(d).how \in {"resolved", "rejected"}
    BY <1>6, <1>7, <1>18, <2>1, OutcomeOfFired
  <2>3. PICK t : t = [of |-> d, how |-> OutcomeOf(d).how, with |-> OutcomeOf(d).with]
    OBVIOUS
  <2>4. t = [of |-> l[1], how |-> StateOf(l[2]), with |-> v]
    BY <2>1, <2>2, <2>3
  <2>5. DOMAIN run = 1..Len(run) /\ DOMAIN run' = 1..Len(r)
    BY <1>10, <1>13, StackLen DEF Inv, StackOK, Frames
  <2>6. TellingOf' \subseteq TellingOf \union {t}
    <3> SUFFICES ASSUME NEW y \in TellingOf' PROVE y \in TellingOf \/ y = t
      OBVIOUS
    <3>1. PICK i \in 1..Len(r) :
            /\ r[i].f = "fn" /\ r[i].l \in DefId \X Settling
            /\ y = [of |-> r[i].l[1], how |-> StateOf(r[i].l[2]), with |-> r[i].v]
      BY <1>10, <2>5 DEF TellingOf
    <3>2. CASE i = Len(r)
      BY <1>8, <1>13, <2>4, <3>1, <3>2
    <3>3. CASE i \in 1..Len(s) /\ r[i] = s[i]
      <4>1. i \in 1..Len(run) /\ r[i] = run[i]
        BY <1>14, <3>1, <3>3
      <4> QED
        BY <2>5, <3>1, <4>1 DEF TellingOf
    <3> QED
      BY <1>16, <3>2, <3>3
  <2>7. TellingOf \subseteq TellingOf'
    <3> SUFFICES ASSUME NEW y \in TellingOf PROVE y \in TellingOf'
      OBVIOUS
    <3>1. PICK i \in 1..Len(run) :
            /\ run[i].f = "fn" /\ run[i].l \in DefId \X Settling
            /\ y = [of |-> run[i].l[1], how |-> StateOf(run[i].l[2]), with |-> run[i].v]
      BY <2>5 DEF TellingOf
    <3>2. i \in 1..Len(s) /\ i \in 1..Len(r) /\ r[i] = run[i]
      <4>1. i \in 1..Len(s) /\ s[i] = run[i]
        BY <1>15, <3>1
      <4> QED
        BY <1>2, <1>13, <4>1
    <3> QED
      BY <1>10, <2>5, <3>1, <3>2 DEF TellingOf
  <2>8. t \in TellingOf'
    <3>1. Len(r) \in 1..Len(r)
      BY <1>2, <1>13
    <3>2. r[Len(r)].f = "fn" /\ r[Len(r)].l = l /\ r[Len(r)].v = v
      BY <1>8, <1>13
    <3> QED
      BY <1>10, <1>18, <2>4, <2>5, <3>1, <3>2 DEF TellingOf, SettlingList
  <2>9. TellingOf' = TellingOf \union {t}
    BY <2>6, <2>7, <2>8
  <2>10. \A e \in DefId : OutcomeOf(e)' = OutcomeOf(e)
    BY SameOutcome DEF Inv
  <2>11. Tells(d)
    BY <2>2, <2>3, <2>9, <2>10 DEF Tells
  <2> QED
    BY <1>12, <2>1, <2>11 DEF Kept
<1> QED
  BY <1>17, <1>18

-----------------------------------------------------------------------------
(***************************************************************************)
(* The callbacks a loop calls.                                             *)
(***************************************************************************)

\* A callback of the first three is where it belongs.
LEMMA FirstCallback ==
  ASSUME Inv, NEW k, Calling(k), k \in {"state", "disable", "lock"}
  PROVE  \E d \in DefId, a \in Settling :
           /\ Top.l = <<d, a>> /\ Made(d) /\ cb[Top.l].fired
           /\ k = "state" => cb[Top.l].firingIndex = 0 /\ Callback = SetState(d, a)
           /\ k = "disable" => cb[Top.l].firingIndex = 1 /\ Callback = DisableList(<<d, Other(a)>>)
           /\ k = "lock" => cb[Top.l].firingIndex = 2 /\ Callback = LockList(<<d, "progress">>)
<1>1. PICK c, i, l : c = Callback /\ i = cb[Top.l].firingIndex + 1 /\ l = Top.l
  OBVIOUS
<1>2. /\ l \in DOMAIN cb /\ c.k = k
      /\ Addable(c, DOMAIN cb) \/ OneOfFirst(l, i, c)
      /\ l \in SettlingList => cb[l].fired
      /\ cb[l].firingIndex + 1 \in 1..Len(cb[l].list) /\ Enabled(cb[l])
  BY <1>1, CallbackOK
<1>3. ~Addable(c, DOMAIN cb)
  BY <1>2 DEF Addable
<1>4. l \in SettlingList /\ i \in 1..3 /\ c = FirstCallbacks(l[1], l[2])[i]
  BY <1>2, <1>3 DEF OneOfFirst
<1>5. PICK d \in DefId, a \in Settling : l = <<d, a>>
  BY <1>4 DEF SettlingList
<1>6. Made(d)
  BY <1>2, <1>5 DEF Inv, PageOK, Settling, Action
<1>7. cb[l].firingIndex \in Int
  <2>1. ListOK(l, cb[l], DOMAIN cb)
    BY <1>2 DEF Inv, ListsOK
  <2> QED
    BY <2>1 DEF ListOK, ListShape
<1>8. c = <<SetState(d, a), DisableList(<<d, Other(a)>>), LockList(<<d, "progress">>)>>[i]
  BY <1>4, <1>5 DEF FirstCallbacks
<1>9. CASE i = 1
  <2>1. c = SetState(d, a) /\ cb[l].firingIndex = 0
    BY <1>1, <1>7, <1>8, <1>9
  <2>2. k = "state"
    BY <1>2, <2>1 DEF SetState
  <2> QED
    BY <1>1, <1>2, <1>4, <1>5, <1>6, <2>1, <2>2
<1>10. CASE i = 2
  <2>1. c = DisableList(<<d, Other(a)>>) /\ cb[l].firingIndex = 1
    BY <1>1, <1>7, <1>8, <1>10
  <2>2. k = "disable"
    BY <1>2, <2>1 DEF DisableList
  <2> QED
    BY <1>1, <1>2, <1>4, <1>5, <1>6, <2>1, <2>2
<1>11. CASE i = 3
  <2>1. c = LockList(<<d, "progress">>) /\ cb[l].firingIndex = 2
    BY <1>1, <1>7, <1>8, <1>11
  <2>2. k = "lock"
    BY <1>2, <2>1 DEF LockList
  <2> QED
    BY <1>1, <1>2, <1>4, <1>5, <1>6, <2>1, <2>2
<1>12. i = 1 \/ i = 2 \/ i = 3
  BY <1>4
<1> QED
  BY <1>9, <1>10, <1>11, <1>12

\* The stack of a loop that has called one.
LEMMA CalledStack ==
  ASSUME Inv, TopIs("fire")
  PROVE  LET s == Goto("calling")
         IN  /\ s # <<>> /\ LoopAt(s, Len(s), Top.l) /\ s[Len(s)].pc = "calling"
             /\ Rests(s, DOMAIN cb) /\ FromRun(s)
<1>1. PICK s : s = Goto("calling")
  OBVIOUS
<1>2. /\ Rests(s, DOMAIN cb) /\ FromRun(s)
      /\ Len(run) \in Nat \ {0} /\ Stack(s) /\ Len(s) = Len(run)
      /\ s[Len(run)] = [f |-> "fire", l |-> Top.l, v |-> Top.v, pc |-> "calling"]
  BY <1>1, RestsCalling DEF Inv
<1>3. s # <<>>
  BY <1>2, StackLen
<1> QED
  BY <1>1, <1>2, <1>3 DEF LoopAt

LEMMA CallStateOK ==
  ASSUME Inv, CallState, UNCHANGED req
  PROVE  Inv' /\ Kept
<1>1. Calling("state") /\ run' = Goto("calling") /\ cb' = cb /\ threw' = threw /\ calls' = calls /\ own' = own
      /\ state' = [state EXCEPT ![Callback.d] = Callback.s]
  BY DEF CallState
<1>2. PICK d \in DefId, a \in Settling :
        /\ Top.l = <<d, a>> /\ Made(d) /\ cb[Top.l].fired
        /\ cb[Top.l].firingIndex = 0 /\ Callback = SetState(d, a)
  <2>1. PICK k : k = "state"
    OBVIOUS
  <2>2. Calling(k) /\ k \in {"state", "disable", "lock"}
    BY <1>1, <2>1
  <2> QED
    BY <2>1, <2>2, FirstCallback
<1>3. Callback.d = d /\ Callback.s \in {"resolved", "rejected"}
  BY <1>2 DEF SetState, StateOf
<1>4. /\ state' \in [DefId -> {"none", "pending", "resolved", "rejected"}]
      /\ \A e \in DefId : Made(e)' <=> Made(e)
  BY <1>1, <1>2, <1>3 DEF Inv, PageOK, Made
<1>5. PageOK'
  BY <1>1, <1>4 DEF Inv, PageOK
<1>6. TopIs("fire")
  BY <1>1 DEF Calling
<1>7. PICK s : s = Goto("calling") /\ run' = s
  BY <1>1
<1>8. /\ s # <<>> /\ LoopAt(s, Len(s), Top.l) /\ s[Len(s)].pc = "calling"
      /\ Rests(s, DOMAIN cb) /\ FromRun(s)
  BY <1>6, <1>7, CalledStack
<1>9. Keeps(cb') /\ ListsOK(cb')
  BY <1>1, KeepsSame DEF Inv
<1>10. ASSUME NEW m \in SettlingList, Early(cb, run, m)
       PROVE  Early(cb, s, m)
  <2>1. m = Top.l /\ Enabled(cb[m]) /\ HasFirstThree(m, cb[m].list) /\ cb[m].firingLength >= 3
    BY <1>10 DEF Early, LoopAt, Top
  <2> QED
    BY <1>2, <1>8, <2>1 DEF Early
<1> QED
  BY <1>1, <1>5, <1>7, <1>8, <1>9, <1>10, CalmStep DEF Kept

LEMMA CallDisableOK ==
  ASSUME Inv, CallDisable, UNCHANGED req
  PROVE  Inv' /\ Kept
<1>1. Calling("disable") /\ run' = Goto("calling") /\ threw' = threw /\ UNCHANGED <<calls, state, own>>
      /\ cb' = [cb EXCEPT ![Callback.l] = Disabled(@)]
  BY DEF CallDisable
<1>2. PICK d \in DefId, a \in Settling :
        /\ Top.l = <<d, a>> /\ Made(d) /\ cb[Top.l].fired
        /\ Callback = DisableList(<<d, Other(a)>>)
  <2>1. PICK k : k = "disable"
    OBVIOUS
  <2>2. Calling(k) /\ k \in {"state", "disable", "lock"}
    BY <1>1, <2>1
  <2> QED
    BY <2>1, <2>2, FirstCallback
<1>3. PICK l, p : l = Top.l /\ p = Partner(l)
  OBVIOUS
<1>4. l \in SettlingList /\ l \in DOMAIN cb /\ cb[l].fired /\ p = <<d, Other(a)>>
  <2>1. l = <<d, a>> /\ a \in Action
    BY <1>2, <1>3 DEF Settling, Action
  <2>2. l \in DOMAIN cb
    BY <1>2, <2>1 DEF Inv, PageOK
  <2> QED
    BY <1>2, <1>3, <2>1, <2>2 DEF SettlingList, Partner
<1>5. p \in DOMAIN cb /\ p \in SettlingList
  BY <1>3, <1>4, PartnersMade DEF Inv
<1>6. PICK o, q : o = cb[p] /\ q = Disabled(o)
  OBVIOUS
<1>7. ~o.fired /\ ListOK(p, o, DOMAIN cb) /\ SettlingOK(p, o)
  BY <1>3, <1>4, <1>5, <1>6 DEF Inv, Settled, ListsOK
<1>8. o.memory = Nothing
  BY <1>7 DEF SettlingOK
<1>9. /\ ListOK(p, q, DOMAIN cb) /\ SettlingOK(p, q)
      /\ q.firing = o.firing /\ q.fired = o.fired /\ q.memory = Nothing /\ ~Enabled(q)
  BY <1>5, <1>6, <1>7, DisabledOK
<1>10. cb' = [cb EXCEPT ![p] = q]
  <2>1. Callback.l = p
    BY <1>2, <1>4 DEF DisableList
  <2> QED
    BY <1>1, <1>6, <2>1
<1>11. /\ ListsOK(cb') /\ DOMAIN cb' = DOMAIN cb /\ cb'[p] = q
       /\ \A m \in DOMAIN cb : m # p => cb'[m] = cb[m]
  BY <1>5, <1>9, <1>10, ChangeList DEF Inv
<1>12. Keeps(cb')
  BY <1>6, <1>8, <1>9, <1>11 DEF Keeps
<1>13. PageOK'
  <2>1. PageOK /\ CallsLeft
    BY <1>1, SameCalls DEF Inv
  <2> QED
    BY <1>1, <1>11, <2>1, SamePage
<1>14. TopIs("fire")
  BY <1>1 DEF Calling
<1>15. Rests(run', DOMAIN cb') /\ FromRun(run')
  BY <1>1, <1>11, <1>14, CalledStack
<1>16. ASSUME NEW m \in SettlingList, Early(cb, run, m)
       PROVE  ~Enabled(cb'[Partner(m)])
  <2>1. m = l
    BY <1>3, <1>16 DEF Early, LoopAt, Top
  <2> QED
    BY <1>3, <1>9, <1>11, <2>1
<1> QED
  BY <1>1, <1>11, <1>12, <1>13, <1>15, <1>16, CalmStep DEF Kept

\* Nothing but a list changes, and none begins or ends a loop.
LEMMA LoopCalls ==
  ASSUME Inv, NEW k, Calling(k), k \notin {"state", "disable"}, UNCHANGED <<calls, threw, state, own, req>>
  PROVE  /\ DOMAIN cb' = DOMAIN cb => PageOK'
         /\ NothingEarly /\ TopIs("fire")
         /\ Rests(Goto("calling"), DOMAIN cb) /\ FromRun(Goto("calling"))
<1>1. PageOK /\ CallsLeft
  BY SameCalls DEF Inv
<1>2. DOMAIN cb' = DOMAIN cb => PageOK'
  BY <1>1, SamePage
<1>3. TopIs("fire")
  BY DEF Calling
<1>4. Rests(Goto("calling"), DOMAIN cb) /\ FromRun(Goto("calling"))
  BY <1>3, CalledStack
<1>5. NothingEarly
  BY LaterCallback
<1> QED
  BY <1>2, <1>3, <1>4, <1>5

LEMMA CallLockOK ==
  ASSUME Inv, CallLock, UNCHANGED req
  PROVE  Inv' /\ Kept
<1>1. Calling("lock") /\ run' = Goto("calling") /\ UNCHANGED <<calls, threw, state, own>>
      /\ cb' = [cb EXCEPT ![Callback.l] = Locked(@)]
  BY DEF CallLock
<1>2. PICK d \in DefId, a \in Settling :
        Top.l = <<d, a>> /\ Made(d) /\ Callback = LockList(<<d, "progress">>)
  <2>1. PICK k : k = "lock"
    OBVIOUS
  <2>2. Calling(k) /\ k \in {"state", "disable", "lock"}
    BY <1>1, <2>1
  <2> QED
    BY <2>1, <2>2, FirstCallback
<1>3. PICK p : p = <<d, "progress">>
  OBVIOUS
<1>4. p \in DOMAIN cb /\ p \notin SettlingList /\ Callback.l = p
  <2>1. "progress" \in Action
    BY DEF Action
  <2> QED
    BY <1>2, <1>3, <2>1 DEF Inv, PageOK, SettlingList, Settling, LockList
<1>5. PICK o, q : o = cb[p] /\ q = Locked(o)
  OBVIOUS
<1>6. ListOK(p, o, DOMAIN cb)
  BY <1>4, <1>5 DEF Inv, ListsOK
<1>7. ListOK(p, q, DOMAIN cb) /\ q.firing = o.firing
  BY <1>4, <1>5, <1>6, LockedOK
<1>8. cb' = [cb EXCEPT ![p] = q]
  BY <1>1, <1>4, <1>5
<1>9. /\ ListsOK(cb') /\ DOMAIN cb' = DOMAIN cb /\ cb'[p] = q
      /\ \A m \in DOMAIN cb : m # p => cb'[m] = cb[m]
  BY <1>4, <1>7, <1>8, ChangeList DEF Inv
<1>10. Keeps(cb')
  BY <1>4, <1>5, <1>7, <1>9 DEF Keeps
<1>11. PageOK' /\ NothingEarly /\ Rests(run', DOMAIN cb') /\ FromRun(run')
  BY <1>1, <1>9, LoopCalls
<1> QED
  BY <1>1, <1>9, <1>10, <1>11, CalmStep DEF Kept, NothingEarly

LEMMA CallSettleOK ==
  ASSUME Inv, CallSettle, UNCHANGED req
  PROVE  Inv' /\ Kept
<1>1. /\ Calling("settle") \/ Calling("then")
      /\ FireThen(Callback.l, Top.v, Goto("calling")) /\ UNCHANGED <<calls, threw, state, own>>
  BY DEF CallSettle
<1>2. PICK k \in {"settle", "then"} : Calling(k)
  BY <1>1
<1>3. Callback.l \in DOMAIN cb
  <2>1. Addable(Callback, DOMAIN cb) \/ OneOfFirst(Top.l, cb[Top.l].firingIndex + 1, Callback)
    BY <1>2, CallbackOK
  <2>2. Callback.k \in {"settle", "then"}
    BY <1>2 DEF Calling
  <2>3. ASSUME NEW i, OneOfFirst(Top.l, i, Callback) PROVE Callback.k \in {"state", "disable", "lock"}
    BY <2>3 DEF OneOfFirst, FirstCallbacks, SetState, DisableList, LockList
  <2>4. Addable(Callback, DOMAIN cb)
    BY <2>1, <2>2, <2>3
  <2> QED
    BY <2>2, <2>4 DEF Addable, Ref, Free
<1>4. DOMAIN cb' = DOMAIN cb
  BY <1>1 DEF FireThen
<1>5. PageOK' /\ NothingEarly /\ Rests(Goto("calling"), DOMAIN cb) /\ FromRun(Goto("calling"))
  BY <1>1, <1>2, <1>4, LoopCalls
<1> QED
  BY <1>1, <1>3, <1>5, FireStep DEF Kept

LEMMA CallThenOK ==
  ASSUME Inv, CallThen, UNCHANGED req
  PROVE  Inv' /\ Kept
<1>1. /\ Calling("then") /\ UNCHANGED <<cb, calls, threw, state, own>>
      /\ run' = Append(Goto("calling"), FnFrame(Callback.fn, Top.l, Top.v, Callback.l))
  BY DEF CallThen
<1>2. Ref(Callback.l, DOMAIN cb)
  <2>1. Addable(Callback, DOMAIN cb) \/ OneOfFirst(Top.l, cb[Top.l].firingIndex + 1, Callback)
    BY <1>1, CallbackOK
  <2>2. Callback.k = "then"
    BY <1>1 DEF Calling
  <2>3. ASSUME NEW i, OneOfFirst(Top.l, i, Callback) PROVE Callback.k \in {"state", "disable", "lock"}
    BY <2>3 DEF OneOfFirst, FirstCallbacks, SetState, DisableList, LockList
  <2> QED
    BY <2>1, <2>2, <2>3 DEF Addable
<1>3. PageOK' /\ NothingEarly /\ TopIs("fire")
  BY <1>1, LoopCalls
<1>4. Keeps(cb') /\ ListsOK(cb')
  BY <1>1, KeepsSame DEF Inv
<1> QED
  BY <1>1, <1>2, <1>3, <1>4, TellStep

LEMMA CallPageOK ==
  ASSUME Inv, CallPage, UNCHANGED req
  PROVE  Inv' /\ Kept
<1>1. /\ Calling("fn") /\ UNCHANGED <<calls, threw, state, own>>
      /\ run' = Append(Goto("calling"), FnFrame(Callback.fn, Top.l, Top.v, Nothing))
      /\ cb' = [cb EXCEPT ![Top.l].told = @ \union {Callback}]
  BY DEF CallPage, CallFn
<1>2. PICK l, o, t : l = Top.l /\ o = cb[l] /\ t = o.told \union {Callback}
  OBVIOUS
<1>3. l \in DOMAIN cb
  BY <1>1, <1>2, CallbackOK
<1>4. ListOK(l, o, DOMAIN cb) /\ (l \in SettlingList => SettlingOK(l, o))
  BY <1>2, <1>3 DEF Inv, ListsOK
<1>5. PICK op, l0, st, me, fd, fg, fi, fl, to, em :
        /\ o = [options |-> op, list |-> l0, stack |-> st, memory |-> me, fired |-> fd, firing |-> fg,
                firingStart |-> 0, firingIndex |-> fi, firingLength |-> fl, told |-> to, emptied |-> em]
        /\ fd \in BOOLEAN /\ fg \in BOOLEAN /\ fi \in Int /\ fl \in Int
  BY <1>4, ListFields DEF ListOK
<1>6. PICK q : q = [o EXCEPT !.told = t]
  OBVIOUS
<1>7. q = [options |-> op, list |-> l0, stack |-> st, memory |-> me, fired |-> fd, firing |-> fg,
           firingStart |-> 0, firingIndex |-> fi, firingLength |-> fl, told |-> t, emptied |-> em]
  BY <1>5, <1>6
<1>8. /\ q.list = o.list /\ q.fired = o.fired /\ q.firing = o.firing /\ q.memory = o.memory
      /\ (Enabled(q) <=> Enabled(o))
  BY <1>5, <1>7 DEF Enabled
<1>9. ListOK(l, q, DOMAIN cb)
  BY <1>4, <1>5, <1>7 DEF ListOK, ListShape, Fields, Enabled
<1>10. l \in SettlingList => SettlingOK(l, q)
  BY <1>4, <1>5, <1>7 DEF SettlingOK, Enabled
<1>11. cb' = [cb EXCEPT ![l] = q]
  <2>1. cb' = [cb EXCEPT ![l] = [cb[l] EXCEPT !.told = cb[l].told \union {Callback}]]
    BY <1>1, <1>2
  <2> QED
    BY <1>2, <1>6, <2>1
<1>12. /\ ListsOK(cb') /\ DOMAIN cb' = DOMAIN cb /\ cb'[l] = q
       /\ \A m \in DOMAIN cb : m # l => cb'[m] = cb[m]
  BY <1>3, <1>9, <1>10, <1>11, ChangeList DEF Inv
<1>13. Keeps(cb')
  BY <1>2, <1>8, <1>12 DEF Keeps
<1>14. PageOK' /\ NothingEarly /\ TopIs("fire")
  BY <1>1, <1>12, LoopCalls
<1> QED
  BY <1>1, <1>12, <1>13, <1>14, TellStep

LEMMA CallUpdateOK ==
  ASSUME Inv, CallUpdate, UNCHANGED req
  PROVE  Inv' /\ Kept
<1>1. /\ Calling("update") /\ UNCHANGED <<calls, threw, state, own>>
      /\ \/ \E a \in Action : \E v : FireThen(<<Callback.m, a>>, v, Goto("calling"))
         \/ run' = Goto("calling") /\ UNCHANGED cb
  BY DEF CallUpdate, Action
<1>2. Free(Callback.m, DOMAIN cb)
  <2>1. Addable(Callback, DOMAIN cb) \/ OneOfFirst(Top.l, cb[Top.l].firingIndex + 1, Callback)
    BY <1>1, CallbackOK
  <2>2. Callback.k = "update"
    BY <1>1 DEF Calling
  <2>3. ASSUME NEW i, OneOfFirst(Top.l, i, Callback) PROVE Callback.k \in {"state", "disable", "lock"}
    BY <2>3 DEF OneOfFirst, FirstCallbacks, SetState, DisableList, LockList
  <2> QED
    BY <2>1, <2>2, <2>3 DEF Addable
<1>3. DOMAIN cb' = DOMAIN cb
  BY <1>1 DEF FireThen
<1>4. PageOK' /\ NothingEarly /\ Rests(Goto("calling"), DOMAIN cb) /\ FromRun(Goto("calling"))
  BY <1>1, <1>3, LoopCalls
<1>5. CASE run' = Goto("calling") /\ UNCHANGED cb
  <2>1. Keeps(cb') /\ ListsOK(cb')
    BY <1>5, KeepsSame DEF Inv
  <2>2. Rests(run', DOMAIN cb') /\ FromRun(run')
    BY <1>4, <1>5
  <2> QED
    BY <1>1, <1>4, <2>1, <2>2, CalmStep DEF Kept, NothingEarly
<1>6. ASSUME NEW a \in Action, NEW v, FireThen(<<Callback.m, a>>, v, Goto("calling"))
      PROVE  Inv' /\ Kept
  <2>1. <<Callback.m, a>> \in DOMAIN cb
    BY <1>2 DEF Free
  <2> QED
    BY <1>1, <1>4, <1>6, <2>1, FireStep DEF Kept
<1> QED
  BY <1>1, <1>5, <1>6

-----------------------------------------------------------------------------
(***************************************************************************)
(* What a function of the page, or a row of calls, goes on with.           *)
(***************************************************************************)

\* Only the stack changes, and in a way that rests.
LEMMA StackStep ==
  ASSUME Inv, NothingEarly, UNCHANGED <<cb, threw>>, PageOK', Rests(run', DOMAIN cb), FromRun(run')
  PROVE  Inv' /\ Kept
<1>1. Keeps(cb') /\ ListsOK(cb')
  BY KeepsSame DEF Inv
<1>2. Rests(run', DOMAIN cb')
  OBVIOUS
<1> QED
  BY <1>1, <1>2, CalmStep DEF Kept, NothingEarly

LEMMA ReturnTo ==
  ASSUME Inv, TopIs("fn"), Top.to # Nothing
  PROVE  /\ Ref(Top.to, DOMAIN cb) /\ Rests(Below, DOMAIN cb) /\ FromRun(Below) /\ NothingEarly
<1>1. /\ Rests(Below, DOMAIN cb) /\ FromRun(Below) /\ Len(run) \in Nat \ {0}
  BY RestsBelow DEF Inv
<1>2. PICK n \in 1..Len(run) : Top = run[n]
  BY <1>1 DEF Top
<1>3. IsFire(Top, DOMAIN cb) \/ IsFn(Top, DOMAIN cb) \/ IsTodo(Top, DOMAIN cb)
  BY <1>2 DEF Inv, StackOK, Frames
<1>4. IsFn(Top, DOMAIN cb)
  BY <1>3 DEF IsFire, IsTodo, TopIs
<1> QED
  BY <1>1, <1>4, OutsideLoops DEF IsFn

LEMMA ReturnValueOK ==
  ASSUME Inv, ReturnValue, UNCHANGED req
  PROVE  Inv' /\ Kept
<1>1. /\ TopIs("fn") /\ Top.to # Nothing /\ UNCHANGED <<calls, threw, state, own>>
  BY DEF ReturnValue
<1>2. PICK v \in Value : FireThen(Top.to, v, Below)
  BY DEF ReturnValue
<1>3. Ref(Top.to, DOMAIN cb) /\ Rests(Below, DOMAIN cb) /\ FromRun(Below) /\ NothingEarly
  BY <1>1, ReturnTo
<1>4. PICK l : l = Top.to /\ l \in DOMAIN cb
  BY <1>3 DEF Ref, Free
<1>5. DOMAIN cb' = DOMAIN cb
  BY <1>2 DEF FireThen
<1>6. PageOK'
  <2>1. PageOK /\ CallsLeft
    BY <1>1, SameCalls DEF Inv
  <2> QED
    BY <1>1, <1>5, <2>1, SamePage
<1> QED
  BY <1>1, <1>2, <1>3, <1>4, <1>6, FireStep DEF Kept

LEMMA ReturnPromiseOK ==
  ASSUME Inv, ReturnPromise, UNCHANGED req
  PROVE  Inv' /\ Kept
<1>1. /\ TopIs("fn") /\ Top.to # Nothing /\ UNCHANGED <<cb, calls, threw, state, own>>
  BY DEF ReturnPromise
<1>2. PICK n : n = Top.to[1]
  OBVIOUS
<1> DEFINE Follow(p, a) == AddCall(<<p, a>>, SettleWith(<<n, a>>))
<1>3. PICK p \in PageDef :
        Made(p) /\ run' = Below \o Todo(<<Follow(p, "done"), Follow(p, "fail"), Follow(p, "progress")>>)
  BY <1>2 DEF ReturnPromise
<1>4. Ref(Top.to, DOMAIN cb) /\ Rests(Below, DOMAIN cb) /\ FromRun(Below) /\ NothingEarly
  BY <1>1, ReturnTo
<1>5. PageOK /\ PageOK'
  <2>1. PageOK /\ CallsLeft
    BY <1>1, SameCalls DEF Inv
  <2> QED
    BY <1>1, <2>1, SamePage
<1>6. ASSUME NEW a \in Action PROVE CallOK(Follow(p, a), DOMAIN cb)
  <2>1. p \in DefId /\ p # ReadyList
    BY DeferredsAssumption, ReadyAssumption
  <2>2. <<p, a>> \in DOMAIN cb \ {OwnList}
    BY <1>3, <1>5, <2>1, MadeLists
  <2>3. Free(n, DOMAIN cb)
    BY <1>2, <1>4 DEF Ref
  <2>4. PICK m : m = <<n, a>> /\ m[1] = n /\ m \in DOMAIN cb \ {OwnList}
    <3>1. <<n, a>> \in {n} \X Action
      OBVIOUS
    <3>2. PICK m : m = <<n, a>> /\ m \in DOMAIN cb \ {OwnList}
      BY <2>3, <3>1, NotOwn DEF Free
    <3>3. m[1] = n
      BY <3>2
    <3> QED
      BY <3>2, <3>3
  <2>5. Addable(SettleWith(m), DOMAIN cb)
    BY <2>3, <2>4 DEF Addable, SettleWith, Ref
  <2> QED
    BY <2>1, <2>2, <2>4, <2>5, AddCallOK
<1>7. PICK q : q = <<Follow(p, "done"), Follow(p, "fail"), Follow(p, "progress")>>
  OBVIOUS
<1>8. CallsOK(q, DOMAIN cb)
  <2>1. /\ CallOK(Follow(p, "done"), DOMAIN cb) /\ CallOK(Follow(p, "fail"), DOMAIN cb)
        /\ CallOK(Follow(p, "progress"), DOMAIN cb)
    BY <1>6 DEF Action
  <2> HIDE DEF Follow
  <2> QED
    BY <1>7, <2>1, CallsThree
<1>9. Rests(run', DOMAIN cb) /\ FromRun(run')
  BY <1>3, <1>4, <1>7, <1>8, RestsTodo
<1> QED
  BY <1>1, <1>4, <1>5, <1>9, StackStep

\* What is left of the calls, when the lists are changed and no more.
LEMMA AfterPage ==
  ASSUME Inv, NEW op, CallIs(op), UNCHANGED <<calls, threw, state, own, req>>
  PROVE  /\ DOMAIN cb' = DOMAIN cb => PageOK'
         /\ Rests(AfterCall, DOMAIN cb) /\ FromRun(AfterCall)
         /\ CallOK(Call, DOMAIN cb) /\ Call.op = op /\ NothingEarly
<1>1. PageOK /\ CallsLeft
  BY SameCalls DEF Inv
<1> QED
  BY <1>1, SamePage, RestsAfter

LEMMA DoAddOK ==
  ASSUME Inv, DoAdd, UNCHANGED req
  PROVE  Inv' /\ Kept
<1>1. CallIs("add") /\ AddThen(Call.l, Call.c, AfterCall) /\ UNCHANGED <<calls, threw, state, own>>
  BY DEF DoAdd
<1>2. DOMAIN cb' = DOMAIN cb
  BY <1>1 DEF AddThen
<1>3. /\ PageOK' /\ Rests(AfterCall, DOMAIN cb) /\ FromRun(AfterCall)
      /\ CallOK(Call, DOMAIN cb) /\ Call.op = "add" /\ NothingEarly
  BY <1>1, <1>2, AfterPage
<1>4. Call.l \in DOMAIN cb /\ Addable(Call.c, DOMAIN cb)
  BY <1>3 DEF CallOK
<1> QED
  BY <1>1, <1>3, <1>4, AddStep DEF Kept

LEMMA DoFireOK ==
  ASSUME Inv, DoFire, UNCHANGED req
  PROVE  Inv' /\ Kept
<1>1. CallIs("fire") /\ FireThen(Call.l, Call.v, AfterCall) /\ UNCHANGED <<calls, threw, state, own>>
  BY DEF DoFire
<1>2. DOMAIN cb' = DOMAIN cb
  BY <1>1 DEF FireThen
<1>3. /\ PageOK' /\ Rests(AfterCall, DOMAIN cb) /\ FromRun(AfterCall)
      /\ CallOK(Call, DOMAIN cb) /\ Call.op = "fire" /\ NothingEarly
  BY <1>1, <1>2, AfterPage
<1>4. Call.l \in DOMAIN cb
  BY <1>3 DEF CallOK
<1> QED
  BY <1>1, <1>3, <1>4, FireStep DEF Kept

LEMMA DoLeaveOK ==
  ASSUME Inv, DoLeave, UNCHANGED req
  PROVE  Inv' /\ Kept
<1>1. CallIs("leave") /\ run' = AfterCall /\ UNCHANGED <<cb, calls, threw, state, own>>
  BY DEF DoLeave
<1>2. PageOK' /\ Rests(AfterCall, DOMAIN cb) /\ FromRun(AfterCall) /\ NothingEarly
  BY <1>1, AfterPage
<1>3. Rests(run', DOMAIN cb) /\ FromRun(run')
  BY <1>1, <1>2
<1> QED
  BY <1>1, <1>2, <1>3, StackStep

LEMMA DoWaitlessOK ==
  ASSUME Inv, DoWaitless, UNCHANGED req
  PROVE  Inv' /\ Kept
<1>1. /\ CallIs("waitless") /\ UNCHANGED <<calls, threw, state, own>>
      /\ \/ \E v : FireThen(<<Call.m, "done">>, v, AfterCall)
         \/ run' = AfterCall /\ UNCHANGED cb
  BY DEF DoWaitless
<1>2. DOMAIN cb' = DOMAIN cb
  BY <1>1 DEF FireThen
<1>3. /\ PageOK' /\ Rests(AfterCall, DOMAIN cb) /\ FromRun(AfterCall)
      /\ CallOK(Call, DOMAIN cb) /\ Call.op = "waitless" /\ NothingEarly
  BY <1>1, <1>2, AfterPage
<1>4. <<Call.m, "done">> \in DOMAIN cb
  BY <1>3 DEF CallOK, Free, Action
<1>5. CASE run' = AfterCall /\ UNCHANGED cb
  <2>1. Rests(run', DOMAIN cb) /\ FromRun(run')
    BY <1>3, <1>5
  <2> QED
    BY <1>1, <1>3, <1>5, <2>1, StackStep
<1>6. ASSUME NEW v, FireThen(<<Call.m, "done">>, v, AfterCall)
      PROVE  Inv' /\ Kept
  BY <1>1, <1>3, <1>4, <1>6, FireStep DEF Kept
<1> QED
  BY <1>1, <1>5, <1>6

LEMMA DeferredStepsOK ==
  ASSUME Inv, DeferredSteps, UNCHANGED req
  PROVE  Inv' /\ Kept
BY CallStateOK, CallDisableOK, CallLockOK, CallSettleOK, CallThenOK, CallUpdateOK, CallPageOK,
   ReturnValueOK, ReturnPromiseOK, DoAddOK, DoFireOK, DoLeaveOK, DoWaitlessOK DEF DeferredSteps

-----------------------------------------------------------------------------
(***************************************************************************)
(* New Deferreds.                                                          *)
(***************************************************************************)

LEMMA NewOK ==
  ASSUME NEW L, NEW l, l \notin SettlingList, NEW op
  PROVE  ListOK(l, New(op), L) /\ ~New(op).firing /\ ~New(op).fired
<1>1. PICK o, st : o = New(op) /\ st = IF op.once THEN Nothing ELSE <<>>
  OBVIOUS
<1>2. o = [options |-> op, list |-> <<>>, stack |-> st,
           memory |-> Nothing, fired |-> FALSE, firing |-> FALSE,
           firingStart |-> 0, firingIndex |-> 0, firingLength |-> 0,
           told |-> {}, emptied |-> FALSE]
  BY <1>1 DEF New
<1>3. Stack(o.list) /\ \A i \in 1..Len(o.list) : FALSE
  BY <1>2, StackEmpty
<1>4. ~o.firing /\ ~o.fired
  BY <1>2
<1>5. ListShape(o)
  BY <1>2 DEF ListShape, Fields
<1>6. ListOK(l, o, L)
  BY <1>3, <1>4, <1>5 DEF ListOK
<1> QED
  BY <1>1, <1>4, <1>6

LEMMA NewListOK ==
  ASSUME NEW L, NEW d \in DefId, NEW a \in Action, NEW l, l = <<d, a>>
  PROVE  /\ ListOK(l, NewList(d, a), L) /\ ~NewList(d, a).firing /\ ~NewList(d, a).fired
         /\ l \in SettlingList => SettlingOK(l, NewList(d, a))
<1>1. CASE a = "progress"
  <2>1. l \notin SettlingList
    BY <1>1 DEF SettlingList, Settling
  <2>2. NewList(d, a) = New(Memory)
    BY <1>1 DEF NewList
  <2> QED
    BY <2>1, <2>2, NewOK
<1>2. CASE a # "progress"
  <2>1. a \in Settling /\ l \in SettlingList /\ l[1] = d /\ l[2] = a
    BY <1>2 DEF SettlingList, Settling, Action
  <2>2. PICK f : f = FirstCallbacks(d, a)
    OBVIOUS
  <2>3. f = <<SetState(d, a), DisableList(<<d, Other(a)>>), LockList(<<d, "progress">>)>>
    BY <2>2 DEF FirstCallbacks
  <2>4. Stack(f) /\ Len(f) = 3
    <3>1. PICK x, y, z : f = <<x, y, z>>
      BY <2>3
    <3>2. f \in Seq({x, y, z})
      BY <3>1
    <3> QED
      BY <3>1, <3>2, SeqIsStack
  <2>5. PICK o : o = NewList(d, a)
    OBVIOUS
  <2>6. o = [options |-> OnceMemory, list |-> f, stack |-> Nothing,
             memory |-> Nothing, fired |-> FALSE, firing |-> FALSE,
             firingStart |-> 0, firingIndex |-> 0, firingLength |-> 0,
             told |-> {}, emptied |-> FALSE]
    <3>1. New(OnceMemory) =
            [options |-> OnceMemory, list |-> <<>>, stack |-> Nothing,
             memory |-> Nothing, fired |-> FALSE, firing |-> FALSE,
             firingStart |-> 0, firingIndex |-> 0, firingLength |-> 0,
             told |-> {}, emptied |-> FALSE]
      <4>1. OnceMemory.once = TRUE
        BY DEF OnceMemory
      <4> QED
        BY <4>1 DEF New
    <3>2. o = [New(OnceMemory) EXCEPT !.list = f]
      BY <1>2, <2>2, <2>5 DEF NewList
    <3>3. PICK n : n = New(OnceMemory)
      OBVIOUS
    <3>4. n = [options |-> OnceMemory, list |-> <<>>, stack |-> Nothing,
               memory |-> Nothing, fired |-> FALSE, firing |-> FALSE,
               firingStart |-> 0, firingIndex |-> 0, firingLength |-> 0,
               told |-> {}, emptied |-> FALSE]
      BY <3>1, <3>3
    <3>5. PICK op, e, t : op = OnceMemory /\ e = <<>> /\ t = {}
      OBVIOUS
    <3>6. n = [options |-> op, list |-> e, stack |-> Nothing,
               memory |-> Nothing, fired |-> FALSE, firing |-> FALSE,
               firingStart |-> 0, firingIndex |-> 0, firingLength |-> 0,
               told |-> t, emptied |-> FALSE]
      BY <3>4, <3>5
    <3>7. o = [n EXCEPT !.list = f]
      BY <3>2, <3>3
    <3>8. o = [options |-> op, list |-> f, stack |-> Nothing,
               memory |-> Nothing, fired |-> FALSE, firing |-> FALSE,
               firingStart |-> 0, firingIndex |-> 0, firingLength |-> 0,
               told |-> t, emptied |-> FALSE]
      BY <3>6, <3>7
    <3> QED
      BY <3>5, <3>8
  <2>7. /\ o.options = OnceMemory /\ o.list = f /\ o.stack = Nothing /\ o.memory = Nothing
        /\ ~o.fired /\ ~o.firing
    BY <2>6
  <2>8. ListShape(o)
    BY <2>6 DEF ListShape, Fields
  <2>9. HasFirstThree(l, f)
    BY <2>1, <2>2, <2>4 DEF HasFirstThree
  <2>10. \A i \in 1..Len(f) : OneOfFirst(l, i, f[i])
    BY <2>1, <2>2, <2>4 DEF OneOfFirst
  <2>11. ListOK(l, o, L)
    BY <2>4, <2>7, <2>8, <2>10 DEF ListOK
  <2>12. SettlingOK(l, o)
    BY <2>7, <2>9 DEF SettlingOK
  <2> QED
    BY <2>5, <2>7, <2>11, <2>12
<1> QED
  BY <1>1, <1>2

LEMMA MoreLists ==
  ASSUME ListsOK(cb), NEW M, NEW c, DOMAIN c = DOMAIN cb \union M,
         \A l \in DOMAIN cb : c[l] = cb[l],
         \A l \in M : l \notin DOMAIN cb =>
           /\ ListOK(l, c[l], DOMAIN c) /\ ~c[l].firing /\ ~c[l].fired
           /\ l \in SettlingList => SettlingOK(l, c[l])
  PROVE  ListsOK(c) /\ Keeps(c)
<1>1. ASSUME NEW l \in DOMAIN c
      PROVE  ListOK(l, c[l], DOMAIN c) /\ (l \in SettlingList => SettlingOK(l, c[l]))
  <2>1. CASE l \in DOMAIN cb
    <3>1. ListOK(l, cb[l], DOMAIN cb) /\ (l \in SettlingList => SettlingOK(l, cb[l]))
      BY <2>1 DEF ListsOK
    <3>2. DOMAIN cb \subseteq DOMAIN c
      OBVIOUS
    <3>3. ListOK(l, cb[l], DOMAIN c)
      BY <3>1, <3>2, ListGrows
    <3> QED
      BY <2>1, <3>1, <3>3
  <2>2. CASE l \notin DOMAIN cb
    BY <2>2
  <2> QED
    BY <2>1, <2>2
<1>2. Keeps(c)
  BY DEF Keeps
<1> QED
  BY <1>1, <1>2 DEF ListsOK

\* The lists of a new Deferred, of a request one more.
NewListsOf(d) == {d} \X Action

LEMMA NewDeferred ==
  ASSUME Inv, NEW d \in DefId, NEW c, c = Joined(cb, NewLists(d))
  PROVE  ListsOK(c) /\ Keeps(c) /\ DOMAIN c = DOMAIN cb \union NewListsOf(d)
<1>1. /\ DOMAIN c = DOMAIN cb \union DOMAIN NewLists(d)
      /\ \A l \in DOMAIN cb : c[l] = cb[l]
      /\ \A l \in DOMAIN NewLists(d) : l \notin DOMAIN cb => c[l] = NewLists(d)[l]
  <2>1. PICK g : g = NewLists(d) /\ c = Joined(cb, g)
    OBVIOUS
  <2>2. /\ DOMAIN c = DOMAIN cb \union DOMAIN g
        /\ \A l \in DOMAIN cb : c[l] = cb[l]
        /\ \A l \in DOMAIN g : l \notin DOMAIN cb => c[l] = g[l]
    BY <2>1 DEF Joined
  <2> QED
    BY <2>1, <2>2
<1>2. DOMAIN NewLists(d) = NewListsOf(d)
  BY DEF NewLists, NewListsOf
<1>3. ASSUME NEW l \in NewListsOf(d), l \notin DOMAIN cb
      PROVE  /\ ListOK(l, c[l], DOMAIN c) /\ ~c[l].firing /\ ~c[l].fired
             /\ l \in SettlingList => SettlingOK(l, c[l])
  <2>1. PICK a \in Action : l = <<d, a>>
    BY DEF NewListsOf
  <2>2. c[l] = NewList(d, a)
    BY <1>1, <1>2, <1>3, <2>1 DEF NewLists, NewListsOf
  <2>3. PICK L : L = DOMAIN c
    OBVIOUS
  <2>4. PICK o : o = NewList(d, a)
    OBVIOUS
  <2>5. /\ ListOK(l, o, L) /\ ~o.firing /\ ~o.fired
        /\ l \in SettlingList => SettlingOK(l, o)
    BY <2>1, <2>4, NewListOK
  <2> QED
    BY <2>2, <2>3, <2>4, <2>5
<1>4. PICK M : M = NewListsOf(d)
  OBVIOUS
<1>5. ListsOK(cb)
  BY DEF Inv
<1> QED
  BY <1>1, <1>2, <1>3, <1>4, <1>5, MoreLists

LEMMA NewPage ==
  ASSUME PageOK, CallsLeft, NEW d \in DefId, state' = [state EXCEPT ![d] = "pending"],
         NEW X, X \intersect (DefId \X Action) = {}, DOMAIN cb' = DOMAIN cb \union NewListsOf(d) \union X,
         own' \subseteq own \union ({d} \ {ReadyList}),
         DOMAIN req' = ReqId, \A q \in ReqId : RequestOK(q, req'[q], DOMAIN cb')
  PROVE  PageOK' /\ Made(d)' /\ (\A e \in DefId : Made(e) => Made(e)')
<1>1. /\ state' \in [DefId -> {"none", "pending", "resolved", "rejected"}]
      /\ \A e \in DefId : Made(e)' <=> Made(e) \/ e = d
  BY DEF PageOK, Made
<1>2. \A e \in DefId, a \in Action : <<e, a>> \in DOMAIN cb' <=> Made(e)'
  <2> SUFFICES ASSUME NEW e \in DefId, NEW a \in Action
               PROVE  <<e, a>> \in DOMAIN cb' <=> Made(e)'
    OBVIOUS
  <2>1. <<e, a>> \in DOMAIN cb <=> Made(e)
    BY DEF PageOK
  <2>2. <<e, a>> \in NewListsOf(d) <=> e = d
    BY DEF NewListsOf
  <2>3. <<e, a>> \notin X
    OBVIOUS
  <2> QED
    BY <1>1, <2>1, <2>2, <2>3
<1>3. \A e \in own' : e \in DefId \ {ReadyList} /\ Made(e)'
  BY <1>1 DEF PageOK
<1>4. calls' \in [Kinds -> Nat] /\ (calls'["list"] > 0 => OwnList \in DOMAIN cb')
  BY DEF PageOK, CallsLeft
<1> QED
  BY <1>1, <1>2, <1>3, <1>4 DEF PageOK

\* A call of the page that makes a Deferred.
LEMMA WithNewOK ==
  ASSUME Inv, NEW d \in DefId, WithNew(d), own' \subseteq own \union ({d} \ {ReadyList}), req' = req, CallsLeft
  PROVE  /\ PageOK' /\ Made(d)' /\ (\A e \in DefId : Made(e) => Made(e)')
         /\ ListsOK(cb') /\ Keeps(cb') /\ DOMAIN cb \subseteq DOMAIN cb'
<1>1. cb' = Joined(cb, NewLists(d)) /\ state' = [state EXCEPT ![d] = "pending"]
  BY DEF WithNew
<1>2. ListsOK(cb') /\ Keeps(cb') /\ DOMAIN cb' = DOMAIN cb \union NewListsOf(d)
  BY <1>1, NewDeferred
<1>3. DOMAIN req' = ReqId /\ \A q \in ReqId : RequestOK(q, req'[q], DOMAIN cb')
  <2>1. DOMAIN req = ReqId /\ \A q \in ReqId : RequestOK(q, req[q], DOMAIN cb)
    BY DEF Inv, PageOK
  <2>2. DOMAIN cb \subseteq DOMAIN cb'
    BY <1>2
  <2> QED
    BY <2>1, <2>2, RequestGrows
<1>4. PICK X : X = {}
  OBVIOUS
<1>5. DOMAIN cb' = DOMAIN cb \union NewListsOf(d) \union X /\ X \intersect (DefId \X Action) = {}
  BY <1>2, <1>4
<1>6. PageOK
  BY DEF Inv
<1>7. PageOK' /\ Made(d)' /\ (\A e \in DefId : Made(e) => Made(e)')
  BY <1>1, <1>3, <1>4, <1>5, <1>6, NewPage
<1> QED
  BY <1>2, <1>7

\* What holds when the page has made a call.
LEMMA PageCall ==
  ASSUME Inv, NEW kind \in Kinds, Spend(kind)
  PROVE  /\ PageOK /\ CallsLeft /\ threw' = threw /\ NothingEarly
         /\ Rests(run, DOMAIN cb) /\ FromRun(run)
<1>1. PageOK
  BY DEF Inv
<1>2. CallsLeft /\ threw' = threw /\ PageRuns
  BY <1>1, SpendLeaves
<1> QED
  BY <1>1, <1>2, InPage, RestsRun DEF Inv

\* Nothing is called yet.
LEMMA QueueStep ==
  ASSUME Inv, PageOK', NothingEarly, threw' = threw, ListsOK(cb'), Keeps(cb'), DOMAIN cb \subseteq DOMAIN cb',
         NEW s, Rests(s, DOMAIN cb), FromRun(s), NEW q, CallsOK(q, DOMAIN cb'), run' = s \o Todo(q)
  PROVE  Inv' /\ Kept
<1>1. Rests(s, DOMAIN cb')
  BY RestsGrow
<1>2. Rests(run', DOMAIN cb') /\ FromRun(run')
  BY <1>1, RestsTodo
<1> QED
  BY <1>2, CalmStep DEF Kept, NothingEarly

LEMMA MakeDeferredOK ==
  ASSUME Inv, NEW d \in DefId \ {ReadyList}, MakeDeferred(d), UNCHANGED req
  PROVE  Inv' /\ Kept
<1>1. Spend("deferred") /\ WithNew(d) /\ own' = own \union {d} /\ run' = run /\ "deferred" \in Kinds
  BY DEF MakeDeferred, Kinds
<1>2. /\ PageOK /\ CallsLeft /\ threw' = threw /\ NothingEarly
      /\ Rests(run, DOMAIN cb) /\ FromRun(run)
  BY <1>1, PageCall
<1>3. PageOK' /\ ListsOK(cb') /\ Keeps(cb') /\ DOMAIN cb \subseteq DOMAIN cb'
  BY <1>1, <1>2, WithNewOK
<1>4. Rests(run', DOMAIN cb') /\ FromRun(run')
  BY <1>1, <1>2, <1>3, RestsGrow DEF FromRun
<1> QED
  BY <1>2, <1>3, <1>4, CalmStep DEF Kept, NothingEarly

LEMMA SettleOK ==
  ASSUME Inv, NEW d \in DefId, NEW a \in Action, NEW v, Settle(d, a, v), UNCHANGED req
  PROVE  Inv' /\ Kept
<1>1. /\ Spend("deferred") /\ d \in own /\ FireThen(<<d, a>>, v, run) /\ UNCHANGED <<state, own>>
      /\ "deferred" \in Kinds
  BY DEF Settle, Kinds
<1>2. /\ PageOK /\ CallsLeft /\ threw' = threw /\ NothingEarly
      /\ Rests(run, DOMAIN cb) /\ FromRun(run)
  BY <1>1, PageCall
<1>3. <<d, a>> \in DOMAIN cb
  BY <1>1, <1>2 DEF PageOK
<1>4. DOMAIN cb' = DOMAIN cb
  BY <1>1 DEF FireThen
<1>5. PageOK'
  BY <1>1, <1>2, <1>4, SamePage
<1> QED
  BY <1>1, <1>2, <1>3, <1>5, FireStep DEF Kept

LEMMA ListenOK ==
  ASSUME Inv, NEW d \in DefId, NEW a \in Settling, NEW fn, Listen(d, a, fn), UNCHANGED req
  PROVE  Inv' /\ Kept
<1>1. /\ Spend("deferred") /\ Made(d) /\ AddThen(<<d, a>>, OfPage(fn), run) /\ UNCHANGED <<state, own>>
      /\ "deferred" \in Kinds
  BY DEF Listen, Kinds
<1>2. /\ PageOK /\ CallsLeft /\ threw' = threw /\ NothingEarly
      /\ Rests(run, DOMAIN cb) /\ FromRun(run)
  BY <1>1, PageCall
<1>3. <<d, a>> \in DOMAIN cb /\ Addable(OfPage(fn), DOMAIN cb)
  BY <1>1, <1>2 DEF PageOK, Settling, Action, Addable, OfPage
<1>4. DOMAIN cb' = DOMAIN cb
  BY <1>1 DEF AddThen
<1>5. PageOK'
  BY <1>1, <1>2, <1>4, SamePage
<1> QED
  BY <1>1, <1>2, <1>3, <1>5, AddStep DEF Kept

LEMMA ThenOK ==
  ASSUME Inv, NEW d \in DefId \ {ReadyList}, NEW n \in DefId \ {ReadyList}, NEW f, NEW g, Then(d, n, f, g), UNCHANGED req
  PROVE  Inv' /\ Kept
<1> DEFINE Forward(a, fn) == AddCall(<<d, a>>, ThenTo(<<n, a>>, fn))
<1>1. /\ Spend("deferred") /\ Made(d) /\ WithNew(n) /\ own' = own /\ "deferred" \in Kinds
      /\ run' = run \o Todo(<<Forward("done", f), Forward("fail", g), Forward("progress", Nothing)>>)
  BY DEF Then, Kinds
<1>2. /\ PageOK /\ CallsLeft /\ threw' = threw /\ NothingEarly
      /\ Rests(run, DOMAIN cb) /\ FromRun(run)
  BY <1>1, PageCall
<1>3. /\ PageOK' /\ Made(n)' /\ Made(d)'
      /\ ListsOK(cb') /\ Keeps(cb') /\ DOMAIN cb \subseteq DOMAIN cb'
  BY <1>1, <1>2, WithNewOK
<1>4. ASSUME NEW a \in Action, NEW fn PROVE CallOK(Forward(a, fn), DOMAIN cb')
  <2>1. <<d, a>> \in DOMAIN cb' \ {OwnList}
    BY <1>3, NotOwn DEF PageOK
  <2>2. {n} \X Action \subseteq DOMAIN cb'
    BY <1>3 DEF PageOK
  <2>3. PICK m : m = <<n, a>>
    OBVIOUS
  <2>4. m[1] = n /\ m \in DOMAIN cb' \ {OwnList}
    BY <2>2, <2>3, NotOwn
  <2>5. Addable(ThenTo(m, fn), DOMAIN cb')
    BY <2>2, <2>4 DEF Addable, ThenTo, Ref, Free
  <2> QED
    BY <2>1, <2>3, <2>5, AddCallOK
<1>5. PICK q : q = <<Forward("done", f), Forward("fail", g), Forward("progress", Nothing)>>
  OBVIOUS
<1>6. CallsOK(q, DOMAIN cb')
  <2>1. /\ CallOK(Forward("done", f), DOMAIN cb') /\ CallOK(Forward("fail", g), DOMAIN cb')
        /\ CallOK(Forward("progress", Nothing), DOMAIN cb')
    BY <1>4 DEF Action
  <2> HIDE DEF Forward
  <2> QED
    BY <1>5, <2>1, CallsThree
<1> QED
  BY <1>1, <1>2, <1>3, <1>5, <1>6, QueueStep

LEMMA SubordinateOK ==
  ASSUME NEW L, NEW m, Free(m, L), NEW i, NEW x,
         x # ReadyList, x \in DefId => {x} \X Action \subseteq L
  PROVE  CallsOK(Subordinate(m, i, x), L)
<1>1. CASE x \in DefId
  <2>1. \A a \in Action : <<x, a>> \in L \ {OwnList} /\ Addable(Update(m, i, a), L)
    BY <1>1, NotOwn DEF Addable, Update, Free
  <2>2. Addable(SettleWith(<<m, "fail">>), L)
    <3>1. PICK l : l = <<m, "fail">>
      OBVIOUS
    <3>2. l \in L \ {OwnList} /\ l[1] = m
      BY <3>1, NotOwn DEF Action, Free
    <3> QED
      BY <3>1, <3>2 DEF Addable, SettleWith, Ref, Free
  <2>3. /\ CallOK(AddCall(<<x, "done">>, Update(m, i, "done")), L)
        /\ CallOK(AddCall(<<x, "fail">>, SettleWith(<<m, "fail">>)), L)
        /\ CallOK(AddCall(<<x, "progress">>, Update(m, i, "progress")), L)
    BY <2>1, <2>2, AddCallOK DEF Action
  <2>4. Subordinate(m, i, x) = <<AddCall(<<x, "done">>, Update(m, i, "done")),
                                 AddCall(<<x, "fail">>, SettleWith(<<m, "fail">>)),
                                 AddCall(<<x, "progress">>, Update(m, i, "progress"))>>
    BY <1>1 DEF Subordinate
  <2> QED
    BY <2>3, <2>4, CallsThree
<1>2. CASE x \notin DefId
  <2>1. CallOK(LeaveCall(m), L)
    BY DEF CallOK, LeaveCall
  <2>2. Subordinate(m, i, x) = <<LeaveCall(m)>>
    BY <1>2 DEF Subordinate
  <2> QED
    BY <2>1, <2>2, CallsOne
<1> QED
  BY <1>1, <1>2

LEMMA WhenOK ==
  ASSUME Inv, NEW m \in DefId \ {ReadyList}, NEW xs, DOMAIN xs = {1, 2}, \A i \in {1, 2} : xs[i] # ReadyList, When(m, xs), UNCHANGED req
  PROVE  Inv' /\ Kept
<1>1. PICK q : q = Subordinate(m, 1, xs[1]) \o Subordinate(m, 2, xs[2]) \o <<WaitlessCall(m)>>
  OBVIOUS
<1>2. /\ Spend("deferred") /\ WithNew(m) /\ own' = own /\ "deferred" \in Kinds
      /\ \A i \in DOMAIN xs : xs[i] \in DefId => Made(xs[i])
      /\ run' = run \o Todo(q)
  BY <1>1 DEF When, Kinds
<1>3. /\ PageOK /\ CallsLeft /\ threw' = threw /\ NothingEarly
      /\ Rests(run, DOMAIN cb) /\ FromRun(run)
  BY <1>2, PageCall
<1>4. /\ PageOK' /\ Made(m)' /\ (\A e \in DefId : Made(e) => Made(e)')
      /\ ListsOK(cb') /\ Keeps(cb') /\ DOMAIN cb \subseteq DOMAIN cb'
  BY <1>2, <1>3, WithNewOK
<1>5. \A e \in DefId : Made(e)' => {e} \X Action \subseteq DOMAIN cb'
  BY <1>4 DEF PageOK
<1>6. Free(m, DOMAIN cb')
  BY <1>4, <1>5 DEF Free
<1>7. \A i \in {1, 2} : xs[i] \in DefId => {xs[i]} \X Action \subseteq DOMAIN cb'
  BY <1>2, <1>4, <1>5
<1>8. /\ CallsOK(Subordinate(m, 1, xs[1]), DOMAIN cb')
      /\ CallsOK(Subordinate(m, 2, xs[2]), DOMAIN cb')
  BY <1>6, <1>7, SubordinateOK
<1>9. CallsOK(<<WaitlessCall(m)>>, DOMAIN cb')
  <2>1. CallOK(WaitlessCall(m), DOMAIN cb')
    BY <1>6 DEF CallOK, WaitlessCall
  <2> QED
    BY <2>1, CallsOne
<1>10. CallsOK(q, DOMAIN cb')
  BY <1>1, <1>8, <1>9, CallsConcat
<1> QED
  BY <1>2, <1>3, <1>4, <1>10, QueueStep

LEMMA DeferredCallsOK ==
  ASSUME Inv, DeferredCalls, UNCHANGED req
  PROVE  Inv' /\ Kept
<1>1. PICK d \in PageDef :
        \/ MakeDeferred(d)
        \/ \E a \in Action, v \in Value : Settle(d, a, v)
        \/ \E a \in Settling, fn \in Fn : Listen(d, a, fn)
        \/ \E n \in PageDef, fn \in Fn : Then(d, n, fn, Nothing) \/ Then(d, n, Nothing, fn)
        \/ \E xs \in (PageDef \union Value) \X (PageDef \union Value) : When(d, xs)
  BY DEF DeferredCalls
<1>2. PageDef \subseteq DefId /\ ReadyList \notin PageDef
  BY DeferredsAssumption, ReadyAssumption
<1>8. ReadyList \notin Value
  BY DeferredsAssumption, ReadyAssumption
<1>3. CASE MakeDeferred(d)
  BY <1>2, <1>3, MakeDeferredOK
<1>4. ASSUME NEW a \in Action, NEW v \in Value, Settle(d, a, v) PROVE Inv' /\ Kept
  BY <1>2, <1>4, SettleOK
<1>5. ASSUME NEW a \in Settling, NEW fn \in Fn, Listen(d, a, fn) PROVE Inv' /\ Kept
  BY <1>2, <1>5, ListenOK
<1>6. ASSUME NEW n \in PageDef, NEW fn \in Fn, Then(d, n, fn, Nothing) \/ Then(d, n, Nothing, fn)
      PROVE  Inv' /\ Kept
  BY <1>2, <1>6, ThenOK
<1>7. ASSUME NEW xs \in (PageDef \union Value) \X (PageDef \union Value), When(d, xs)
      PROVE  Inv' /\ Kept
  <2>1. DOMAIN xs = {1, 2} /\ \A i \in {1, 2} : xs[i] # ReadyList
    <3>1. PICK x, y : xs = <<x, y>> /\ x # ReadyList /\ y # ReadyList
      BY <1>2, <1>8
    <3> QED
      BY <3>1
  <2> QED
    BY <1>2, <1>7, <2>1, WhenOK
<1> QED
  BY <1>1, <1>3, <1>4, <1>5, <1>6, <1>7

-----------------------------------------------------------------------------
(***************************************************************************)
(* Requests.                                                               *)
(***************************************************************************)

\* The lists of a request that the library itself uses.
RequestKeys == {"done", "fail", "complete"}
Listed(q, L) == {q} \X RequestKeys \subseteq L

RequestOps == {"globals", "beforeSend", "install", "transport", "send", "inactive"}

\* The closure of a request changes, and no list.
LEMMA RequestPage ==
  ASSUME PageOK, CallsLeft, UNCHANGED <<cb, state, own>>, NEW q \in ReqId, NEW r,
         RequestOK(q, r, DOMAIN cb), req' = [req EXCEPT ![q] = r]
  PROVE  PageOK'
<1>1. DOMAIN req' = ReqId /\ req'[q] = r /\ \A p \in ReqId : p # q => req'[p] = req[p]
  BY DEF PageOK
<1>2. \A p \in ReqId : RequestOK(p, req'[p], DOMAIN cb')
  BY <1>1 DEF PageOK
<1> QED
  BY <1>1, <1>2 DEF PageOK, CallsLeft, Made

LEMMA RequestCallOK ==
  ASSUME NEW L, NEW q \in ReqId, Listed(q, L), NEW op \in RequestOps
  PROVE  CallOK(RequestCall(op, q), L)
BY DEF CallOK, RequestCall, Listed, RequestKeys, RequestOps

LEMMA TriggerOK == ASSUME NEW L, NEW e PROVE CallOK(TriggerCall(e), L)
BY DEF CallOK, TriggerCall

LEMMA RequestFireOK ==
  ASSUME NEW L, NEW q \in ReqId, Listed(q, L), NEW a \in RequestKeys, NEW v
  PROVE  CallsOK(<<FireCall(<<q, a>>, v)>>, L)
<1>1. PICK l : l = <<q, a>>
  OBVIOUS
<1>2. l \in L \ {OwnList} /\ l # <<ReadyList, "fail">>
  BY <1>1, ReadyAssumption, NotOwn DEF Listed, RequestKeys
<1> QED
  BY <1>1, <1>2, FireCallOK, CallsOne

\* What done calls.
LEMMA DoneCallsOK ==
  ASSUME NEW L, NEW q \in ReqId, Listed(q, L), NEW r, CallsOK(r.onStatus, L), NEW status
  PROVE  CallsOK(DoneCalls(q, r, status), L)
<1> DEFINE Global(e) == IF r.globals THEN <<TriggerCall(e)>> ELSE <<>>
<1>1. PICK a : a = IF status = "success" THEN "done" ELSE "fail"
  OBVIOUS
<1>2. PICK e : e = IF a = "done" THEN "ajaxSuccess" ELSE "ajaxError"
  OBVIOUS
<1>3. PICK f : f = "ajaxComplete"
  OBVIOUS
<1>4. PICK k, op : k = "complete" /\ op = "inactive"
  OBVIOUS
<1>5. ASSUME NEW x PROVE CallsOK(Global(x), L)
  BY TriggerOK, CallsOne, CallsNone
<1>6. CallsOK(<<FireCall(<<q, a>>, status)>>, L) /\ CallsOK(<<FireCall(<<q, k>>, status)>>, L)
  BY <1>1, <1>4, RequestFireOK DEF RequestKeys
<1>7. CallsOK(<<RequestCall(op, q)>>, L)
  BY <1>4, RequestCallOK, CallsOne DEF RequestOps
<1>8. DoneCalls(q, r, status) =
        <<FireCall(<<q, a>>, status)>> \o r.onStatus \o Global(e) \o <<FireCall(<<q, k>>, status)>>
          \o Global(f) \o <<RequestCall(op, q)>>
  BY <1>1, <1>2, <1>3, <1>4 DEF DoneCalls
<1> HIDE DEF Global
<1> QED
  BY <1>5, <1>6, <1>7, <1>8, CallsConcat

LEMMA RequestFields ==
  ASSUME NEW a, NEW s, NEW g, NEW t, NEW ti, NEW w, NEW k, NEW o, NEW d, NEW r,
         r = [asked |-> a, state |-> s, globals |-> g, transport |-> t, timer |-> ti, wire |-> w,
              known |-> k, onStatus |-> o, dones |-> d]
  PROVE  RequestShape(r) /\ r.timer = ti /\ r.wire = w /\ r.known = k /\ r.onStatus = o
<1>1. RequestShape(r)
  BY DEF RequestShape
<1>2. r.timer = ti /\ r.wire = w /\ r.known = k /\ r.onStatus = o
  OBVIOUS
<1> QED
  BY <1>1, <1>2

\* The closure when done ran its course.
DoneRequest(r) ==
  [r EXCEPT !.state = 2, !.timer = FALSE, !.transport = FALSE, !.onStatus = <<>>, !.dones = @ + 1]

LEMMA DoneRequestOK ==
  ASSUME NEW L, NEW q, NEW r, RequestOK(q, r, L), NEW n, n = DoneRequest(r)
  PROVE  RequestOK(q, n, L)
<1>1. PICK a, s, g, t, ti, w, k, o, d :
        r = [asked |-> a, state |-> s, globals |-> g, transport |-> t, timer |-> ti, wire |-> w,
             known |-> k, onStatus |-> o, dones |-> d]
  BY DEF RequestOK, RequestShape
<1>2. PICK e, f, z, u : e = <<>> /\ f = FALSE /\ z = 2 /\ u = d + 1
  OBVIOUS
<1>3. n = [asked |-> a, state |-> z, globals |-> g, transport |-> f, timer |-> f, wire |-> w,
           known |-> k, onStatus |-> e, dones |-> u]
  BY <1>1, <1>2 DEF DoneRequest
<1>4. r.wire = w /\ r.known = k
  BY <1>1, RequestFields
<1>5. RequestShape(n) /\ n.timer = f /\ n.wire = w /\ n.known = k /\ n.onStatus = e
  BY <1>3, RequestFields
<1>6. CallsOK(n.onStatus, L)
  BY <1>2, <1>5, CallsNone
<1>7. ~n.timer /\ (n.wire <=> r.wire) /\ (n.known <=> r.known)
  BY <1>2, <1>4, <1>5
<1> QED
  BY <1>5, <1>6, <1>7 DEF RequestOK

LEMMA DoneOK ==
  ASSUME Inv, CallsLeft, NothingEarly, UNCHANGED <<cb, threw, state, own>>,
         NEW q \in ReqId, NEW r, RequestOK(q, r, DOMAIN cb), Listed(q, DOMAIN cb), NEW status,
         NEW s, Rests(s, DOMAIN cb), FromRun(s), Done(q, r, status, s)
  PROVE  Inv' /\ Kept
<1>1. PageOK
  BY DEF Inv
<1>2. CASE IsDone(r)
  <2>1. req' = [req EXCEPT ![q] = r] /\ run' = s
    BY <1>2 DEF Done
  <2>2. PageOK'
    BY <1>1, <2>1, RequestPage
  <2>3. Rests(run', DOMAIN cb) /\ FromRun(run')
    BY <2>1
  <2> QED
    BY <2>2, <2>3, StackStep
<1>3. CASE ~IsDone(r)
  <2>1. PICK n : n = DoneRequest(r)
    OBVIOUS
  <2>2. req' = [req EXCEPT ![q] = n] /\ run' = s \o Todo(DoneCalls(q, r, status))
    BY <1>3, <2>1 DEF Done, DoneRequest
  <2>3. PageOK'
    BY <1>1, <2>1, <2>2, DoneRequestOK, RequestPage
  <2>4. CallsOK(DoneCalls(q, r, status), DOMAIN cb)
    BY DoneCallsOK DEF RequestOK
  <2>5. Rests(run', DOMAIN cb) /\ FromRun(run')
    BY <2>2, <2>4, RestsTodo
  <2> QED
    BY <2>3, <2>5, StackStep
<1> QED
  BY <1>2, <1>3

\* The other changes of a closure.
LEMMA RequestMoves ==
  ASSUME NEW L, NEW q, NEW r, RequestOK(q, r, L), Listed(q, L), NEW x, NEW y, NEW n,
         \/ n = [r EXCEPT !.globals = x]
         \/ n = [r EXCEPT !.known = x]
         \/ n = [r EXCEPT !.transport = x]
         \/ n = [r EXCEPT !.wire = x]
         \/ n = [r EXCEPT !.state = x, !.timer = y]
  PROVE  RequestOK(q, n, L)
<1>1. PICK a, s, g, t, ti, w, k, o, d :
        r = [asked |-> a, state |-> s, globals |-> g, transport |-> t, timer |-> ti, wire |-> w,
             known |-> k, onStatus |-> o, dones |-> d]
  BY DEF RequestOK, RequestShape
<1>2. \E b, u, h, p, tj, v, m :
        n = [asked |-> b, state |-> u, globals |-> h, transport |-> p, timer |-> tj, wire |-> v,
             known |-> m, onStatus |-> o, dones |-> d]
  <2>1. CASE n = [r EXCEPT !.globals = x]
    <3>1. n = [asked |-> a, state |-> s, globals |-> x, transport |-> t, timer |-> ti, wire |-> w,
               known |-> k, onStatus |-> o, dones |-> d]
      BY ZenonT(60), <1>1, <2>1
    <3> QED
      BY <3>1
  <2>2. CASE n = [r EXCEPT !.known = x]
    <3>1. n = [asked |-> a, state |-> s, globals |-> g, transport |-> t, timer |-> ti, wire |-> w,
               known |-> x, onStatus |-> o, dones |-> d]
      BY ZenonT(60), <1>1, <2>2
    <3> QED
      BY <3>1
  <2>3. CASE n = [r EXCEPT !.transport = x]
    <3>1. n = [asked |-> a, state |-> s, globals |-> g, transport |-> x, timer |-> ti, wire |-> w,
               known |-> k, onStatus |-> o, dones |-> d]
      BY ZenonT(60), <1>1, <2>3
    <3> QED
      BY <3>1
  <2>4. CASE n = [r EXCEPT !.wire = x]
    <3>1. n = [asked |-> a, state |-> s, globals |-> g, transport |-> t, timer |-> ti, wire |-> x,
               known |-> k, onStatus |-> o, dones |-> d]
      BY ZenonT(60), <1>1, <2>4
    <3> QED
      BY <3>1
  <2>5. CASE n = [r EXCEPT !.state = x, !.timer = y]
    <3>1. n = [asked |-> a, state |-> x, globals |-> g, transport |-> t, timer |-> y, wire |-> w,
               known |-> k, onStatus |-> o, dones |-> d]
      BY ZenonT(60), <1>1, <2>5
    <3> QED
      BY <3>1
  <2> QED
    BY <2>1, <2>2, <2>3, <2>4, <2>5
<1>3. RequestShape(n) /\ n.onStatus = o
  BY <1>2, RequestFields
<1>4. r.onStatus = o
  BY <1>1
<1> QED
  BY <1>3, <1>4 DEF RequestOK, Listed, RequestKeys

LEMMA OnStatusOK ==
  ASSUME NEW L, NEW q, NEW r, RequestOK(q, r, L), Listed(q, L), NEW e, CallsOK(e, L), NEW n,
         n = [r EXCEPT !.onStatus = e]
  PROVE  RequestOK(q, n, L)
<1>1. PICK a, s, g, t, ti, w, k, o, d :
        r = [asked |-> a, state |-> s, globals |-> g, transport |-> t, timer |-> ti, wire |-> w,
             known |-> k, onStatus |-> o, dones |-> d]
  BY DEF RequestOK, RequestShape
<1>2. n = [asked |-> a, state |-> s, globals |-> g, transport |-> t, timer |-> ti, wire |-> w,
           known |-> k, onStatus |-> e, dones |-> d]
  BY <1>1
<1>3. RequestShape(n) /\ n.onStatus = e
  BY ZenonT(60), <1>2, RequestFields
<1> QED
  BY <1>3 DEF RequestOK, Listed, RequestKeys

LEMMA AbortOK ==
  ASSUME Inv, CallsLeft, NothingEarly, UNCHANGED <<cb, threw, state, own>>,
         NEW q \in ReqId, Listed(q, DOMAIN cb), NEW status,
         NEW s, Rests(s, DOMAIN cb), FromRun(s), Abort(q, status, s)
  PROVE  Inv' /\ Kept
<1>1. RequestOK(q, req[q], DOMAIN cb)
  BY DEF Inv, PageOK
<1>2. PICK r : r = IF req[q].transport THEN [req[q] EXCEPT !.wire = FALSE] ELSE req[q]
  OBVIOUS
<1>3. RequestOK(q, r, DOMAIN cb)
  BY <1>1, <1>2, RequestMoves
<1>4. Done(q, r, status, s)
  BY <1>2 DEF Abort
<1> QED
  BY <1>3, <1>4, DoneOK

\* A step of ajax or done.
LEMMA RequestAfter ==
  ASSUME Inv, NEW op \in RequestOps, CallIs(op)
  PROVE  /\ PageOK /\ NothingEarly /\ Rests(AfterCall, DOMAIN cb) /\ FromRun(AfterCall)
         /\ Call.q \in ReqId /\ Listed(Call.q, DOMAIN cb) /\ RequestOK(Call.q, req[Call.q], DOMAIN cb)
<1>1. /\ Rests(AfterCall, DOMAIN cb) /\ FromRun(AfterCall)
      /\ CallOK(Call, DOMAIN cb) /\ Call.op = op /\ NothingEarly
  BY RestsAfter
<1>2. Call.q \in ReqId /\ Listed(Call.q, DOMAIN cb)
  BY <1>1 DEF CallOK, Listed, RequestKeys, RequestOps
<1> QED
  BY <1>1, <1>2 DEF Inv, PageOK

LEMMA DoInactiveOK ==
  ASSUME Inv, DoInactive
  PROVE  Inv' /\ Kept
<1>1. CallIs("inactive") /\ UNCHANGED <<cb, calls, threw, state, own, req>>
  BY DEF DoInactive
<1>2. PICK op \in RequestOps : op = "inactive"
  BY DEF RequestOps
<1>3. /\ PageOK /\ NothingEarly /\ Rests(AfterCall, DOMAIN cb) /\ FromRun(AfterCall)
  BY <1>1, <1>2, RequestAfter
<1>4. PageOK'
  BY <1>1, <1>3, SameCalls, SamePage
<1>5. PICK e : e = "ajaxStop"
  OBVIOUS
<1>6. run' \in {AfterCall, AfterCall \o Triggered(e), AfterCall \o <<>>}
  BY <1>5 DEF DoInactive
<1>7. Rests(run', DOMAIN cb) /\ FromRun(run')
  BY <1>3, <1>6, RestsTriggered, RestsSame
<1> QED
  BY <1>1, <1>3, <1>4, <1>7, StackStep

LEMMA DoTriggerOK ==
  ASSUME Inv, DoTrigger
  PROVE  Inv' /\ Kept
<1>1. CallIs("trigger") /\ run' = AfterCall \o Triggered(Call.e) /\ UNCHANGED <<cb, calls, threw, state, own, req>>
  BY DEF DoTrigger
<1>2. PageOK' /\ Rests(AfterCall, DOMAIN cb) /\ FromRun(AfterCall) /\ NothingEarly
  BY <1>1, AfterPage
<1>3. Rests(run', DOMAIN cb) /\ FromRun(run')
  BY <1>1, <1>2, RestsTriggered
<1> QED
  BY <1>1, <1>2, <1>3, StackStep

\* More to do, and perhaps a handler of the page before that.
GoesOn(s, fn) ==
  run' \in {AfterCall \o Todo(s), AfterCall \o Todo(s) \o Handler(fn),
            AfterCall \o Todo(s) \o Triggered(fn), AfterCall \o Todo(s) \o <<>>}

\* The closure changes, and the request has more to do.
LEMMA RequestGoesOn ==
  ASSUME Inv, NEW op \in RequestOps, CallIs(op), UNCHANGED <<cb, calls, threw, state, own>>,
         NEW q, q = Call.q,
         NEW r, RequestOK(q, r, DOMAIN cb), req' = [req EXCEPT ![q] = r] \/ req' = req,
         NEW s, CallsOK(s, DOMAIN cb), NEW fn, GoesOn(s, fn)
  PROVE  Inv' /\ Kept
<1>1. /\ PageOK /\ NothingEarly /\ Rests(AfterCall, DOMAIN cb) /\ FromRun(AfterCall)
      /\ q \in ReqId
  BY RequestAfter
<1>2. CallsLeft
  BY <1>1, SameCalls
<1>3. PageOK'
  BY <1>1, <1>2, RequestPage, SamePage
<1>4. PICK t : t = AfterCall \o Todo(s)
  OBVIOUS
<1>5. Rests(t, DOMAIN cb) /\ FromRun(t)
  BY <1>1, <1>4, RestsTodo
<1>6. run' \in {t, t \o Handler(fn), t \o Triggered(fn), t \o <<>>}
  BY <1>4 DEF GoesOn
<1>7. Rests(run', DOMAIN cb) /\ FromRun(run')
  BY <1>5, <1>6, RestsHandler, RestsTriggered, RestsSame
<1> QED
  BY <1>1, <1>3, <1>7, StackStep

LEMMA DoGlobalsOK ==
  ASSUME Inv, DoGlobals
  PROVE  Inv' /\ Kept
<1>1. CallIs("globals") /\ UNCHANGED <<cb, calls, threw, state, own>>
  BY DEF DoGlobals
<1>2. PICK op, next \in RequestOps : op = "globals" /\ next = "beforeSend"
  BY DEF RequestOps
<1>3. PICK q : q = Call.q
  OBVIOUS
<1>4. /\ PageOK /\ NothingEarly /\ Rests(AfterCall, DOMAIN cb) /\ FromRun(AfterCall)
      /\ q \in ReqId /\ Listed(q, DOMAIN cb) /\ RequestOK(q, req[q], DOMAIN cb)
  BY <1>1, <1>2, <1>3, RequestAfter
<1>5. CASE IsDone(req[q])
  <2>1. run' = AfterCall /\ req' = req
    BY <1>3, <1>5 DEF DoGlobals
  <2>2. PageOK'
    BY <1>1, <1>4, <2>1, SameCalls, SamePage
  <2>3. Rests(run', DOMAIN cb) /\ FromRun(run')
    BY <1>4, <2>1
  <2> QED
    BY <1>1, <1>4, <2>2, <2>3, StackStep
<1>6. CASE ~IsDone(req[q])
  <2>1. PICK g, r : g = req[q].asked.global /\ r = [req[q] EXCEPT !.globals = g]
    OBVIOUS
  <2>2. PICK e : e = "ajaxStart"
    OBVIOUS
  <2>3. PICK s : s = <<RequestCall(next, q)>>
    OBVIOUS
  <2>4. CallsOK(s, DOMAIN cb)
    BY <1>4, <2>3, RequestCallOK, CallsOne
  <2>5. req' = [req EXCEPT ![q] = r]
    BY <1>3, <1>6, <2>1 DEF DoGlobals
  <2>6. GoesOn(s, e)
    BY <1>2, <1>3, <1>6, <2>2, <2>3 DEF DoGlobals, GoesOn
  <2>7. RequestOK(q, r, DOMAIN cb)
    BY <1>4, <2>1, RequestMoves
  <2> QED
    BY <1>1, <1>2, <1>3, <2>4, <2>5, <2>6, <2>7, RequestGoesOn
<1> QED
  BY <1>5, <1>6

LEMMA DoBeforeSendOK ==
  ASSUME Inv, DoBeforeSend
  PROVE  Inv' /\ Kept
<1>1. CallIs("beforeSend") /\ UNCHANGED <<cb, calls, threw, state, own>>
  BY DEF DoBeforeSend
<1>2. PICK op, next \in RequestOps : op = "beforeSend" /\ next = "install"
  BY DEF RequestOps
<1>3. PICK q : q = Call.q
  OBVIOUS
<1>4. q \in ReqId /\ Listed(q, DOMAIN cb) /\ RequestOK(q, req[q], DOMAIN cb)
  BY <1>1, <1>2, <1>3, RequestAfter
<1>5. PICK g, r : g = TRUE /\ r = [req[q] EXCEPT !.known = g]
  OBVIOUS
<1>6. PICK e : e = "beforeSend"
  OBVIOUS
<1>7. PICK s : s = <<RequestCall(next, q)>>
  OBVIOUS
<1>8. CallsOK(s, DOMAIN cb)
  BY <1>4, <1>7, RequestCallOK, CallsOne
<1>9. req' = [req EXCEPT ![q] = r]
  BY <1>3, <1>5 DEF DoBeforeSend
<1>10. GoesOn(s, e)
  BY <1>2, <1>3, <1>6, <1>7 DEF DoBeforeSend, GoesOn
<1>11. RequestOK(q, r, DOMAIN cb)
  BY <1>4, <1>5, RequestMoves
<1> QED
  BY <1>1, <1>2, <1>3, <1>8, <1>9, <1>10, <1>11, RequestGoesOn

LEMMA InstallCallsOK ==
  ASSUME NEW L, NEW q \in ReqId, Listed(q, L)
  PROVE  CallsOK(InstallCalls(q), L)
<1>1. ASSUME NEW a \in RequestKeys, NEW fn PROVE CallOK(AddCall(<<q, a>>, OfPage(fn)), L)
  <2>1. PICK l : l = <<q, a>>
    OBVIOUS
  <2>2. l \in L \ {OwnList} /\ Addable(OfPage(fn), L) /\ l # <<ReadyList, "done">>
    BY <2>1, ReadyAssumption, NotOwn DEF Listed, RequestKeys, Addable, OfPage
  <2> QED
    BY <2>1, <2>2, AddCallOK
<1>2. PICK op \in RequestOps : op = "transport"
  BY DEF RequestOps
<1>3. CallOK(RequestCall(op, q), L)
  BY RequestCallOK
<1>4. /\ CallOK(AddCall(<<q, "done">>, OfPage("success")), L)
      /\ CallOK(AddCall(<<q, "fail">>, OfPage("error")), L)
      /\ CallOK(AddCall(<<q, "complete">>, OfPage("complete")), L)
  BY <1>1 DEF RequestKeys
<1> QED
  BY <1>2, <1>3, <1>4, CallsFour DEF InstallCalls

LEMMA DoInstallOK ==
  ASSUME Inv, DoInstall
  PROVE  Inv' /\ Kept
<1>1. CallIs("install") /\ UNCHANGED <<cb, calls, threw, state, own>>
  BY DEF DoInstall
<1>2. PICK op \in RequestOps : op = "install"
  BY DEF RequestOps
<1>3. PICK q : q = Call.q
  OBVIOUS
<1>4. /\ PageOK /\ NothingEarly /\ Rests(AfterCall, DOMAIN cb) /\ FromRun(AfterCall)
      /\ q \in ReqId /\ Listed(q, DOMAIN cb) /\ RequestOK(q, req[q], DOMAIN cb)
  BY <1>1, <1>2, <1>3, RequestAfter
<1>5. CASE Abort(q, "abort", AfterCall)
  <2>1. PICK status : status = "abort"
    OBVIOUS
  <2>2. CallsLeft
    BY <1>1, <1>4, SameCalls
  <2>3. Abort(q, status, AfterCall)
    BY <1>5, <2>1
  <2> QED
    BY <1>1, <1>4, <2>2, <2>3, AbortOK
<1>6. CASE run' = AfterCall \o Todo(InstallCalls(q)) /\ UNCHANGED req
  <2>1. PICK s : s = InstallCalls(q)
    OBVIOUS
  <2>2. CallsOK(s, DOMAIN cb)
    BY <1>4, <2>1, InstallCallsOK
  <2>3. GoesOn(s, s)
    BY <1>6, <2>1 DEF GoesOn
  <2> QED
    BY <1>1, <1>2, <1>3, <1>4, <1>6, <2>2, <2>3, RequestGoesOn
<1> QED
  BY <1>3, <1>5, <1>6 DEF DoInstall

LEMMA DoTransportOK ==
  ASSUME Inv, DoTransport
  PROVE  Inv' /\ Kept
<1>1. CallIs("transport") /\ UNCHANGED <<cb, calls, threw, state, own>>
  BY DEF DoTransport
<1>2. PICK op, next \in RequestOps : op = "transport" /\ next = "send"
  BY DEF RequestOps
<1>3. PICK q : q = Call.q
  OBVIOUS
<1>4. /\ PageOK /\ NothingEarly /\ Rests(AfterCall, DOMAIN cb) /\ FromRun(AfterCall)
      /\ q \in ReqId /\ Listed(q, DOMAIN cb) /\ RequestOK(q, req[q], DOMAIN cb)
  BY <1>1, <1>2, <1>3, RequestAfter
<1>5. CASE req[q].asked.via = "none"
  <2>1. PICK status : status = "error"
    OBVIOUS
  <2>2. CallsLeft
    BY <1>1, <1>4, SameCalls
  <2>3. Done(q, req[q], status, AfterCall)
    BY <1>3, <1>5, <2>1 DEF DoTransport
  <2>4. PICK r : r = req[q]
    OBVIOUS
  <2> QED
    BY <1>1, <1>4, <2>2, <2>3, <2>4, DoneOK
<1>6. CASE req[q].asked.via # "none"
  <2>1. PICK g, r : g = TRUE /\ r = [req[q] EXCEPT !.transport = g]
    OBVIOUS
  <2>2. PICK e : e = "ajaxSend"
    OBVIOUS
  <2>3. PICK s : s = <<RequestCall(next, q)>>
    OBVIOUS
  <2>4. CallsOK(s, DOMAIN cb)
    BY <1>4, <2>3, RequestCallOK, CallsOne
  <2>5. req' = [req EXCEPT ![q] = r]
    BY <1>3, <1>6, <2>1 DEF DoTransport
  <2>6. GoesOn(s, e)
    BY <1>2, <1>3, <1>6, <2>2, <2>3 DEF DoTransport, GoesOn
  <2>7. RequestOK(q, r, DOMAIN cb)
    BY <1>4, <2>1, RequestMoves
  <2> QED
    BY <1>1, <1>2, <1>3, <2>4, <2>5, <2>6, <2>7, RequestGoesOn
<1> QED
  BY <1>5, <1>6

LEMMA DoSendOK ==
  ASSUME Inv, DoSend
  PROVE  Inv' /\ Kept
<1>1. CallIs("send") /\ UNCHANGED <<cb, calls, threw, state, own>>
  BY DEF DoSend
<1>2. PICK op \in RequestOps : op = "send"
  BY DEF RequestOps
<1>3. PICK q : q = Call.q
  OBVIOUS
<1>4. /\ PageOK /\ NothingEarly /\ Rests(AfterCall, DOMAIN cb) /\ FromRun(AfterCall)
      /\ q \in ReqId /\ Listed(q, DOMAIN cb) /\ RequestOK(q, req[q], DOMAIN cb)
  BY <1>1, <1>2, <1>3, RequestAfter
<1>5. PICK n, t, r : /\ n = 1 /\ t = (req[q].asked.timeout /\ req[q].asked.via # "sync")
                     /\ r = [req[q] EXCEPT !.state = n, !.timer = t]
  OBVIOUS
<1>6. RequestOK(q, r, DOMAIN cb)
  BY <1>4, <1>5, RequestMoves
<1>7. CallsLeft
  BY <1>1, <1>4, SameCalls
<1>8. PICK g, w : g = TRUE /\ w = [r EXCEPT !.wire = g]
  OBVIOUS
<1>9. \/ \E status : Done(q, r, status, AfterCall)
      \/ req' = [req EXCEPT ![q] = w] /\ run' = AfterCall
  BY <1>3, <1>5, <1>8 DEF DoSend
<1>10. ASSUME NEW status, Done(q, r, status, AfterCall)
       PROVE  Inv' /\ Kept
  BY <1>1, <1>4, <1>6, <1>7, <1>10, DoneOK
<1>11. CASE req' = [req EXCEPT ![q] = w] /\ run' = AfterCall
  <2>1. RequestOK(q, w, DOMAIN cb)
    BY <1>4, <1>6, <1>8, RequestMoves
  <2>2. PageOK'
    BY <1>1, <1>4, <1>7, <1>11, <2>1, RequestPage
  <2>3. Rests(run', DOMAIN cb) /\ FromRun(run')
    BY <1>4, <1>11
  <2> QED
    BY <1>1, <1>4, <2>2, <2>3, StackStep
<1> QED
  BY <1>9, <1>10, <1>11

LEMMA AjaxStepsOK ==
  ASSUME Inv, AjaxSteps
  PROVE  Inv' /\ Kept
BY DoInactiveOK, DoTriggerOK, DoGlobalsOK, DoBeforeSendOK, DoInstallOK, DoTransportOK, DoSendOK DEF AjaxSteps

-----------------------------------------------------------------------------
(***************************************************************************)
(* The answer, the timer and the calls of the page.                        *)
(***************************************************************************)

\* Between two scripts.
LEMMA Between ==
  ASSUME Inv, run = <<>>, UNCHANGED calls
  PROVE  /\ PageOK /\ CallsLeft /\ NothingEarly
         /\ Rests(run, DOMAIN cb) /\ FromRun(run)
<1>1. PageOK /\ PageRuns
  BY DEF Inv, PageRuns
<1> QED
  BY <1>1, SameCalls, InPage, RestsRun DEF Inv

LEMMA AnswerOK ==
  ASSUME Inv, NEW q \in ReqId, Answer(q)
  PROVE  Inv' /\ Kept
<1>1. run = <<>> /\ req[q].wire /\ UNCHANGED <<cb, calls, threw, state, own>>
  BY DEF Answer
<1>2. PageOK /\ CallsLeft /\ NothingEarly /\ Rests(run, DOMAIN cb) /\ FromRun(run)
  BY <1>1, Between
<1>3. RequestOK(q, req[q], DOMAIN cb) /\ Listed(q, DOMAIN cb)
  BY <1>1, <1>2 DEF PageOK, RequestOK, Listed, RequestKeys
<1>4. PICK g, r : g = FALSE /\ r = [req[q] EXCEPT !.wire = g]
  OBVIOUS
<1>5. RequestOK(q, r, DOMAIN cb)
  BY <1>3, <1>4, RequestMoves
<1>6. PICK status : Done(q, r, status, run)
  BY <1>4 DEF Answer
<1> QED
  BY <1>1, <1>2, <1>3, <1>5, <1>6, DoneOK

LEMMA TimeoutOK ==
  ASSUME Inv, NEW q \in ReqId, Timeout(q)
  PROVE  Inv' /\ Kept
<1>1. run = <<>> /\ req[q].timer /\ UNCHANGED <<cb, calls, threw, state, own>>
  BY DEF Timeout
<1>2. PageOK /\ CallsLeft /\ NothingEarly /\ Rests(run, DOMAIN cb) /\ FromRun(run)
  BY <1>1, Between
<1>3. Listed(q, DOMAIN cb)
  BY <1>1, <1>2 DEF PageOK, RequestOK, Listed, RequestKeys
<1>4. PICK status : status = "timeout" /\ Abort(q, status, run)
  BY DEF Timeout
<1> QED
  BY <1>1, <1>2, <1>3, <1>4, AbortOK

\* A call of the page on a request it knows.
LEMMA KnownRequest ==
  ASSUME Inv, NEW q \in ReqId, Spend("request"), req[q].known
  PROVE  /\ PageOK /\ CallsLeft /\ threw' = threw /\ NothingEarly
         /\ Rests(run, DOMAIN cb) /\ FromRun(run)
         /\ Listed(q, DOMAIN cb) /\ RequestOK(q, req[q], DOMAIN cb)
<1>1. PICK kind \in Kinds : kind = "request"
  BY DEF Kinds
<1>2. /\ PageOK /\ CallsLeft /\ threw' = threw /\ NothingEarly
      /\ Rests(run, DOMAIN cb) /\ FromRun(run)
  BY <1>1, PageCall
<1>3. RequestOK(q, req[q], DOMAIN cb) /\ Listed(q, DOMAIN cb)
  BY <1>2 DEF PageOK, RequestOK, Listed, RequestKeys
<1> QED
  BY <1>2, <1>3

LEMMA AbortRequestOK ==
  ASSUME Inv, NEW q \in ReqId, AbortRequest(q)
  PROVE  Inv' /\ Kept
<1>1. Spend("request") /\ req[q].known /\ UNCHANGED <<cb, state, own>>
  BY DEF AbortRequest
<1>2. PICK status : status = "abort" /\ Abort(q, status, run)
  BY DEF AbortRequest
<1> QED
  BY <1>1, <1>2, KnownRequest, AbortOK

LEMMA ListenCallOK ==
  ASSUME NEW L, NEW q \in ReqId, Listed(q, L), NEW a \in RequestKeys, NEW fn
  PROVE  CallOK(AddCall(<<q, a>>, OfPage(fn)), L)
<1>1. PICK l : l = <<q, a>>
  OBVIOUS
<1>2. l \in L \ {OwnList} /\ Addable(OfPage(fn), L) /\ l # <<ReadyList, "done">>
  BY <1>1, ReadyAssumption, NotOwn DEF Listed, RequestKeys, Addable, OfPage
<1> QED
  BY <1>1, <1>2, AddCallOK

LEMMA StatusCodeOK ==
  ASSUME Inv, NEW q \in ReqId, NEW fn, StatusCode(q, fn)
  PROVE  Inv' /\ Kept
<1>1. Spend("request") /\ req[q].known /\ UNCHANGED <<cb, state, own>>
  BY DEF StatusCode
<1>2. /\ PageOK /\ CallsLeft /\ threw' = threw /\ NothingEarly
      /\ Rests(run, DOMAIN cb) /\ FromRun(run)
      /\ Listed(q, DOMAIN cb) /\ RequestOK(q, req[q], DOMAIN cb)
  BY <1>1, KnownRequest
<1>3. PICK s : s = AlwaysCalls(q, fn)
  OBVIOUS
<1>4. CallsOK(s, DOMAIN cb)
  <2>1. CallOK(AddCall(<<q, "done">>, OfPage(fn)), DOMAIN cb)
    BY <1>2, ListenCallOK DEF RequestKeys
  <2>2. CallOK(AddCall(<<q, "fail">>, OfPage(fn)), DOMAIN cb)
    BY <1>2, ListenCallOK DEF RequestKeys
  <2> QED
    BY <1>3, <2>1, <2>2, CallsTwo DEF AlwaysCalls
<1>5. CASE IsDone(req[q])
  <2>1. run' = run \o Todo(s) /\ req' = req
    BY <1>3, <1>5 DEF StatusCode
  <2>2. Rests(run', DOMAIN cb) /\ FromRun(run')
    BY <1>2, <1>4, <2>1, RestsTodo
  <2>3. PageOK'
    BY <1>1, <1>2, <2>1, SamePage
  <2> QED
    BY <1>1, <1>2, <2>2, <2>3, StackStep
<1>6. CASE ~IsDone(req[q])
  <2>1. PICK e, r : e = req[q].onStatus \o s /\ r = [req[q] EXCEPT !.onStatus = e]
    OBVIOUS
  <2>2. req' = [req EXCEPT ![q] = r] /\ run' = run
    BY <1>3, <1>6, <2>1 DEF StatusCode
  <2>3. CallsOK(e, DOMAIN cb)
    BY <1>2, <1>4, <2>1, CallsConcat DEF RequestOK
  <2>4. RequestOK(q, r, DOMAIN cb)
    BY <1>2, <2>1, <2>3, OnStatusOK
  <2>5. PageOK'
    BY <1>1, <1>2, <2>2, <2>4, RequestPage
  <2>6. Rests(run', DOMAIN cb) /\ FromRun(run')
    BY <1>2, <2>2
  <2> QED
    BY <1>1, <1>2, <2>5, <2>6, StackStep
<1> QED
  BY <1>5, <1>6

LEMMA ListenToOK ==
  ASSUME Inv, NEW q \in ReqId, NEW a \in RequestKeys, NEW fn, ListenTo(q, a, fn)
  PROVE  Inv' /\ Kept
<1>1. Spend("request") /\ req[q].known /\ UNCHANGED <<cb, state, own, req>>
  BY DEF ListenTo
<1>2. PICK s : s = <<AddCall(<<q, a>>, OfPage(fn))>> /\ run' = run \o Todo(s)
  BY DEF ListenTo
<1>3. /\ PageOK /\ CallsLeft /\ threw' = threw /\ NothingEarly
      /\ Rests(run, DOMAIN cb) /\ FromRun(run) /\ Listed(q, DOMAIN cb)
  BY <1>1, KnownRequest
<1>4. CallsOK(s, DOMAIN cb)
  BY <1>2, <1>3, ListenCallOK, CallsOne
<1>5. Rests(run', DOMAIN cb) /\ FromRun(run')
  BY <1>2, <1>3, <1>4, RestsTodo
<1>6. PageOK'
  BY <1>1, <1>3, SamePage
<1> QED
  BY <1>1, <1>3, <1>5, <1>6, StackStep

\* The lists of a new request.
LEMMA NewRequestLists ==
  ASSUME Inv, NEW q \in DefId, NEW c, c = Joined(cb, RequestLists(q))
  PROVE  /\ ListsOK(c) /\ Keeps(c)
         /\ DOMAIN c = DOMAIN cb \union NewListsOf(q) \union ({q} \X {"complete"})
<1>1. PICK g : g = RequestLists(q)
  OBVIOUS
<1>2. /\ DOMAIN g = {q} \X (Action \union {"complete"})
      /\ \A l \in DOMAIN g : g[l] = IF l[2] = "complete" THEN New(OnceMemory) ELSE NewList(q, l[2])
  BY <1>1 DEF RequestLists
<1>3. /\ DOMAIN c = DOMAIN cb \union DOMAIN g
      /\ \A l \in DOMAIN cb : c[l] = cb[l]
      /\ \A l \in DOMAIN g : l \notin DOMAIN cb => c[l] = g[l]
  BY <1>1 DEF Joined
<1>4. ASSUME NEW l \in DOMAIN g, l \notin DOMAIN cb
      PROVE  /\ ListOK(l, c[l], DOMAIN c) /\ ~c[l].firing /\ ~c[l].fired
             /\ l \in SettlingList => SettlingOK(l, c[l])
  <2>1. PICK a \in Action \union {"complete"} : l = <<q, a>>
    BY <1>2
  <2>2. l[1] = q /\ l[2] = a
    BY <2>1
  <2>3. CASE a = "complete"
    <3>1. c[l] = New(OnceMemory)
      BY <1>2, <1>3, <1>4, <2>2, <2>3
    <3>2. l \notin SettlingList
      BY <2>1, <2>3 DEF SettlingList, Settling
    <3> QED
      BY <3>1, <3>2, NewOK
  <2>4. CASE a # "complete"
    <3>1. c[l] = NewList(q, a) /\ a \in Action
      BY <1>2, <1>3, <1>4, <2>2, <2>4
    <3>2. PICK L, o : L = DOMAIN c /\ o = NewList(q, a)
      OBVIOUS
    <3>3. /\ ListOK(l, o, L) /\ ~o.firing /\ ~o.fired
          /\ l \in SettlingList => SettlingOK(l, o)
      BY <2>1, <3>1, <3>2, NewListOK
    <3> QED
      BY <3>1, <3>2, <3>3
  <2> QED
    BY <2>3, <2>4
<1>5. PICK M : M = DOMAIN g
  OBVIOUS
<1>6. ListsOK(cb)
  BY DEF Inv
<1>7. ListsOK(c) /\ Keeps(c)
  BY <1>3, <1>4, <1>5, <1>6, MoreLists
<1>8. DOMAIN g = NewListsOf(q) \union ({q} \X {"complete"})
  BY <1>2 DEF NewListsOf
<1> QED
  BY <1>3, <1>7, <1>8

LEMMA NewRequestOK ==
  ASSUME NEW L, NEW q, Listed(q, L), NEW s, NEW r, r = NewRequest(s)
  PROVE  RequestOK(q, r, L)
<1>1. PICK f, z, k, e : f = FALSE /\ z = 0 /\ k = ("prefilter" \in s.hooks) /\ e = <<>>
  OBVIOUS
<1>2. r = [asked |-> s, state |-> z, globals |-> f, transport |-> f, timer |-> f, wire |-> f,
           known |-> k, onStatus |-> e, dones |-> z]
  BY <1>1 DEF NewRequest
<1>3. RequestShape(r) /\ r.onStatus = e
  BY <1>2, RequestFields
<1>4. CallsOK(e, L)
  BY <1>1, CallsNone
<1> QED
  BY <1>3, <1>4 DEF RequestOK, Listed, RequestKeys

LEMMA AjaxOK ==
  ASSUME Inv, NEW q \in ReqId, NEW s, Ajax(q, s)
  PROVE  Inv' /\ Kept
<1>1. /\ Spend("request") /\ cb' = Joined(cb, RequestLists(q))
      /\ state' = [state EXCEPT ![q] = "pending"] /\ own' = own
  BY DEF Ajax
<1>2. PICK kind \in Kinds : kind = "request"
  BY DEF Kinds
<1>3. /\ PageOK /\ CallsLeft /\ threw' = threw /\ NothingEarly
      /\ Rests(run, DOMAIN cb) /\ FromRun(run)
  BY <1>1, <1>2, PageCall
<1>4. q \in DefId
  BY AjaxAssumption
<1>5. PICK X : X = {q} \X {"complete"}
  OBVIOUS
<1>6. X \intersect (DefId \X Action) = {}
  BY <1>5 DEF Action
<1>7. /\ ListsOK(cb') /\ Keeps(cb') /\ DOMAIN cb' = DOMAIN cb \union NewListsOf(q) \union X
  BY <1>1, <1>4, <1>5, NewRequestLists
<1>8. DOMAIN cb \subseteq DOMAIN cb' /\ Listed(q, DOMAIN cb')
  BY <1>5, <1>7 DEF Listed, RequestKeys, NewListsOf, Action
<1>9. DOMAIN req' = ReqId /\ \A p \in ReqId : RequestOK(p, req'[p], DOMAIN cb')
  <2>1. PICK r : r = NewRequest(s)
    OBVIOUS
  <2>2. req' = [req EXCEPT ![q] = r]
    BY <2>1 DEF Ajax
  <2>3. DOMAIN req = ReqId /\ \A p \in ReqId : RequestOK(p, req[p], DOMAIN cb)
    BY <1>3 DEF PageOK
  <2>4. DOMAIN req' = ReqId /\ req'[q] = r /\ \A p \in ReqId : p # q => req'[p] = req[p]
    BY <2>2, <2>3
  <2>5. RequestOK(q, r, DOMAIN cb')
    BY <1>8, <2>1, NewRequestOK
  <2>6. \A p \in ReqId : RequestOK(p, req[p], DOMAIN cb')
    BY <1>8, <2>3, RequestGrows
  <2> QED
    BY <2>4, <2>5, <2>6
<1>10. PageOK'
  BY <1>1, <1>3, <1>4, <1>6, <1>7, <1>9, NewPage
<1>11. Rests(run', DOMAIN cb') /\ FromRun(run')
  <2>1. PICK op, e : op \in RequestOps /\ op = "globals" /\ e = "prefilter"
    BY DEF RequestOps
  <2>2. PICK t : t = <<RequestCall(op, q)>>
    OBVIOUS
  <2>3. PICK u : u = run \o Todo(t)
    OBVIOUS
  <2>4. CallsOK(t, DOMAIN cb')
    BY <1>8, <2>1, <2>2, RequestCallOK, CallsOne
  <2>5. Rests(run, DOMAIN cb')
    BY <1>3, <1>8, RestsGrow
  <2>6. Rests(u, DOMAIN cb') /\ FromRun(u)
    BY <1>3, <2>3, <2>4, <2>5, RestsTodo
  <2>7. run' \in {u \o Handler(e), u \o <<>>}
    BY <2>1, <2>2, <2>3 DEF Ajax
  <2> QED
    BY <2>6, <2>7, RestsHandler, RestsSame
<1> QED
  BY <1>3, <1>7, <1>10, <1>11, CalmStep DEF Kept, NothingEarly

LEMMA AjaxStepOK ==
  ASSUME Inv, AjaxStep
  PROVE  Inv' /\ Kept
<1>1. CASE AjaxSteps
  BY <1>1, AjaxStepsOK
<1>2. CASE AjaxCalls
  <2>1. PICK q \in ReqId :
          \/ \E s \in Settings : Ajax(q, s)
          \/ AbortRequest(q)
          \/ \E fn \in Fn : StatusCode(q, fn)
          \/ \E fn \in Fn, a \in {"done", "fail", "complete"} : ListenTo(q, a, fn)
    BY <1>2 DEF AjaxCalls
  <2>2. ASSUME NEW s \in Settings, Ajax(q, s) PROVE Inv' /\ Kept
    BY <2>2, AjaxOK
  <2>3. ASSUME NEW fn \in Fn, StatusCode(q, fn) PROVE Inv' /\ Kept
    BY <2>3, StatusCodeOK
  <2>4. ASSUME NEW fn \in Fn, NEW a \in {"done", "fail", "complete"}, ListenTo(q, a, fn)
        PROVE  Inv' /\ Kept
    BY <2>4, ListenToOK DEF RequestKeys
  <2> QED
    BY <2>1, <2>2, <2>3, <2>4, AbortRequestOK
<1>3. ASSUME NEW q \in ReqId, Answer(q) \/ Timeout(q)
      PROVE  Inv' /\ Kept
  BY <1>3, AnswerOK, TimeoutOK
<1> QED
  BY <1>1, <1>2, <1>3 DEF AjaxStep

-----------------------------------------------------------------------------
(***************************************************************************)
(* Ready.                                                                  *)
(***************************************************************************)

LEMMA EventsOK == ASSUME NEW L PROVE CallsOK(<<EventCall>>, L) /\ CallsOK(<<OffCall>>, L)
<1>1. CallOK(EventCall, L) /\ CallOK(OffCall, L)
  BY DEF CallOK, EventCall, OffCall
<1> QED
  BY <1>1, CallsOne

LEMMA DoReadyEventOK ==
  ASSUME Inv, DoReadyEvent
  PROVE  Inv' /\ Kept
<1>1. CallIs("ready") /\ UNCHANGED <<cb, calls, threw, state, own, req>>
  BY DEF DoReadyEvent, restOfAjax
<1>2. PageOK' /\ Rests(AfterCall, DOMAIN cb) /\ FromRun(AfterCall) /\ NothingEarly
  BY <1>1, AfterPage
<1>3. PICK e, t : e = "onready" /\ t = AfterCall \o Todo(<<OffCall>>)
  OBVIOUS
<1>4. Rests(t, DOMAIN cb) /\ FromRun(t)
  BY <1>2, <1>3, EventsOK, RestsTodo
<1>5. run' \in {t \o Handler(e), t \o <<>>}
  BY <1>3 DEF DoReadyEvent
<1>6. Rests(run', DOMAIN cb) /\ FromRun(run')
  BY <1>4, <1>5, RestsHandler, RestsSame
<1> QED
  BY <1>1, <1>2, <1>6, StackStep

LEMMA DoOffOK ==
  ASSUME Inv, DoOff
  PROVE  Inv' /\ Kept
<1>1. CallIs("off") /\ run' = AfterCall /\ UNCHANGED <<cb, calls, threw, state, own, req>>
  BY DEF DoOff, restOfAjax
<1>2. PageOK' /\ Rests(AfterCall, DOMAIN cb) /\ FromRun(AfterCall) /\ NothingEarly
  BY <1>1, AfterPage
<1>3. Rests(run', DOMAIN cb) /\ FromRun(run')
  BY <1>1, <1>2
<1> QED
  BY <1>1, <1>2, <1>3, StackStep

\* The Deferred under ready is resolved; without one, that is a call on undefined.
LEMMA ResolveOK ==
  ASSUME Inv, CallsLeft, NothingEarly, UNCHANGED <<cb, state, own, req>>,
         Rests(run, DOMAIN cb), FromRun(run), Resolve(run)
  PROVE  Inv' /\ Kept
<1>1. PageOK
  BY DEF Inv
<1>2. PageOK'
  BY <1>1, SamePage
<1>3. CASE Made(ReadyList)
  <2>1. PICK l, v : l = <<ReadyList, "done">> /\ v = "ready"
    OBVIOUS
  <2>2. l \in DOMAIN cb \ {OwnList} /\ l # <<ReadyList, "fail">>
    BY <1>1, <1>3, <2>1, ReadyAssumption, NotOwn DEF PageOK, Action
  <2>3. CallOK(FireCall(l, v), DOMAIN cb) /\ CallOK(EventCall, DOMAIN cb)
    BY <2>2, FireCallOK DEF CallOK, EventCall
  <2>4. PICK s : s = <<FireCall(l, v), EventCall>>
    OBVIOUS
  <2>5. CallsOK(s, DOMAIN cb)
    BY <2>3, <2>4, CallsTwo
  <2>6. run' = run \o Todo(s) /\ threw' = threw
    BY <1>3, <2>1, <2>4 DEF Resolve
  <2>7. Rests(run', DOMAIN cb) /\ FromRun(run')
    BY <2>5, <2>6, RestsTodo
  <2> QED
    BY <1>2, <2>6, <2>7, StackStep
<1>4. CASE ~Made(ReadyList)
  BY <1>2, <1>4, ThrowStep DEF Resolve, Kept
<1> QED
  BY <1>3, <1>4

LEMMA QuietStep ==
  ASSUME Inv, CallsLeft, NothingEarly, UNCHANGED <<cb, run, threw, state, own, req>>,
         Rests(run, DOMAIN cb), FromRun(run)
  PROVE  Inv' /\ Kept
<1>1. PageOK'
  BY SamePage DEF Inv
<1>2. Rests(run', DOMAIN cb) /\ FromRun(run')
  OBVIOUS
<1> QED
  BY <1>1, <1>2, StackStep

LEMMA HoldOK ==
  ASSUME Inv, Hold
  PROVE  Inv' /\ Kept
<1>1. Spend("ready") /\ UNCHANGED <<cb, run, state, own, req>>
  BY DEF Hold, restOfAjax
<1>2. PICK kind \in Kinds : kind = "ready"
  BY DEF Kinds
<1>3. /\ CallsLeft /\ threw' = threw /\ NothingEarly
      /\ Rests(run, DOMAIN cb) /\ FromRun(run)
  BY <1>1, <1>2, PageCall
<1> QED
  BY <1>1, <1>3, QuietStep

LEMMA ReleaseOK ==
  ASSUME Inv, Release
  PROVE  Inv' /\ Kept
<1>1. /\ PageRuns /\ calls["ready"] > 0 /\ calls' = [calls EXCEPT !["ready"] = @ - 1]
      /\ UNCHANGED <<cb, state, own, req>>
  BY DEF Release, restOfAjax
<1>2. NothingEarly /\ Rests(run, DOMAIN cb) /\ FromRun(run)
  BY <1>1, InPage, RestsRun DEF Inv
<1>3. CallsLeft
  <2>1. calls \in [Kinds -> Nat]
    BY DEF Inv, PageOK
  <2>2. PICK n \in Nat : n = calls["ready"] - 1
    BY <1>1, <2>1 DEF Kinds
  <2>3. calls' = [calls EXCEPT !["ready"] = n]
    BY <1>1, <2>2
  <2>4. calls' \in [Kinds -> Nat]
    BY <2>1, <2>3
  <2>5. calls'["list"] = calls["list"]
    BY <2>1, <2>3 DEF Kinds
  <2> QED
    BY <2>4, <2>5 DEF CallsLeft
<1>4. \/ UNCHANGED <<run, threw>>
      \/ Resolve(run)
  BY DEF Release, ReadyReleased
<1> QED
  BY <1>1, <1>2, <1>3, <1>4, QuietStep, ResolveOK

LEMMA AskReadyOK ==
  ASSUME Inv, NEW fn \in Fn, AskReady(fn)
  PROVE  Inv' /\ Kept
<1>1. Spend("ready") /\ UNCHANGED <<own, req>>
  BY DEF AskReady, restOfAjax
<1>2. PICK kind \in Kinds : kind = "ready"
  BY DEF Kinds
<1>3. /\ PageOK /\ CallsLeft /\ threw' = threw /\ NothingEarly
      /\ Rests(run, DOMAIN cb) /\ FromRun(run)
  BY <1>1, <1>2, PageCall
<1>4. PICK d \in DefId : d = ReadyList
  BY ReadyAssumption
<1>5. PICK s : s = <<AddCall(<<d, "done">>, OfPage(fn))>>
  OBVIOUS
<1>6. run' = run \o Todo(s)
  BY <1>4, <1>5 DEF AskReady
<1>7. /\ PageOK' /\ Made(d)'
      /\ ListsOK(cb') /\ Keeps(cb') /\ DOMAIN cb \subseteq DOMAIN cb'
  <2>1. CASE Made(ReadyList) /\ UNCHANGED <<cb, state>>
    <3>1. PageOK' /\ Made(d)'
      BY <1>1, <1>3, <1>4, <2>1, SamePage DEF Made
    <3> QED
      BY <2>1, <3>1, KeepsSame DEF Inv
  <2>2. CASE WithNew(ReadyList)
    <3>1. WithNew(d) /\ own' \subseteq own \union ({d} \ {ReadyList}) /\ req' = req
      BY <1>1, <1>4, <2>2
    <3> QED
      BY <1>3, <3>1, WithNewOK
  <2> QED
    BY <2>1, <2>2 DEF AskReady
<1>8. CallsOK(s, DOMAIN cb')
  <2>1. PICK l : l = <<d, "done">>
    OBVIOUS
  <2>2. l \in DOMAIN cb' \ {OwnList}
    BY <1>7, <2>1, NotOwn DEF PageOK, Action
  <2>3. CallOK(AddCall(l, OfPage(fn)), DOMAIN cb')
    BY <2>2, AddCallOK DEF Addable, OfPage
  <2> QED
    BY <1>5, <2>1, <2>3, CallsOne
<1> QED
  BY <1>3, <1>6, <1>7, <1>8, QueueStep

\* ready(), from the document or a timer.
LEMMA ReadyNowOK ==
  ASSUME Inv, run = <<>>, ReadyNow, UNCHANGED <<cb, calls, state, own, req>>
  PROVE  Inv' /\ Kept
<1>1. CallsLeft /\ NothingEarly /\ Rests(run, DOMAIN cb) /\ FromRun(run)
  BY Between
<1>2. UNCHANGED <<run, threw>> \/ Resolve(run)
  BY DEF ReadyNow
<1> QED
  BY <1>1, <1>2, QuietStep, ResolveOK

LEMMA LoadOK ==
  ASSUME Inv, Load
  PROVE  Inv' /\ Kept
<1>1. run = <<>> /\ UNCHANGED <<cb, calls, state, own, req>> /\ (ReadyNow \/ UNCHANGED <<run, threw>>)
  BY DEF Load, restOfAjax
<1>2. CallsLeft /\ NothingEarly /\ Rests(run, DOMAIN cb) /\ FromRun(run)
  BY <1>1, Between
<1> QED
  BY <1>1, <1>2, QuietStep, ReadyNowOK

LEMMA TimerOK ==
  ASSUME Inv, Timer
  PROVE  Inv' /\ Kept
BY ReadyNowOK DEF Timer, restOfAjax

LEMMA ReadyOK ==
  ASSUME Inv, ReadySteps \/ ReadyCalls \/ Load \/ Timer
  PROVE  Inv' /\ Kept
<1>1. CASE ReadySteps
  BY <1>1, DoReadyEventOK, DoOffOK DEF ReadySteps
<1>2. CASE ReadyCalls
  BY <1>2, AskReadyOK, HoldOK, ReleaseOK DEF ReadyCalls
<1> QED
  BY <1>1, <1>2, LoadOK, TimerOK

-----------------------------------------------------------------------------
(***************************************************************************)
(* Every step.                                                             *)
(***************************************************************************)

LEMMA StepOK ==
  ASSUME Inv, Next
  PROVE  Inv' /\ Kept
<1>1. CASE DeferredStep
  BY <1>1, DeferredStepsOK, DeferredCallsOK DEF DeferredStep
<1> QED
  BY <1>1, ListStepOK, AjaxStepOK, ReadyOK DEF Next

LEMMA Stutter ==
  ASSUME Inv, UNCHANGED vars
  PROVE  Inv'
<1>1. UNCHANGED <<cb, run, calls, threw, state, own, req>>
  BY DEF vars, ajaxVars, defVars, cbVars
<1>2. ListsOK(cb') /\ StackOK(cb', run', threw')
  BY <1>1 DEF Inv
<1>3. Settled(cb', run')
  BY <1>1 DEF Inv
<1>4. PageOK'
  BY <1>1, SameCalls, SamePage DEF Inv
<1> QED
  BY <1>2, <1>3, <1>4 DEF Inv

-----------------------------------------------------------------------------
(***************************************************************************)
(* The beginning.                                                          *)
(***************************************************************************)

FirstList(l, o) == IF l = OwnList THEN New(o) ELSE NewList(l[1], l[2])

LEMMA FirstListOK ==
  ASSUME NEW S, NEW o, NEW l, l = OwnList \/ l \in DefId \X Action, NEW c, c = FirstList(l, o)
  PROVE  /\ ListOK(l, c, S) /\ ~c.firing /\ ~c.fired
         /\ l \in SettlingList => SettlingOK(l, c)
<1>1. CASE l = OwnList
  <2>1. c = New(o) /\ l \notin SettlingList
    BY <1>1, OwnListKept DEF FirstList
  <2> QED
    BY <2>1, NewOK
<1>2. CASE l # OwnList
  <2>1. PICK d \in DefId, a \in Action : l = <<d, a>>
    BY <1>2
  <2>2. l[1] = d /\ l[2] = a
    BY <2>1
  <2>3. PICK n : n = NewList(d, a)
    OBVIOUS
  <2>4. c = n
    BY <1>2, <2>2, <2>3 DEF FirstList
  <2>5. /\ ListOK(l, n, S) /\ ~n.firing /\ ~n.fired
        /\ l \in SettlingList => SettlingOK(l, n)
    BY <2>1, <2>3, NewListOK
  <2> QED
    BY <2>4, <2>5
<1> QED
  BY <1>1, <1>2

LEMMA FirstRequest == ASSUME NEW L, NEW q, NEW r, r = NoRequest PROVE RequestOK(q, r, L)
<1>1. PICK s : s = [global |-> FALSE, timeout |-> FALSE, via |-> "none", hooks |-> {}]
  OBVIOUS
<1>2. "prefilter" \notin s.hooks
  BY <1>1
<1>3. PICK f, z, k, e : f = FALSE /\ z = 0 /\ k = ("prefilter" \in s.hooks) /\ e = <<>>
  OBVIOUS
<1>4. r = NewRequest(s)
  BY <1>1 DEF NoRequest
<1>5. r = [asked |-> s, state |-> z, globals |-> f, transport |-> f, timer |-> f, wire |-> f,
           known |-> k, onStatus |-> e, dones |-> z]
  BY <1>3, <1>4 DEF NewRequest
<1>6. RequestShape(r) /\ r.timer = f /\ r.wire = f /\ r.known = k /\ r.onStatus = e
  BY <1>5, RequestFields
<1>7. CallsOK(e, L)
  BY <1>3, CallsNone
<1>8. ~r.timer /\ ~r.wire /\ ~r.known
  BY <1>2, <1>3, <1>6
<1> QED
  BY <1>6, <1>7, <1>8 DEF RequestOK

LEMMA InitOK ==
  ASSUME Init
  PROVE  /\ Inv /\ run = <<>>
         /\ \A l \in DOMAIN cb : ~cb[l].fired
<1>1. /\ run = <<>> /\ threw = FALSE
      /\ state = [d \in DefId |-> IF d \in own THEN "pending" ELSE "none"]
      /\ req = [q \in ReqId |-> NoRequest]
  BY DEF Init
<1>2. calls \in [Kinds -> Nat] /\ own \subseteq DefId \ {ReadyList}
  BY CallbacksAssumption, ScriptsAssumption, DeferredsAssumption, ReadyAssumption DEF Init
<1>3. PICK S : S = {l \in {OwnList} : calls["list"] > 0} \union (own \X Action)
  OBVIOUS
<1>4. PICK o : cb = [l \in S |-> IF l = OwnList THEN New(o) ELSE NewList(l[1], l[2])]
  BY <1>3 DEF Init
<1>5. DOMAIN cb = S
  BY <1>4
<1>6. \A l \in S : /\ ListOK(l, cb[l], S) /\ ~cb[l].firing /\ ~cb[l].fired
                   /\ l \in SettlingList => SettlingOK(l, cb[l])
  <2> SUFFICES ASSUME NEW l \in S
               PROVE  /\ ListOK(l, cb[l], S) /\ ~cb[l].firing /\ ~cb[l].fired
                      /\ l \in SettlingList => SettlingOK(l, cb[l])
    OBVIOUS
  <2>1. PICK c : c = FirstList(l, o)
    OBVIOUS
  <2>2. cb[l] = c
    BY <1>4, <2>1 DEF FirstList
  <2>3. l = OwnList \/ l \in DefId \X Action
    BY <1>2, <1>3
  <2> QED
    BY <2>1, <2>2, <2>3, FirstListOK
<1>7. ListsOK(cb) /\ Settled(cb, run)
  BY <1>5, <1>6 DEF ListsOK, Settled
<1>8. StackOK(cb, run, threw)
  <2>1. Stack(run) /\ Len(run) = 0
    BY <1>1, StackEmpty
  <2>2. \A i \in 1..Len(run) : FALSE
    BY <2>1
  <2>3. Frames(run, DOMAIN cb) /\ OneLoop(run) /\ ToldRight(run, cb)
    BY <2>1, <2>2 DEF Frames, OneLoop, ToldRight
  <2>4. Paused(run, Len(run) - 1)
    BY <2>1 DEF Paused
  <2> QED
    BY <1>5, <1>6, <2>2, <2>3, <2>4 DEF StackOK
<1>9. PageOK
  <2>1. state \in [DefId -> {"none", "pending", "resolved", "rejected"}]
    BY <1>1
  <2>2. \A d \in DefId : Made(d) <=> d \in own
    BY <1>1 DEF Made
  <2>3. \A d \in DefId, a \in Action : <<d, a>> \in DOMAIN cb <=> d \in own
    BY <1>3, <1>5, ScriptsAssumption
  <2>4. calls["list"] > 0 => OwnList \in DOMAIN cb
    BY <1>3, <1>5
  <2>5. DOMAIN req = ReqId /\ \A q \in ReqId : RequestOK(q, req[q], DOMAIN cb)
    BY <1>1, FirstRequest
  <2> QED
    BY <1>2, <2>1, <2>2, <2>3, <2>4, <2>5 DEF PageOK
<1> QED
  BY <1>1, <1>5, <1>6, <1>7, <1>8, <1>9 DEF Inv

-----------------------------------------------------------------------------
(***************************************************************************)
(* What holds of every page.                                               *)
(***************************************************************************)

\* Whatever the callbacks of the page call, the lists, the loops on the stack and
\* what they tell of Deferreds fit together (Inv, of PageLemmas).
THEOREM InvAlways == Spec => []Inv
<1>1. Inv /\ [Next]_vars => Inv'
  BY StepOK, Stutter
<1> QED
  BY <1>1, InitOK, PTL DEF Spec

\* A list that is firing has one loop on the stack, any other list none: fire
\* and add inside a callback of the list start no second one.
THEOREM OneLoopAlways == Spec => []OneLoopPerList
<1>1. Inv => OneLoopPerList
  <2> SUFFICES ASSUME Inv, ~threw, NEW l \in DOMAIN cb
               PROVE  Cardinality(FireFrames(l)) = IF cb[l].firing THEN 1 ELSE 0
    BY DEF OneLoopPerList
  <2>1. Stack(run) /\ DOMAIN run = 1..Len(run)
    BY StackLen DEF Inv, StackOK, Frames
  <2>2. CASE cb[l].firing
    <3>1. PICK i \in 1..Len(run) : LoopAt(run, i, l)
      BY <2>2 DEF Inv, StackOK, Looping
    <3>2. FireFrames(l) = {i}
      BY <2>1, <3>1 DEF FireFrames, LoopAt, Inv, StackOK, OneLoop
    <3> QED
      BY <2>2, <3>2, FS_Singleton
  <2>3. CASE ~cb[l].firing
    <3>1. FireFrames(l) = {}
      BY <2>1, <2>3 DEF FireFrames, Inv, StackOK
    <3> QED
      BY <2>3, <3>1, FS_EmptySet
  <2> QED
    BY <2>2, <2>3
<1> QED
  BY <1>1, InvAlways, PTL

\* jQuery.Deferred implements Promise: every Deferred settles once, and every
\* callback it calls is told the same outcome and the same value.
THEOREM PromiseKept == Spec => PromiseSpec
<1>1. Init => P!Init
  <2> SUFFICES ASSUME Init PROVE P!Init
    OBVIOUS
  <2>1. PageOK /\ run = <<>> /\ \A l \in DOMAIN cb : ~cb[l].fired
    BY InitOK DEF Inv
  <2>2. \A d \in DefId : OutcomeOf(d) = [how |-> "pending", with |-> <<>>]
    <3> SUFFICES ASSUME NEW d \in DefId
                 PROVE  OutcomeOf(d) = [how |-> "pending", with |-> <<>>]
      OBVIOUS
    <3>1. ASSUME Made(d), NEW a \in {"done", "fail"} PROVE ~cb[<<d, a>>].fired
      BY <2>1, <3>1 DEF PageOK, Action
    <3> QED
      BY <3>1 DEF OutcomeOf
  <2>3. TellingOf = {}
    BY <2>1 DEF TellingOf
  <2> QED
    BY <2>2, <2>3 DEF P!Init, P!Pending
<1>2. Inv /\ [Next]_vars => [P!Next]_(P!promiseVars)
  <2> SUFFICES ASSUME Inv, [Next]_vars PROVE [P!Next]_(P!promiseVars)
    OBVIOUS
  <2>1. CASE UNCHANGED vars
    <3>1. UNCHANGED <<cb, run, state>>
      BY <2>1 DEF vars, ajaxVars, defVars, cbVars
    <3> QED
      BY <3>1 DEF P!promiseVars, OutcomeOf, TellingOf, Made
  <2>2. CASE Silent
    <3>1. P!Return
      BY <2>2 DEF Silent, P!Return
    <3> QED
      BY <3>1 DEF P!Next
  <2>3. ASSUME NEW d \in DefId, Settles(d) PROVE P!Next
    <3>1. P!Settle(d)
      BY <2>3 DEF Settles, P!Settle, P!Pending
    <3> QED
      BY <3>1 DEF P!Next
  <2>4. ASSUME NEW d \in DefId, Tells(d) PROVE P!Next
    <3>1. P!Tell(d)
      BY <2>4 DEF Tells, P!Tell, P!Pending
    <3> QED
      BY <3>1 DEF P!Next
  <2>5. CASE Next
    BY <2>2, <2>3, <2>4, <2>5, StepOK DEF Kept
  <2> QED
    BY <2>1, <2>5
<1> QED
  BY <1>1, <1>2, InvAlways, PTL DEF Spec, PromiseSpec, P!Spec


-----------------------------------------------------------------------------
(***************************************************************************)
(* Ready.                                                                  *)
(*                                                                         *)
(* The Deferred of ready is resolved once: who takes the counter to zero   *)
(* puts the fire of its list on top of the stack, and the loop this starts *)
(* sets the state first.  Nobody else fires its lists, so none of the two  *)
(* steps can find its list disabled.                                       *)
(***************************************************************************)
ReadyDone == <<ReadyList, "done">>
ReadyFail == <<ReadyList, "fail">>
ReadyPair == {ReadyDone, ReadyFail}

\* A list of ready is fired by ready alone, and one not fired may still be.
Untouched(c) ==
  /\ ReadyFail \in DOMAIN c => ~c[ReadyFail].fired
  /\ ReadyDone \in DOMAIN c /\ ~c[ReadyDone].fired => c[ReadyDone].list \in Seq(ReadyCallbacks)

IsFired(c) == ReadyDone \in DOMAIN c /\ c[ReadyDone].fired

\* The loop has just begun: it sets the state next.
Starting(c, r) ==
  /\ r # <<>> /\ LoopAt(r, Len(r), ReadyDone) /\ r[Len(r)].pc = "next"
  /\ InLoop(c[ReadyDone]) /\ c[ReadyDone].list[c[ReadyDone].firingIndex + 1].k = "state"

\* What a step does to the two lists.
ReadyListsOK ==
  /\ Untouched(cb')
  /\ IsFired(cb) => IsFired(cb')
  /\ IsFired(cb') => IsFired(cb) \/ Starting(cb', run')

LEMMA ReadyLists ==
  /\ ReadyPair \subseteq SettlingList /\ ReadyDone # ReadyFail
  /\ OwnList \notin ReadyPair /\ \A d : <<d, "progress">> \notin ReadyPair
  /\ \A q \in ReqId : \A a : <<q, a>> \notin ReadyPair
  /\ ReadyList \in DefId /\ \A o : o.list \in Seq(ReadyCallbacks) => Enabled(o)
BY ReadyAssumption, ScriptsAssumption DEF ReadyPair, ReadyDone, ReadyFail, SettlingList, Settling, Action, Enabled

\* The lists of others change.
LEMMA OtherLists ==
  ASSUME Untouched(cb), DOMAIN cb' = DOMAIN cb, \A l \in ReadyPair : l \in DOMAIN cb => cb'[l] = cb[l]
  PROVE  ReadyListsOK
BY DEF ReadyListsOK, Untouched, IsFired, ReadyPair

LEMMA OtherList ==
  ASSUME Untouched(cb), NEW l, l \notin ReadyPair, NEW o, cb' = [cb EXCEPT ![l] = o]
  PROVE  ReadyListsOK
<1>1. DOMAIN cb' = DOMAIN cb /\ \A m \in DOMAIN cb : m # l => cb'[m] = cb[m]
  OBVIOUS
<1> QED
  BY <1>1, OtherLists

\* One of the two changes, but is neither fired nor disabled.
LEMMA SameList ==
  ASSUME Untouched(cb), NEW l \in DOMAIN cb, NEW o, cb' = [cb EXCEPT ![l] = o],
         l \in ReadyPair => o.fired = cb[l].fired /\ (~cb[l].fired => o.list = cb[l].list)
  PROVE  ReadyListsOK
<1>1. DOMAIN cb' = DOMAIN cb /\ cb'[l] = o /\ \A m \in DOMAIN cb : m # l => cb'[m] = cb[m]
  OBVIOUS
<1>2. \A m \in ReadyPair : m \in DOMAIN cb => 
        cb'[m].fired = cb[m].fired /\ (~cb[m].fired => cb'[m].list = cb[m].list)
  BY <1>1
<1> QED
  BY <1>1, <1>2 DEF ReadyListsOK, Untouched, IsFired, ReadyPair

\* One that was fired is fired again.
LEMMA FiredList ==
  ASSUME Untouched(cb), NEW l \in DOMAIN cb, NEW o, cb' = [cb EXCEPT ![l] = o],
         l \in ReadyPair => cb[l].fired /\ o.fired
  PROVE  ReadyListsOK
<1>1. DOMAIN cb' = DOMAIN cb /\ cb'[l] = o /\ \A m \in DOMAIN cb : m # l => cb'[m] = cb[m]
  OBVIOUS
<1>2. l # ReadyFail
  BY DEF Untouched, ReadyPair
<1> QED
  BY <1>1, <1>2 DEF ReadyListsOK, Untouched, IsFired, ReadyPair

\* There are more lists, none of them fired or disabled.
LEMMA MoreReady ==
  ASSUME Untouched(cb), DOMAIN cb \subseteq DOMAIN cb', \A l \in DOMAIN cb : cb'[l] = cb[l],
         \A l \in ReadyPair : l \in DOMAIN cb' \ DOMAIN cb => ~cb'[l].fired /\ cb'[l].list = FirstCallbacks(l[1], l[2])
  PROVE  ReadyListsOK
<1>1. FirstCallbacks(ReadyList, "done") \in Seq(ReadyCallbacks)
  BY DEF FirstCallbacks, ReadyCallbacks, ToSet
<1>2. ReadyDone[1] = ReadyList /\ ReadyDone[2] = "done"
  BY DEF ReadyDone
<1> QED
  BY <1>1, <1>2 DEF ReadyListsOK, Untouched, IsFired, ReadyPair

-----------------------------------------------------------------------------
LEMMA FiredReady ==
  ASSUME Inv, Untouched(cb), NEW l \in DOMAIN cb, l # ReadyFail, NEW v, NEW s, Stack(s), FireThen(l, v, s)
  PROVE  ReadyListsOK /\ (l = ReadyDone => IsFired(cb'))
<1>1. CASE l \notin ReadyPair
  BY <1>1, OtherList, ReadyLists DEF FireThen, ReadyPair
<1>2. CASE l = ReadyDone /\ ~Fires(cb[l])
  <2>1. FiredWith(cb[l], v) = cb[l]
    BY <1>2 DEF FiredWith
  <2>2. cb' = [cb EXCEPT ![l] = cb[l]]
    BY <2>1 DEF FireThen
  <2>3. cb[l].fired
    BY <1>2, ReadyLists DEF Fires, Untouched
  <2>4. ReadyListsOK
    BY <2>2, SameList
  <2> QED
    BY <1>2, <2>3, <2>4 DEF ReadyListsOK, IsFired
<1>3. CASE l = ReadyDone /\ Fires(cb[l])
  <2>1. PICK o : o = cb[l]
    OBVIOUS
  <2>2. ListOK(l, o, DOMAIN cb) /\ SettlingOK(l, o)
    BY <1>3, <2>1, ReadyLists DEF Inv, ListsOK, ReadyPair
  <2>3. ~o.fired /\ ~o.firing /\ Enabled(o) /\ HasFirstThree(l, o.list) /\ Fields(o) /\ o.firingStart = 0
    BY <1>3, <2>1, <2>2 DEF Fires, SettlingOK, ListOK, ListShape
  <2>4. PICK b : b = BeginFire(o, v)
    OBVIOUS
  <2>5. b.list = o.list /\ b.fired /\ b.firingIndex = 0 /\ b.firingLength = Len(o.list)
    BY <2>3, <2>4, Begun
  <2>6. cb' = [cb EXCEPT ![l] = b] /\ run' = Append(s, FireFrame(l, v))
    BY <1>3, <2>1, <2>3, <2>4 DEF FireThen, FiredWith, Waits
  <2>7. cb'[l] = b /\ DOMAIN cb' = DOMAIN cb /\ \A m \in DOMAIN cb : m # l => cb'[m] = cb[m]
    BY <2>6
  <2>8. /\ run' # <<>> /\ run'[Len(run')] = FireFrame(l, v)
    BY <2>6, StackPush
  <2>9. Len(o.list) >= 3 /\ o.list[1] = SetState(ReadyList, "done") /\ Len(o.list) \in Nat
    <3>1. Stack(o.list) /\ Len(o.list) >= 3 /\ o.list[1] = FirstCallbacks(l[1], l[2])[1]
      BY <2>2, <2>3 DEF HasFirstThree, ListOK
    <3> QED
      BY <1>3, <3>1, StackLen DEF FirstCallbacks, ReadyDone
  <2>10. Starting(cb', run')
    BY <1>3, <2>3, <2>5, <2>7, <2>8, <2>9 DEF Starting, LoopAt, FireFrame, InLoop, Enabled, SetState
  <2>11. IsFired(cb') /\ Untouched(cb') /\ ~IsFired(cb)
    BY <1>3, <2>1, <2>3, <2>5, <2>7, ReadyLists DEF IsFired, Untouched
  <2> QED
    BY <2>10, <2>11 DEF ReadyListsOK
<1> QED
  BY <1>1, <1>2, <1>3 DEF ReadyPair

LEMMA AddedReady ==
  ASSUME Inv, Untouched(cb), NEW l \in DOMAIN cb, NEW x, Addable(x, DOMAIN cb), NEW s, AddThen(l, x, s),
         l = ReadyDone => x \in ReadyCallbacks
  PROVE  ReadyListsOK
<1>1. CASE l \notin ReadyPair
  BY <1>1, OtherList DEF AddThen
<1>2. CASE l \in ReadyPair
  <2>1. PICK o, q : o = cb[l] /\ q = Added(o, x)
    OBVIOUS
  <2>2. cb' = [cb EXCEPT ![l] = q]
    BY <2>1 DEF AddThen
  <2>3. ListOK(l, o, DOMAIN cb) /\ SettlingOK(l, o) /\ l \in SettlingList
    BY <1>2, <2>1, ReadyLists DEF Inv, ListsOK
  <2>4. q.fired = o.fired
    BY <2>1, <2>3, AddedOK
  <2>5. CASE o.fired
    BY <1>2, <2>1, <2>2, <2>4, <2>5, FiredList
  <2>6. CASE l = ReadyFail
    <3>1. DOMAIN cb' = DOMAIN cb /\ cb'[l] = q /\ \A m \in DOMAIN cb : m # l => cb'[m] = cb[m]
      BY <2>2
    <3> QED
      BY <2>1, <2>4, <2>6, <3>1, ReadyLists DEF ReadyListsOK, Untouched, IsFired
  <2>7. CASE l = ReadyDone /\ ~o.fired
    <3>1. o.list \in Seq(ReadyCallbacks) /\ ~o.firing /\ o.memory = Nothing
      BY <2>1, <2>3, <2>7 DEF Untouched, SettlingOK
    <3>2. PICK op, ls, st, me, fd, fg, fi, fl, to, em :
            o = [options |-> op, list |-> ls, stack |-> st, memory |-> me, fired |-> fd, firing |-> fg,
                 firingStart |-> 0, firingIndex |-> fi, firingLength |-> fl, told |-> to, emptied |-> em]
      BY <2>3, ListFields DEF ListOK
    <3>3. q = Push(o, x) /\ o.list = ls
      BY <2>1, <3>1, <3>2, ReadyLists DEF Added, Refires
    <3>4. q = o \/ q = [o EXCEPT !.list = Append(ls, x)]
      BY <3>2, <3>3 DEF Push
    <3>5. q.list = ls \/ q.list = Append(ls, x)
      BY <3>2, <3>4
    <3>6. q.list \in Seq(ReadyCallbacks)
      BY SMTT(30), <2>7, <3>1, <3>3, <3>5
    <3>7. DOMAIN cb' = DOMAIN cb /\ cb'[l] = q /\ \A m \in DOMAIN cb : m # l => cb'[m] = cb[m]
      BY <2>2
    <3> QED
      BY <2>1, <2>4, <2>7, <3>6, <3>7, ReadyLists DEF ReadyListsOK, Untouched, IsFired
  <2> QED
    BY <1>2, <2>5, <2>6, <2>7 DEF ReadyPair
<1> QED
  BY <1>1, <1>2

-----------------------------------------------------------------------------
\* A field of a list is set that has to do with neither.
LEMMA SetField ==
  ASSUME NEW o, ListShape(o), NEW x,
         NEW q, \/ q = [o EXCEPT !.memory = x]
                \/ q = [o EXCEPT !.firingIndex = x]
                \/ q = [o EXCEPT !.told = x]
  PROVE  q.fired = o.fired /\ q.list = o.list
BY ListFields

LEMMA FieldReady ==
  ASSUME Inv, Untouched(cb), NEW l \in DOMAIN cb, NEW q, cb' = [cb EXCEPT ![l] = q],
         q.fired = cb[l].fired /\ q.list = cb[l].list
  PROVE  ReadyListsOK
BY SameList

LEMMA FireOther ==
  ASSUME Untouched(cb), NEW l, l \notin ReadyPair, NEW v, NEW s, FireThen(l, v, s)
  PROVE  ReadyListsOK
BY OtherList DEF FireThen

LEMMA AddOther ==
  ASSUME Untouched(cb), NEW l, l \notin ReadyPair, NEW x, NEW s, AddThen(l, x, s)
  PROVE  ReadyListsOK
BY OtherList DEF AddThen

LEMMA SameReady ==
  ASSUME Untouched(cb), UNCHANGED cb
  PROVE  ReadyListsOK
BY OtherLists

LEMMA ListStepReady ==
  ASSUME Inv, Untouched(cb), ListStep
  PROVE  ReadyListsOK
<1>1. CASE ReturnFalse
  <2>1. /\ TopIs("fn") /\ Top.l \in ListId /\ cb' = [cb EXCEPT ![Top.l].memory = Nothing]
    BY <1>1 DEF ReturnFalse
  <2>2. CASE Top.l \in DOMAIN cb
    <3>1. PICK o, q : o = cb[Top.l] /\ q = [o EXCEPT !.memory = Nothing]
      OBVIOUS
    <3>2. ListShape(o)
      BY <2>2, <3>1 DEF Inv, ListsOK, ListOK
    <3>3. PICK l \in DOMAIN cb : l = Top.l /\ cb' = [cb EXCEPT ![l] = q]
      BY <2>1, <2>2, <3>1
    <3>4. q.fired = o.fired /\ q.list = o.list
      BY <3>1, <3>2, SetField
    <3> QED
      BY <3>1, <3>3, <3>4, FieldReady
  <2>3. CASE Top.l \notin DOMAIN cb
    <3>1. DOMAIN cb' = DOMAIN cb /\ \A m \in DOMAIN cb : cb'[m] = cb[m]
      BY <2>1, <2>3
    <3> QED
      BY <3>1, OtherLists
  <2> QED
    BY <2>2, <2>3
<1>2. CASE Return \/ Throw
  BY <1>2, SameReady DEF Return, Throw
<1>3. ASSUME TopIs("fire")
      PROVE  /\ Top.l \in DOMAIN cb /\ ListShape(cb[Top.l])
             /\ Top.l \in ReadyPair => cb[Top.l].fired
  <2>1. Len(run) \in Nat \ {0} /\ IsFire(Top, DOMAIN cb)
    BY <1>3, RestsCalling DEF Inv
  <2>2. Len(run) \in 1..Len(run) /\ Top = run[Len(run)]
    BY <2>1 DEF Top
  <2>3. Top.f = "fire" /\ Top.l \in DOMAIN cb
    BY <2>1 DEF IsFire
  <2>4. Top.l \in SettlingList => cb[Top.l].fired
    BY <2>2, <2>3 DEF Inv, StackOK, ToldRight
  <2> QED
    BY <2>3, <2>4, ReadyLists DEF Inv, ListsOK, ListOK
<1>4. CASE NextInLoop
  <2>1. TopIs("fire") /\ cb' = [cb EXCEPT ![Top.l].firingIndex = @ + 1]
    BY <1>4 DEF NextInLoop
  <2>2. PICK o, x, q : o = cb[Top.l] /\ x = o.firingIndex + 1 /\ q = [o EXCEPT !.firingIndex = x]
    OBVIOUS
  <2>3. PICK l \in DOMAIN cb : l = Top.l /\ cb' = [cb EXCEPT ![l] = q]
    BY <1>3, <2>1, <2>2
  <2>4. q.fired = o.fired /\ q.list = o.list
    <3>1. ListShape(o)
      BY <1>3, <2>1, <2>2
    <3> QED
      BY <2>2, <3>1, SetField
  <2> QED
    BY <2>2, <2>3, <2>4, FieldReady
<1>5. CASE EndLoop
  <2>1. TopIs("fire") /\ cb' = [cb EXCEPT ![Top.l] = LoopOver(@)]
    BY <1>5 DEF EndLoop
  <2>2. PICK o, q : o = cb[Top.l] /\ q = LoopOver(o)
    OBVIOUS
  <2>3. cb' = [cb EXCEPT ![Top.l] = q]
    BY <1>3, <2>1, <2>2
  <2>4. CASE Top.l \notin ReadyPair
    BY <2>3, <2>4, OtherList
  <2>5. CASE Top.l \in ReadyPair
    <3>1. o.stack = Nothing /\ o.fired
      BY <1>3, <2>1, <2>2, <2>5, ReadyLists DEF Inv, ListsOK, SettlingOK
    <3>2. PICK op, ls, st, me, fd, fg, fi, fl, to, em :
            o = [options |-> op, list |-> ls, stack |-> st, memory |-> me, fired |-> fd, firing |-> fg,
                 firingStart |-> 0, firingIndex |-> fi, firingLength |-> fl, told |-> to, emptied |-> em]
      <4>1. ListShape(o)
        BY <1>3, <2>1, <2>2
      <4> QED
        BY <4>1, ListFields
    <3>3. PICK p : p = [o EXCEPT !.firing = FALSE]
      OBVIOUS
    <3>4. p = [options |-> op, list |-> ls, stack |-> st, memory |-> me, fired |-> fd, firing |-> FALSE,
               firingStart |-> 0, firingIndex |-> fi, firingLength |-> fl, told |-> to, emptied |-> em]
      BY <3>2, <3>3
    <3>5. \/ q = p \/ q = [p EXCEPT !.list = <<>>]
          \/ q = [p EXCEPT !.list = Nothing, !.stack = Nothing, !.memory = Nothing]
      BY <2>2, <3>1, <3>3 DEF LoopOver, Disabled
    <3>6. q.fired = fd /\ fd
      <4>1. fd
        BY <3>1, <3>2
      <4>2. CASE q = p
        BY <3>4, <4>1, <4>2
      <4>3. CASE q = [p EXCEPT !.list = <<>>]
        BY <3>4, <4>1, <4>3
      <4>4. CASE q = [p EXCEPT !.list = Nothing, !.stack = Nothing, !.memory = Nothing]
        BY <3>4, <4>1, <4>4
      <4> QED
        BY <3>5, <4>2, <4>3, <4>4
    <3> QED
      BY <1>3, <2>1, <2>2, <2>3, <3>1, <3>6, FiredList
  <2> QED
    BY <2>4, <2>5
<1>6. CASE ListCalls(OwnList)
  <2>1. ASSUME NEW o, Change(OwnList, o) PROVE ReadyListsOK
    BY <2>1, OtherList, ReadyLists DEF Change
  <2> QED
    BY <1>6, <2>1, FireOther, AddOther, ReadyLists DEF ListCalls, Add, Fire, RemoveFn, Empty, Disable, Lock
<1> QED
  BY <1>1, <1>2, <1>4, <1>5, <1>6 DEF ListStep

LEMMA ForeignList ==
  ASSUME NEW l, Ref(l, DOMAIN cb)
  PROVE  l \notin ReadyPair
BY DEF Ref, Free, ReadyPair, ReadyDone, ReadyFail

LEMMA DeferredStepsReady ==
  ASSUME Inv, Untouched(cb), DeferredSteps
  PROVE  ReadyListsOK
<1>1. CASE CallState \/ CallThen \/ ReturnPromise \/ DoLeave
  BY <1>1, SameReady DEF CallState, CallThen, ReturnPromise, DoLeave
<1>2. CASE CallDisable
  <2>1. Calling("disable") /\ cb' = [cb EXCEPT ![Callback.l] = Disabled(@)]
    BY <1>2 DEF CallDisable
  <2>2. PICK k : k = "disable"
    OBVIOUS
  <2>3. PICK d \in DefId, a \in Settling :
          Top.l = <<d, a>> /\ Made(d) /\ cb[Top.l].fired /\ Callback = DisableList(<<d, Other(a)>>)
    BY <2>1, <2>2, FirstCallback
  <2>4. PICK l : l = <<d, Other(a)>> /\ Callback.l = l
    BY <2>3 DEF DisableList
  <2>5. Top.l \in DOMAIN cb
    BY <2>1, <2>2, CallbackOK
  <2>6. l # ReadyDone
    BY <2>3, <2>4, <2>5 DEF Untouched, ReadyDone, ReadyFail, Other, Settling
  <2>7. CASE l # ReadyFail
    <3>1. l \notin ReadyPair /\ cb' = [cb EXCEPT ![l] = Disabled(cb[l])]
      BY <2>1, <2>4, <2>6, <2>7 DEF ReadyPair
    <3> QED
      BY <3>1, OtherList
  <2>8. CASE l = ReadyFail /\ l \in DOMAIN cb
    <3>1. PICK o, q : o = cb[l] /\ q = Disabled(o)
      OBVIOUS
    <3>2. ListShape(o)
      BY <2>8, <3>1 DEF Inv, ListsOK, ListOK
    <3>3. q.fired = o.fired
      BY <3>1, <3>2, ListFields DEF Disabled
    <3>4. DOMAIN cb' = DOMAIN cb /\ cb'[l] = q /\ \A m \in DOMAIN cb : m # l => cb'[m] = cb[m]
      BY <2>1, <2>4, <2>8, <3>1
    <3> QED
      BY <2>6, <2>8, <3>1, <3>3, <3>4 DEF ReadyListsOK, Untouched, IsFired
  <2>9. CASE l \notin DOMAIN cb
    <3>1. DOMAIN cb' = DOMAIN cb /\ \A m \in DOMAIN cb : cb'[m] = cb[m]
      BY <2>1, <2>4, <2>9
    <3> QED
      BY <3>1, OtherLists
  <2> QED
    BY <2>7, <2>8, <2>9
<1>3. CASE CallLock
  <2>1. Calling("lock") /\ cb' = [cb EXCEPT ![Callback.l] = Locked(@)]
    BY <1>3 DEF CallLock
  <2>2. PICK k : k = "lock"
    OBVIOUS
  <2>3. PICK d \in DefId : Callback = LockList(<<d, "progress">>)
    BY <2>1, <2>2, FirstCallback
  <2>4. PICK l : l = <<d, "progress">> /\ Callback.l = l
    BY <2>3 DEF LockList
  <2>5. l \notin ReadyPair /\ cb' = [cb EXCEPT ![l] = Locked(cb[l])]
    BY <2>1, <2>4, ReadyLists
  <2> QED
    BY <2>5, OtherList
<1>4. ASSUME NEW k \in {"settle", "then", "update"}, Calling(k) PROVE Addable(Callback, DOMAIN cb) /\ Callback.k = k
  <2>1. Callback.k = k /\ (Addable(Callback, DOMAIN cb) \/ OneOfFirst(Top.l, cb[Top.l].firingIndex + 1, Callback))
    BY <1>4, CallbackOK
  <2>2. ASSUME NEW i, OneOfFirst(Top.l, i, Callback) PROVE Callback.k \in {"state", "disable", "lock"}
    BY <2>2 DEF OneOfFirst, FirstCallbacks, SetState, DisableList, LockList
  <2> QED
    BY <2>1, <2>2
<1>5. CASE CallSettle
  <2>1. PICK k \in {"settle", "then"} : Calling(k) /\ FireThen(Callback.l, Top.v, Goto("calling"))
    BY <1>5 DEF CallSettle
  <2>2. Ref(Callback.l, DOMAIN cb)
    BY <1>4, <2>1 DEF Addable
  <2> QED
    BY <2>1, <2>2, ForeignList, FireOther
<1>6. CASE CallUpdate
  <2>1. Calling("update") /\ (UNCHANGED cb \/ \E a : \E v : FireThen(<<Callback.m, a>>, v, Goto("calling")))
    BY <1>6 DEF CallUpdate
  <2>2. PICK k \in {"settle", "then", "update"} : k = "update"
    OBVIOUS
  <2>3. Callback.m # ReadyList
    BY <1>4, <2>1, <2>2 DEF Addable, Free
  <2>4. \A a : <<Callback.m, a>> \notin ReadyPair
    BY <2>3 DEF ReadyPair, ReadyDone, ReadyFail
  <2> QED
    BY <2>1, <2>4, SameReady, FireOther
<1>7. CASE CallPage
  <2>1. Calling("fn") /\ cb' = [cb EXCEPT ![Top.l].told = @ \union {Callback}]
    BY <1>7 DEF CallPage, CallFn
  <2>2. PICK k : k = "fn"
    OBVIOUS
  <2>3. Top.l \in DOMAIN cb
    BY <2>1, <2>2, CallbackOK
  <2>4. PICK o, x, q : o = cb[Top.l] /\ x = o.told \union {Callback} /\ q = [o EXCEPT !.told = x]
    OBVIOUS
  <2>5. ListShape(o)
    BY <2>3, <2>4 DEF Inv, ListsOK, ListOK
  <2>6. PICK l \in DOMAIN cb : l = Top.l /\ cb' = [cb EXCEPT ![l] = q]
    BY <2>1, <2>3, <2>4
  <2>7. q.fired = o.fired /\ q.list = o.list
    BY <2>4, <2>5, SetField
  <2> QED
    BY <2>4, <2>6, <2>7, FieldReady
<1>8. CASE ReturnValue
  <2>1. PICK v : TopIs("fn") /\ Top.to # Nothing /\ FireThen(Top.to, v, Below)
    BY <1>8 DEF ReturnValue
  <2>2. Ref(Top.to, DOMAIN cb)
    BY <2>1, ReturnTo
  <2> QED
    BY <2>1, <2>2, ForeignList, FireOther
<1>9. ASSUME NEW op, CallIs(op) PROVE CallOK(Call, DOMAIN cb) /\ Call.op = op /\ Stack(AfterCall)
  <2>1. CallOK(Call, DOMAIN cb) /\ Call.op = op /\ Rests(AfterCall, DOMAIN cb)
    BY <1>9, RestsAfter
  <2> QED
    BY <2>1 DEF Rests, Frames
<1>10. CASE DoAdd
  <2>1. CallIs("add") /\ AddThen(Call.l, Call.c, AfterCall)
    BY <1>10 DEF DoAdd
  <2>2. CallOK(Call, DOMAIN cb) /\ Call.op = "add"
    BY <1>9, <2>1
  <2>3. /\ Call.l \in DOMAIN cb /\ Addable(Call.c, DOMAIN cb)
        /\ Call.l = ReadyDone => Call.c \in ReadyCallbacks
    BY <2>2 DEF CallOK, ReadyDone, ReadyCallbacks
  <2> QED
    BY <2>1, <2>3, AddedReady
<1>11. CASE DoFire
  <2>1. CallIs("fire") /\ FireThen(Call.l, Call.v, AfterCall)
    BY <1>11 DEF DoFire
  <2>2. CallOK(Call, DOMAIN cb) /\ Call.op = "fire" /\ Stack(AfterCall)
    BY <1>9, <2>1
  <2>3. Call.l \in DOMAIN cb /\ Call.l # ReadyFail
    BY <2>2 DEF CallOK, ReadyFail
  <2> QED
    BY <2>1, <2>2, <2>3, FiredReady
<1>12. CASE DoWaitless
  <2>1. CallIs("waitless") /\ (UNCHANGED cb \/ \E v : FireThen(<<Call.m, "done">>, v, AfterCall))
    BY <1>12 DEF DoWaitless
  <2>2. CallOK(Call, DOMAIN cb) /\ Call.op = "waitless"
    BY <1>9, <2>1
  <2>3. <<Call.m, "done">> \notin ReadyPair
    BY <2>2 DEF CallOK, Free, ReadyPair, ReadyDone, ReadyFail
  <2> QED
    BY <2>1, <2>3, SameReady, FireOther
<1> QED
  BY <1>1, <1>2, <1>3, <1>5, <1>6, <1>7, <1>8, <1>10, <1>11, <1>12 DEF DeferredSteps

LEMMA OthersNew ==
  ASSUME Untouched(cb), NEW f, cb' = Joined(cb, f), \A l \in DOMAIN f : l \notin ReadyPair
  PROVE  ReadyListsOK
<1>1. DOMAIN cb' = DOMAIN cb \union DOMAIN f /\ \A l \in DOMAIN cb : cb'[l] = cb[l]
  BY DEF Joined
<1> QED
  BY <1>1, MoreReady

LEMMA NewOfPage ==
  ASSUME Untouched(cb), NEW d, d # ReadyList, WithNew(d)
  PROVE  ReadyListsOK
<1>1. PICK f : f = NewLists(d)
  OBVIOUS
<1>2. cb' = Joined(cb, f) /\ \A l \in DOMAIN f : l \notin ReadyPair
  BY <1>1 DEF WithNew, NewLists, ReadyPair, ReadyDone, ReadyFail
<1> QED
  BY <1>2, OthersNew

LEMMA OthersReady ==
  ASSUME Inv, Untouched(cb), DeferredStep \/ AjaxStep \/ ListStep
  PROVE  ReadyListsOK
<1>1. CASE DeferredCalls
  <2>1. ASSUME NEW d \in PageDef PROVE d # ReadyList /\ \A a : <<d, a>> \notin ReadyPair
    BY ReadyAssumption DEF ReadyPair, ReadyDone, ReadyFail
  <2>2. PICK d \in PageDef :
          \/ \E n \in PageDef : WithNew(n)
          \/ \E a, v : FireThen(<<d, a>>, v, run)
          \/ \E a, fn : AddThen(<<d, a>>, OfPage(fn), run)
    BY Zenon, <1>1 DEF DeferredCalls, MakeDeferred, Settle, Listen, Then, When
  <2> QED
    BY <2>1, <2>2, NewOfPage, FireOther, AddOther
<1>2. CASE AjaxSteps \/ \E q \in ReqId : Answer(q) \/ Timeout(q)
  BY Zenon, <1>2, SameReady DEF AjaxSteps, DoInactive, DoTrigger, DoGlobals, DoBeforeSend, DoInstall, DoTransport,
     DoSend, Answer, Timeout
<1>3. CASE AjaxCalls
  <2>1. ASSUME NEW q \in ReqId, NEW x \in Settings, Ajax(q, x) PROVE ReadyListsOK
    <3>1. PICK f : f = RequestLists(q)
      OBVIOUS
    <3>2. cb' = Joined(cb, f)
      BY <2>1, <3>1 DEF Ajax
    <3>3. \A l \in DOMAIN f : l \notin ReadyPair
      BY <3>1, ReadyAssumption DEF RequestLists, ReadyPair, ReadyDone, ReadyFail
    <3> QED
      BY <3>2, <3>3, OthersNew
  <2>2. CASE UNCHANGED cb
    BY <2>2, SameReady
  <2> QED
    BY <1>3, <2>1, <2>2 DEF AjaxCalls, AbortRequest, StatusCode, ListenTo
<1> QED
  BY <1>1, <1>2, <1>3, ListStepReady, DeferredStepsReady DEF DeferredStep, AjaxStep

-----------------------------------------------------------------------------
(***************************************************************************)
(* The state, and what must be done next.                                  *)
(***************************************************************************)

\* The fire of ready's list is the next call.
Queued(r) ==
  r # <<>> /\ r[Len(r)].f = "todo" /\ Head(r[Len(r)].todo) = FireCall(ReadyDone, "ready")

LEMMA StateReady ==
  ASSUME Inv, Untouched(cb),
         ListStep \/ DeferredStep \/ AjaxStep \/ ReadySteps \/ Hold \/ Release \/ Load \/ Timer
  PROVE  /\ Made(ReadyList)' <=> Made(ReadyList)
         /\ state[ReadyList] = "resolved" => state'[ReadyList] = "resolved"
<1> DEFINE Same == /\ Made(ReadyList)' <=> Made(ReadyList)
                   /\ state[ReadyList] = "resolved" => state'[ReadyList] = "resolved"
<1>1. state'[ReadyList] = state[ReadyList] => Same
  BY DEF Made
<1>2. CASE CallState
  <2>1. Calling("state") /\ state' = [state EXCEPT ![Callback.d] = Callback.s]
    BY <1>2 DEF CallState
  <2>2. PICK k : k = "state"
    OBVIOUS
  <2>3. PICK d \in DefId, a \in Settling :
          Top.l = <<d, a>> /\ Made(d) /\ cb[Top.l].fired /\ Callback = SetState(d, a)
    BY <2>1, <2>2, FirstCallback
  <2>4. Top.l \in DOMAIN cb
    BY <2>1, <2>2, CallbackOK
  <2>5. Callback.d = d /\ Callback.s = StateOf(a)
    BY <2>3 DEF SetState
  <2>6. CASE d = ReadyList
    <3>1. a = "done"
      BY <2>3, <2>4, <2>6 DEF Untouched, ReadyFail, Settling
    <3>2. state'[ReadyList] = "resolved"
      BY <2>1, <2>5, <2>6, <3>1, ReadyAssumption DEF StateOf, Inv, PageOK
    <3> QED
      BY <2>3, <2>6, <3>2 DEF Made
  <2>7. CASE d # ReadyList
    BY <1>1, <2>1, <2>5, <2>7
  <2> QED
    BY <2>6, <2>7
<1>3. ASSUME NEW d, d # ReadyList, WithNew(d) PROVE Same
  BY <1>1, <1>3 DEF WithNew
<1>4. CASE DeferredSteps /\ ~CallState
  BY <1>1, <1>4 DEF DeferredSteps, CallDisable, CallLock, CallSettle, CallThen, CallUpdate, CallPage,
     ReturnValue, ReturnPromise, DoAdd, DoFire, DoLeave, DoWaitless
<1>5. CASE DeferredCalls
  <2>1. UNCHANGED state \/ \E d \in PageDef : WithNew(d)
    BY <1>5 DEF DeferredCalls, MakeDeferred, Settle, Listen, Then, When
  <2> QED
    BY <1>1, <1>3, <2>1, ReadyAssumption
<1>6. CASE AjaxStep
  <2>1. UNCHANGED state \/ \E q \in ReqId : state' = [state EXCEPT ![q] = "pending"]
    BY Zenon, <1>6 DEF AjaxStep, AjaxSteps, AjaxCalls, DoInactive, DoTrigger, DoGlobals, DoBeforeSend, DoInstall,
       DoTransport, DoSend, Answer, Timeout, Ajax, AbortRequest, StatusCode, ListenTo
  <2>2. DOMAIN state = DefId /\ ReadyList \in DefId /\ ReadyList \notin ReqId
    BY ReadyAssumption DEF Inv, PageOK
  <2>3. state'[ReadyList] = state[ReadyList]
    BY <2>1, <2>2
  <2> QED
    BY <1>1, <2>3
<1>7. CASE ListStep \/ ReadySteps \/ Hold \/ Release \/ Load \/ Timer
  BY <1>1, <1>7 DEF ListStep, ReadySteps, DoReadyEvent, DoOff, Hold, Release, Load, Timer
<1> QED
  BY <1>2, <1>4, <1>5, <1>6, <1>7 DEF DeferredStep

\* Nothing but the loop on top goes on.
LEMMA OnlyTheLoop ==
  ASSUME Next, Starting(cb, run)
  PROVE  CallState
<1>1. Calling("state") /\ TopIs("fire") /\ Top.pc = "next" /\ InLoop(cb[Top.l])
  BY DEF Starting, LoopAt, Calling, TopIs, Top, Callback
<1>2. /\ ~TopIs("fn") /\ ~TopIs("todo") /\ ~PageRuns /\ run # <<>>
      /\ \A k : Calling(k) => k = "state"
      /\ \A k : ~CallIs(k) /\ ~Spend(k)
  BY <1>1 DEF TopIs, PageRuns, Calling, CallIs, Spend
<1>3. ~ListStep
  BY <1>1, <1>2 DEF ListStep, ReturnFalse, Return, NextInLoop, EndLoop, Throw, ListCalls, Add, Fire,
     RemoveFn, Empty, Disable, Lock, Change
<1>4. ~DeferredCalls
  BY <1>2 DEF DeferredCalls, MakeDeferred, Settle, Listen, Then, When
<1>5. ~AjaxStep
  BY <1>2 DEF AjaxStep, AjaxSteps, AjaxCalls, DoInactive, DoTrigger, DoGlobals, DoBeforeSend, DoInstall,
     DoTransport, DoSend, Answer, Timeout, Ajax, AbortRequest, StatusCode, ListenTo
<1>6. ~(ReadySteps \/ ReadyCalls \/ Load \/ Timer)
  BY <1>2 DEF ReadySteps, ReadyCalls, DoReadyEvent, DoOff, AskReady, Hold, Release, Load, Timer
<1>7. DeferredSteps
  BY <1>3, <1>4, <1>5, <1>6 DEF Next, DeferredStep
<1> QED
  BY <1>2, <1>7 DEF DeferredSteps, CallDisable, CallLock, CallSettle, CallThen, CallUpdate, CallPage, CallFn,
     ReturnValue, ReturnPromise, DoAdd, DoFire, DoLeave, DoWaitless

LEMMA OnlyTheFire ==
  ASSUME Next, Queued(run)
  PROVE  DoFire /\ Call = FireCall(ReadyDone, "ready")
<1>1. TopIs("todo") /\ Call = FireCall(ReadyDone, "ready") /\ CallIs("fire") /\ Call.op = "fire"
  BY DEF Queued, TopIs, Top, Call, CallIs, FireCall
<1>2. /\ ~TopIs("fn") /\ ~TopIs("fire") /\ ~PageRuns /\ run # <<>>
      /\ \A k : ~Calling(k) /\ ~Spend(k)
      /\ \A k : CallIs(k) => k = "fire"
  BY <1>1 DEF TopIs, PageRuns, Calling, CallIs, Spend, Call
<1>3. ~ListStep
  BY <1>2 DEF ListStep, ReturnFalse, Return, NextInLoop, EndLoop, Throw, ListCalls, Add, Fire,
     RemoveFn, Empty, Disable, Lock, Change
<1>4. ~DeferredCalls
  BY <1>2 DEF DeferredCalls, MakeDeferred, Settle, Listen, Then, When
<1>5. ~AjaxStep
  BY <1>2 DEF AjaxStep, AjaxSteps, AjaxCalls, DoInactive, DoTrigger, DoGlobals, DoBeforeSend, DoInstall,
     DoTransport, DoSend, Answer, Timeout, Ajax, AbortRequest, StatusCode, ListenTo
<1>6. ~(ReadySteps \/ ReadyCalls \/ Load \/ Timer)
  BY <1>2 DEF ReadySteps, ReadyCalls, DoReadyEvent, DoOff, AskReady, Hold, Release, Load, Timer
<1>7. DeferredSteps
  BY <1>3, <1>4, <1>5, <1>6 DEF Next, DeferredStep
<1> QED
  BY <1>1, <1>2, <1>7 DEF DeferredSteps, CallState, CallDisable, CallLock, CallSettle, CallThen, CallUpdate,
     CallPage, CallFn, ReturnValue, ReturnPromise, DoAdd, DoLeave, DoWaitless

-----------------------------------------------------------------------------
(***************************************************************************)
(* The counter.                                                            *)
(***************************************************************************)

CounterOK ==
  /\ held \in Int /\ readyWait \in Int /\ later \in Nat
  /\ isReady \in BOOLEAN /\ listening \in BOOLEAN /\ early \in BOOLEAN
  /\ dom \in {"head", "body", "interactive", "complete"}
  /\ isReady => dom # "head"
  /\ Made(ReadyList) /\ ~isReady => later > 0 \/ (listening /\ dom # "complete")
  /\ ~early => /\ held >= 0 /\ readyWait = held + (IF isReady THEN 0 ELSE 1)
               /\ listening \/ later > 0 \/ isReady => Made(ReadyList)

Resolved == IsFired(cb) => state[ReadyList] = "resolved" \/ Starting(cb, run)

\* Nobody holds a ready document: its list was fired, or is next.
ReadyDue == ~threw /\ ~early /\ isReady /\ held = 0 => IsFired(cb) \/ Queued(run)

ReadyInv == Untouched(cb) /\ Resolved /\ CounterOK /\ ReadyDue

\* A step that leaves the counter alone.
LEMMA CounterSame ==
  ASSUME CounterOK, UNCHANGED <<dom, isReady, readyWait, listening, later, held, early>>,
         Made(ReadyList)' <=> Made(ReadyList)
  PROVE  CounterOK'
BY DEF CounterOK

LEMMA QueuedByResolve ==
  ASSUME Inv, Resolve(run), Made(ReadyList)
  PROVE  Queued(run') /\ threw' = threw
<1>1. PICK c, s : c = FireCall(ReadyDone, "ready") /\ s = <<c, EventCall>>
  OBVIOUS
<1>2. run' = run \o Todo(s) /\ threw' = threw
  BY <1>1 DEF Resolve, ReadyDone
<1>3. PICK t : t = [f |-> "todo", todo |-> s]
  OBVIOUS
<1>4. Todo(s) = <<t>>
  BY <1>1, <1>3 DEF Todo
<1>5. Stack(run)
  BY DEF Inv, StackOK, Frames
<1>6. run' # <<>> /\ run'[Len(run')] = t
  <2>1. run' = run \o <<t>>
    BY <1>2, <1>4
  <2>2. Len(run) \in Nat /\ Stack(<<t>>) /\ Len(<<t>>) = 1 /\ <<t>>[1] = t
    BY <1>5, StackLen, StackOne
  <2>3. PICK n : n = Len(run)
    OBVIOUS
  <2>5. PICK u : u = <<t>> /\ Stack(u) /\ Len(u) = 1 /\ u[1] = t /\ run' = run \o u
    BY <2>1, <2>2
  <2>6. \A i \in 1..Len(u) : (run \o u)[Len(run) + i] = u[i]
    BY <1>5, <2>5, StackConcat
  <2>4. Len(run') = n + 1 /\ run'[n + 1] = t /\ Stack(run')
    <3>1. Len(run') = n + 1 /\ Stack(run')
      BY <1>5, <2>3, <2>5, StackConcat
    <3>2. 1 \in 1..Len(u)
      BY <2>5
    <3> QED
      BY <2>3, <2>5, <2>6, <3>1, <3>2
  <2> QED
    BY <2>2, <2>3, <2>4, StackLen
<1>7. Head(s) = c
  BY <1>1
<1>8. run'[Len(run')].f = "todo" /\ run'[Len(run')].todo = s
  BY <1>3, <1>6
<1> QED
  BY <1>1, <1>2, <1>6, <1>7, <1>8 DEF Queued

-----------------------------------------------------------------------------
\* The lists and the state, whatever the step.
LEMMA ResolvedStays ==
  ASSUME Inv, ReadyInv, Next, ReadyListsOK,
         Made(ReadyList)' <=> Made(ReadyList), state[ReadyList] = "resolved" => state'[ReadyList] = "resolved"
  PROVE  Untouched(cb') /\ Resolved' /\ (IsFired(cb) \/ Queued(run) => IsFired(cb'))
<1>1. Untouched(cb') /\ (IsFired(cb) => IsFired(cb'))
  BY DEF ReadyListsOK
<1>2. Resolved'
  <2>1. CASE ~IsFired(cb)
    BY <2>1 DEF ReadyListsOK, Resolved
  <2>2. CASE state[ReadyList] = "resolved"
    BY <2>2 DEF Resolved
  <2>3. CASE Starting(cb, run)
    <3>1. CallState
      BY <2>3, OnlyTheLoop
    <3>2. Calling("state") /\ state' = [state EXCEPT ![Callback.d] = Callback.s]
      BY <3>1 DEF CallState
    <3>3. PICK k : k = "state"
      OBVIOUS
    <3>4. PICK d \in DefId, a \in Settling : Top.l = <<d, a>> /\ Callback = SetState(d, a)
      BY <3>2, <3>3, FirstCallback
    <3>5. Top.l = ReadyDone
      BY <2>3 DEF Starting, LoopAt, Top
    <3>6. d = ReadyList /\ a = "done"
      BY <3>4, <3>5 DEF ReadyDone
    <3>7. Callback.d = ReadyList /\ Callback.s = "resolved"
      BY <3>4, <3>6 DEF SetState, StateOf
    <3>8. state'[ReadyList] = "resolved"
      BY <3>2, <3>7, ReadyAssumption DEF Inv, PageOK
    <3> QED
      BY <3>8 DEF Resolved
  <2> QED
    BY <2>1, <2>2, <2>3 DEF ReadyInv, Resolved
<1>3. ASSUME Queued(run) PROVE IsFired(cb')
  <2>1. DoFire /\ Call = FireCall(ReadyDone, "ready")
    BY <1>3, OnlyTheFire
  <2>2. CallIs("fire") /\ FireThen(Call.l, Call.v, AfterCall)
    BY <2>1 DEF DoFire
  <2>3. PICK op : op = "fire" /\ CallIs(op)
    BY <2>2
  <2>4. CallOK(Call, DOMAIN cb) /\ Call.op = "fire" /\ Rests(AfterCall, DOMAIN cb)
    BY <2>3, RestsAfter
  <2>5. Call.l = ReadyDone /\ Call.l \in DOMAIN cb /\ Stack(AfterCall)
    BY <2>1, <2>4 DEF CallOK, FireCall, Rests, Frames
  <2> QED
    BY <2>2, <2>5, FiredReady, ReadyLists DEF ReadyInv
<1> QED
  BY <1>1, <1>2, <1>3

LEMMA Quietly ==
  ASSUME Inv, ReadyInv, Next, ListStep \/ DeferredStep \/ AjaxStep \/ ReadySteps
  PROVE  ReadyInv'
<1>1. ReadyListsOK
  BY OthersReady, SameReady DEF ReadyInv, ReadySteps, DoReadyEvent, DoOff
<1>2. /\ Made(ReadyList)' <=> Made(ReadyList)
      /\ state[ReadyList] = "resolved" => state'[ReadyList] = "resolved"
  BY StateReady DEF ReadyInv
<1>3. Untouched(cb') /\ Resolved' /\ (IsFired(cb) \/ Queued(run) => IsFired(cb'))
  BY <1>1, <1>2, ResolvedStays
<1>4. UNCHANGED <<dom, isReady, readyWait, listening, later, held, early>>
  BY DEF ListStep, DeferredStep, AjaxStep, ReadySteps, DoReadyEvent, DoOff, readyVars
<1>5. CounterOK'
  BY <1>2, <1>4, CounterSame DEF ReadyInv
<1>6. threw => threw'
  BY Zenon DEF ListStep, ReturnFalse, Return, NextInLoop, EndLoop, Throw, ListCalls, Add, Fire, RemoveFn, Empty,
     Disable, Lock, Change, Spend, DeferredStep, DeferredSteps, CallState, CallDisable, CallLock, CallSettle,
     CallThen, CallUpdate, CallPage, CallFn, ReturnValue, ReturnPromise, DoAdd, DoFire, DoLeave, DoWaitless,
     DeferredCalls, MakeDeferred, Settle, Listen, Then, When, AjaxStep, AjaxSteps, AjaxCalls, DoInactive,
     DoTrigger, DoGlobals, DoBeforeSend, DoInstall, DoTransport, DoSend, Answer, Timeout, Ajax, AbortRequest,
     StatusCode, ListenTo, ReadySteps, DoReadyEvent, DoOff
<1>7. ReadyDue'
  BY <1>3, <1>4, <1>6 DEF ReadyInv, ReadyDue
<1> QED
  BY <1>3, <1>5, <1>7 DEF ReadyInv

\* ready(), from the document or a timer: if nobody holds it, this resolves.
LEMMA NowReady ==
  ASSUME Inv, ReadyInv, run = <<>>, ReadyNow, UNCHANGED <<cb, state, held, early>>,
         listening \/ later > 0 \/ isReady
  PROVE  /\ isReady' = TRUE /\ ReadyDue'
         /\ ~early => readyWait' = held /\ Made(ReadyList)
         /\ readyWait' \in Int
<1>1. ~early => Made(ReadyList) /\ held >= 0 /\ readyWait = held + (IF isReady THEN 0 ELSE 1)
  BY DEF ReadyInv, CounterOK
<1>2. ~Queued(run)
  BY DEF Queued
<1>3. held \in Int /\ readyWait \in Int /\ isReady \in BOOLEAN /\ early \in BOOLEAN
  BY DEF ReadyInv, CounterOK
<1>4. CASE isReady /\ UNCHANGED <<isReady, readyWait, run, threw>>
  <2>1. ReadyDue'
    BY <1>2, <1>4 DEF ReadyInv, ReadyDue, IsFired
  <2> QED
    BY <1>1, <1>3, <1>4, <2>1
<1>5. CASE ~isReady /\ isReady' = TRUE /\ readyWait' = readyWait - 1
           /\ (Waiting(readyWait') \/ Resolve(run))
  <2>1. ~early => readyWait' = held
    BY <1>1, <1>3, <1>5
  <2>2. ASSUME ~early, held = 0 PROVE Queued(run')
    <3>1. Resolve(run)
      BY <1>5, <2>1, <2>2 DEF Waiting
    <3> QED
      BY <1>1, <2>2, <3>1, QueuedByResolve
  <2>3. ReadyDue'
    BY <2>2 DEF ReadyDue
  <2> QED
    BY <1>1, <1>3, <1>5, <2>1, <2>3
<1> QED
  BY <1>4, <1>5 DEF ReadyNow

LEMMA TimerReady ==
  ASSUME Inv, ReadyInv, Next, Timer
  PROVE  ReadyInv'
<1>1. /\ run = <<>> /\ later > 0 /\ dom # "head" /\ later' = later - 1 /\ ReadyNow
      /\ UNCHANGED <<cb, state, dom, listening, held, early>>
  BY DEF Timer
<1>2. Untouched(cb') /\ Resolved'
  <2>1. ReadyListsOK
    BY <1>1, SameReady DEF ReadyInv
  <2>2. /\ Made(ReadyList)' <=> Made(ReadyList)
        /\ state[ReadyList] = "resolved" => state'[ReadyList] = "resolved"
    BY <1>1 DEF Made
  <2> QED
    BY <2>1, <2>2, ResolvedStays
<1>3. /\ isReady' = TRUE /\ ReadyDue' /\ readyWait' \in Int
      /\ ~early => readyWait' = held /\ Made(ReadyList)
  BY <1>1, NowReady
<1>4. CounterOK'
  BY <1>1, <1>3 DEF ReadyInv, CounterOK, Made
<1> QED
  BY <1>2, <1>3, <1>4 DEF ReadyInv

LEMMA LoadReady ==
  ASSUME Inv, ReadyInv, Next, Load
  PROVE  ReadyInv'
<1>1. /\ run = <<>> /\ dom # "complete" /\ dom' = Stages[1 + CHOOSE i \in 1..3 : Stages[i] = dom]
      /\ UNCHANGED <<cb, state, later, held, early>>
      /\ \/ /\ listening /\ dom' \in {"interactive", "complete"} /\ listening' = FALSE /\ ReadyNow
         \/ /\ ~(listening /\ dom' \in {"interactive", "complete"})
            /\ UNCHANGED <<listening, isReady, readyWait, run, threw>>
  BY DEF Load
<1>2. Untouched(cb') /\ Resolved'
  <2>1. ReadyListsOK
    BY <1>1, SameReady DEF ReadyInv
  <2>2. /\ Made(ReadyList)' <=> Made(ReadyList)
        /\ state[ReadyList] = "resolved" => state'[ReadyList] = "resolved"
    BY <1>1 DEF Made
  <2> QED
    BY <2>1, <2>2, ResolvedStays
<1>3. dom' \in {"body", "interactive", "complete"}
  <2>1. dom \in {"head", "body", "interactive"}
    BY <1>1 DEF ReadyInv, CounterOK
  <2>2. PICK i : i = CHOOSE j \in 1..3 : Stages[j] = dom
    OBVIOUS
  <2>3. i \in 1..3
    <3>1. \E j \in 1..3 : Stages[j] = dom
      BY <2>1 DEF Stages
    <3> QED
      BY <2>2, <3>1
  <2>4. 1 + i = 2 \/ 1 + i = 3 \/ 1 + i = 4
    BY <2>3
  <2> QED
    BY <1>1, <2>2, <2>4 DEF Stages
<1>4. CASE listening /\ dom' \in {"interactive", "complete"} /\ listening' = FALSE /\ ReadyNow
  <2>1. /\ isReady' = TRUE /\ ReadyDue' /\ readyWait' \in Int
        /\ ~early => readyWait' = held /\ Made(ReadyList)
    BY <1>1, <1>4, NowReady
  <2>2. Made(ReadyList)' <=> Made(ReadyList)
    BY <1>1 DEF Made
  <2>3. /\ held \in Int /\ later \in Nat /\ early \in BOOLEAN /\ (~early => held >= 0)
    BY DEF ReadyInv, CounterOK
  <2>4. /\ held' = held /\ later' = later /\ early' = early
        /\ isReady' = TRUE /\ listening' = FALSE /\ dom' \in {"interactive", "complete"}
    BY <1>1, <1>4, <2>1
  <2>5. ~early' => Made(ReadyList)' /\ readyWait' = held'
    BY <2>1, <2>2, <2>4
  <2>6. CounterOK'
    <3>1. /\ isReady' /\ ~listening' /\ isReady' \in BOOLEAN /\ listening' \in BOOLEAN /\ early' \in BOOLEAN
          /\ held' \in Int /\ readyWait' \in Int /\ later' \in Nat
      <4>1. isReady' = TRUE /\ listening' = FALSE /\ early' = early /\ early \in BOOLEAN
        BY <2>3, <2>4
      <4>2. isReady' /\ ~listening' /\ isReady' \in BOOLEAN /\ listening' \in BOOLEAN /\ early' \in BOOLEAN
        BY <4>1, Zenon
      <4>3. held' \in Int /\ readyWait' \in Int /\ later' \in Nat
        BY <2>1, <2>3, <2>4
      <4> QED
        BY <4>2, <4>3
    <3>2. ~early' => held' >= 0 /\ readyWait' = held' + 0 /\ Made(ReadyList)'
      BY <2>3, <2>4, <2>5, <3>1
    <3> QED
      BY <2>4, <3>1, <3>2 DEF CounterOK
  <2> QED
    BY <1>2, <2>1, <2>6 DEF ReadyInv
<1>5. CASE ~(listening /\ dom' \in {"interactive", "complete"}) /\ UNCHANGED <<listening, isReady, readyWait, run, threw>>
  <2>1. CounterOK'
    BY <1>1, <1>3, <1>5 DEF ReadyInv, CounterOK, Made
  <2>2. ReadyDue'
    BY <1>1, <1>5 DEF ReadyInv, ReadyDue, IsFired, Queued
  <2> QED
    BY <1>2, <2>1, <2>2 DEF ReadyInv
<1> QED
  BY <1>1, <1>4, <1>5

LEMMA HoldReady ==
  ASSUME Inv, ReadyInv, Next, Hold
  PROVE  ReadyInv'
<1>1. /\ readyWait' = readyWait + 1 /\ held' = held + 1 /\ Spend("ready")
      /\ UNCHANGED <<cb, run, state, dom, isReady, listening, later, early>>
  BY DEF Hold
<1>2. Untouched(cb') /\ Resolved'
  <2>1. ReadyListsOK
    BY <1>1, SameReady DEF ReadyInv
  <2>2. /\ Made(ReadyList)' <=> Made(ReadyList)
        /\ state[ReadyList] = "resolved" => state'[ReadyList] = "resolved"
    BY <1>1 DEF Made
  <2> QED
    BY <2>1, <2>2, ResolvedStays
<1>3. CounterOK'
  BY <1>1 DEF ReadyInv, CounterOK, Made
<1>4. ~early => held' # 0
  BY <1>1 DEF ReadyInv, CounterOK
<1>5. ReadyDue'
  BY <1>1, <1>4 DEF ReadyDue
<1> QED
  BY <1>2, <1>3, <1>5 DEF ReadyInv

LEMMA ReleaseReady ==
  ASSUME Inv, ReadyInv, Next, Release
  PROVE  ReadyInv'
<1>1. /\ ReadyReleased(run) /\ held' = held - 1 /\ early' = (early \/ held = 0) /\ PageRuns
      /\ UNCHANGED <<cb, state, dom, listening>>
  BY DEF Release
<1>2. Untouched(cb') /\ Resolved'
  <2>1. ReadyListsOK
    BY <1>1, SameReady DEF ReadyInv
  <2>2. /\ Made(ReadyList)' <=> Made(ReadyList)
        /\ state[ReadyList] = "resolved" => state'[ReadyList] = "resolved"
    BY <1>1 DEF Made
  <2> QED
    BY <2>1, <2>2, ResolvedStays
<1>3. /\ held \in Int /\ readyWait \in Int /\ later \in Nat
      /\ isReady \in BOOLEAN /\ listening \in BOOLEAN /\ early \in BOOLEAN
      /\ isReady => dom # "head"
      /\ ~early => held >= 0 /\ readyWait = held + (IF isReady THEN 0 ELSE 1)
  BY DEF ReadyInv, CounterOK
<1>4. early' \in BOOLEAN /\ readyWait' = readyWait - 1
  BY <1>1, <1>3 DEF ReadyReleased
<1>5. ASSUME ~early' PROVE ~early /\ held > 0 /\ (readyWait = 1 => isReady /\ held = 1)
  <2>1. ~early /\ held # 0
    BY <1>1, <1>5
  <2>2. held > 0 /\ readyWait = held + (IF isReady THEN 0 ELSE 1)
    BY <1>3, <2>1
  <2> QED
    BY <1>3, <2>1, <2>2
<1>6. CASE readyWait # 1 /\ UNCHANGED <<run, isReady, later, threw>>
  <2>1. CounterOK'
    BY <1>1, <1>3, <1>4, <1>5, <1>6 DEF ReadyInv, CounterOK, Made
  <2>2. ~early' => (isReady => held' # 0)
    BY <1>1, <1>3, <1>5, <1>6
  <2>3. ReadyDue'
    BY <1>6, <2>2 DEF ReadyDue
  <2> QED
    BY <1>2, <2>1, <2>3 DEF ReadyInv
<1>7. CASE readyWait = 1 /\ dom = "head" /\ later' = later + 1 /\ UNCHANGED <<run, isReady, threw>>
  <2>1. early'
    BY <1>3, <1>5, <1>7
  <2>2. CounterOK'
    BY <1>1, <1>3, <1>4, <1>7, <2>1 DEF ReadyInv, CounterOK, Made
  <2> QED
    BY <1>2, <2>1, <2>2 DEF ReadyInv, ReadyDue
<1>8. CASE readyWait = 1 /\ dom # "head" /\ isReady' = TRUE /\ Resolve(run) /\ later' = later
  <2>1. ~early' => isReady /\ Made(ReadyList)
    BY <1>5, <1>8 DEF ReadyInv, CounterOK
  <2>2. CounterOK'
    BY <1>1, <1>3, <1>4, <1>5, <1>8, <2>1 DEF ReadyInv, CounterOK, Made
  <2>3. ReadyDue'
    BY <1>8, <2>1, QueuedByResolve DEF ReadyDue
  <2> QED
    BY <1>2, <2>2, <2>3 DEF ReadyInv
<1> QED
  BY <1>1, <1>6, <1>7, <1>8 DEF ReadyReleased

LEMMA AskReadyReady ==
  ASSUME Inv, ReadyInv, Next, NEW fn, AskReady(fn)
  PROVE  ReadyInv'
<1>1. /\ Spend("ready") /\ UNCHANGED <<dom, isReady, readyWait, held, early, threw>>
      /\ \/ Made(ReadyList) /\ UNCHANGED <<cb, state, listening, later>>
         \/ /\ WithNew(ReadyList)
            /\ IF dom = "complete" THEN later' = later + 1 /\ UNCHANGED listening
               ELSE listening' = TRUE /\ UNCHANGED later
  BY DEF AskReady, Spend
<1>2. ReadyListsOK /\ (IsFired(cb') => IsFired(cb))
  <2>1. CASE UNCHANGED cb
    BY <2>1, SameReady DEF ReadyInv, IsFired
  <2>2. CASE WithNew(ReadyList)
    <3>1. PICK f : f = NewLists(ReadyList)
      OBVIOUS
    <3>2. cb' = Joined(cb, f)
      BY <2>2, <3>1 DEF WithNew
    <3>3. DOMAIN cb' = DOMAIN cb \union DOMAIN f /\ \A l \in DOMAIN cb : cb'[l] = cb[l]
      BY <3>2 DEF Joined
    <3>4. ASSUME NEW l \in ReadyPair, l \in DOMAIN cb' \ DOMAIN cb
          PROVE  ~cb'[l].fired /\ cb'[l].list = FirstCallbacks(l[1], l[2])
      <4>1. PICK d, a : l = <<d, a>> /\ d = ReadyList /\ a \in Settling /\ l[1] = d /\ l[2] = a
        BY <3>4 DEF ReadyPair, ReadyDone, ReadyFail, Settling
      <4>2. l \in {ReadyList} \X Action
        BY <4>1 DEF Settling, Action
      <4>3. f[l] = NewList(d, a)
        BY <3>1, <4>1, <4>2 DEF NewLists
      <4>4. cb'[l] = NewList(d, a)
        BY <3>2, <3>3, <3>4, <4>3 DEF Joined
      <4>5. PICK o, x : o = New(OnceMemory) /\ x = FirstCallbacks(d, a)
        OBVIOUS
      <4>6. cb'[l] = [o EXCEPT !.list = x]
        BY <4>1, <4>4, <4>5 DEF NewList, Settling
      <4>7. ~cb'[l].fired /\ cb'[l].list = x
        BY <4>5, <4>6 DEF New
      <4> QED
        BY <4>1, <4>5, <4>7
    <3>5. ReadyListsOK
      BY <3>3, <3>4, MoreReady DEF ReadyInv
    <3>6. IsFired(cb') => IsFired(cb)
      BY <3>3, <3>4 DEF IsFired, ReadyPair
    <3> QED
      BY <3>5, <3>6
  <2> QED
    BY <1>1, <2>1, <2>2
<1>3. Made(ReadyList)' /\ (Made(ReadyList) => UNCHANGED <<listening, later, state>>)
  BY <1>1, ReadyAssumption DEF WithNew, Made, Inv, PageOK
<1>4. IsFired(cb) => Made(ReadyList)
  BY ReadyAssumption DEF IsFired, ReadyDone, Inv, PageOK, Action
<1>5. PageRuns
  BY <1>1 DEF Spend
<1>6. ~Starting(cb, run) /\ ~Queued(run)
  BY <1>5 DEF PageRuns, Top, Starting, LoopAt, Queued
<1>7. Untouched(cb') /\ (IsFired(cb) <=> IsFired(cb'))
  BY <1>2 DEF ReadyListsOK
<1>8. Resolved'
  BY <1>3, <1>4, <1>6, <1>7 DEF ReadyInv, Resolved
<1>9. CounterOK'
  <2>1. CASE Made(ReadyList)
    BY <1>1, <1>3, <2>1 DEF ReadyInv, CounterOK
  <2>2. CASE ~Made(ReadyList) /\ dom = "complete"
    <3>1. later' = later + 1 /\ listening' = listening
      BY <1>1, <2>2
    <3> QED
      BY <1>1, <1>3, <3>1 DEF ReadyInv, CounterOK
  <2>3. CASE ~Made(ReadyList) /\ dom # "complete"
    <3>1. later' = later /\ listening' = TRUE
      BY <1>1, <2>3
    <3> QED
      BY <1>1, <1>3, <2>3, <3>1 DEF ReadyInv, CounterOK
  <2> QED
    BY <2>1, <2>2, <2>3
<1>10. ReadyDue'
  BY <1>1, <1>6, <1>7 DEF ReadyInv, ReadyDue
<1> QED
  BY <1>7, <1>8, <1>9, <1>10 DEF ReadyInv

LEMMA ReadyAtFirst ==
  ASSUME Init
  PROVE  ReadyInv
<1>1. own \subseteq PageDef
  BY ScriptsAssumption DEF Init
<1>2. DOMAIN cb \subseteq {OwnList} \union (own \X Action)
  <2>1. PICK o \in ListOptions :
          cb = [l \in {l \in {OwnList} : calls["list"] > 0} \union (own \X Action) |->
                  IF l = OwnList THEN New(o) ELSE NewList(l[1], l[2])]
    BY DEF Init
  <2> QED
    BY <2>1
<1>3. ReadyDone \notin DOMAIN cb /\ ReadyFail \notin DOMAIN cb
  BY <1>1, <1>2, ReadyLists, ReadyAssumption DEF ReadyDone, ReadyFail, ReadyPair
<1>4. ~Made(ReadyList)
  BY <1>1, ReadyAssumption DEF Init, Made
<1>5. Untouched(cb) /\ Resolved
  BY <1>3 DEF Untouched, Resolved, IsFired
<1>6. CounterOK /\ ReadyDue
  <2>1. /\ dom = "head" /\ isReady = FALSE /\ readyWait = 1 /\ listening = FALSE
        /\ later = 0 /\ held = 0 /\ early = FALSE
    BY DEF Init, ReadyInit
  <2>2. /\ ~isReady /\ ~listening /\ ~early
        /\ isReady \in BOOLEAN /\ listening \in BOOLEAN /\ early \in BOOLEAN
    BY <2>1
  <2>3. ReadyDue
    BY <2>2 DEF ReadyDue
  <2>4. held \in Int /\ readyWait \in Int /\ later \in Nat /\ held >= 0 /\ readyWait = held + 1 /\ ~(later > 0)
    BY <2>1
  <2> QED
    BY <1>4, <2>1, <2>2, <2>3, <2>4 DEF CounterOK
<1> QED
  BY <1>5, <1>6 DEF ReadyInv

LEMMA ReadyStep ==
  ASSUME Inv, ReadyInv, [Next]_vars
  PROVE  ReadyInv'
<1>1. CASE ListStep \/ DeferredStep \/ AjaxStep \/ ReadySteps
  BY <1>1, Quietly DEF Next
<1>2. CASE ReadyCalls
  BY <1>2, AskReadyReady, HoldReady, ReleaseReady DEF ReadyCalls, Next
<1>3. CASE Load \/ Timer
  BY <1>3, LoadReady, TimerReady DEF Next
<1>4. CASE UNCHANGED vars
  BY <1>4 DEF vars, ajaxVars, defVars, cbVars, readyVars, ReadyInv, Untouched, Resolved, IsFired,
     Starting, CounterOK, ReadyDue, Queued, Made
<1> QED
  BY <1>1, <1>2, <1>3, <1>4 DEF Next

LEMMA NowResolved == ReadyInv => ReadyComes
<1> SUFFICES ASSUME ReadyInv, Quiet, Made(ReadyList), dom = "complete", later = 0, held = 0, ~early
             PROVE  state[ReadyList] = "resolved"
  BY DEF ReadyComes
<1>1. run = <<>> /\ ~threw
  BY DEF Quiet
<1>2. ~Queued(run) /\ ~Starting(cb, run)
  BY <1>1 DEF Queued, Starting
<1>3. isReady
  BY DEF ReadyInv, CounterOK
<1> QED
  BY <1>1, <1>2, <1>3 DEF ReadyInv, ReadyDue, Resolved

(***************************************************************************)
(* As long as every release follows a hold, ready has come once the        *)
(* document is there and nobody holds it any more: the document's own part *)
(* of the counter is taken down once, by the first event that is heard or  *)
(* by the timer set instead (jQuery.ready), and who takes the counter to   *)
(* zero resolves the Deferred.                                             *)
(***************************************************************************)
THEOREM ReadyAlways == Spec => []ReadyComes
<1>1. Init => ReadyInv
  BY ReadyAtFirst
<1>2. Inv /\ ReadyInv /\ [Next]_vars => ReadyInv'
  BY ReadyStep
<1>3. ReadyInv => ReadyComes
  BY NowResolved
<1>4. Spec => []Inv
  BY InvAlways
<1> QED
  BY <1>1, <1>2, <1>3, <1>4, PTL DEF Spec

-----------------------------------------------------------------------------
(***************************************************************************)
(* Requests in flight.                                                     *)
(*                                                                         *)
(* What is left to do for a request are calls on the stack.  A call is     *)
(* known by its frame and its distance from the end of the row, neither of *)
(* which changes while it waits.                                           *)
(***************************************************************************)
CallsOf(s, q) ==
  {w \in Nat \X RequestOps :
     w[1] < Len(s) /\ s[Len(s) - w[1]].op = w[2] /\ s[Len(s) - w[1]].q = q}

Work(r, q) ==
  {w \in Nat \X Nat \X RequestOps :
     w[1] \in 1..Len(r) /\ r[w[1]].f = "todo" /\ <<w[2], w[3]>> \in CallsOf(r[w[1]].todo, q)}

\* Rows of calls that are not steps of requests.
Idle(s) == Stack(s) /\ \A i \in 1..Len(s) : s[i].op \notin RequestOps

LEMMA StackOneMore ==
  ASSUME NEW r, Stack(r), NEW x
  PROVE  /\ Stack(r \o <<x>>) /\ Len(r \o <<x>>) = Len(r) + 1 /\ Len(r) \in Nat
         /\ \A i \in 1..Len(r) : (r \o <<x>>)[i] = r[i]
         /\ (r \o <<x>>)[Len(r) + 1] = x
<1> PICK t : t = <<x>>
  OBVIOUS
<1>1. Stack(t) /\ Len(t) = 1 /\ t[1] = x
  BY StackOne
<1>2. /\ Stack(r \o t) /\ Len(r \o t) = Len(r) + Len(t)
      /\ \A i \in 1..Len(r) : (r \o t)[i] = r[i]
  BY <1>1, StackConcat
<1>4. \A i \in 1..Len(t) : (r \o t)[Len(r) + i] = t[i]
  BY <1>1, StackConcat
<1>3. 1 \in 1..Len(t) /\ Len(r) \in Nat
  BY <1>1, StackLen
<1> QED
  BY <1>1, <1>2, <1>3, <1>4

\* The same rows of calls are at the same places.
LEMMA WorkByRows ==
  ASSUME NEW r, Stack(r), NEW s, Stack(s), NEW q,
         \A i \in Nat : (i \in 1..Len(r) /\ r[i].f = "todo") <=> (i \in 1..Len(s) /\ s[i].f = "todo"),
         \A i \in 1..Len(r) : r[i].f = "todo" => s[i].todo = r[i].todo
  PROVE  Work(s, q) = Work(r, q)
<1>1. ASSUME NEW w \in Nat \X Nat \X RequestOps
      PROVE  w \in Work(s, q) <=> w \in Work(r, q)
  <2>1. w[1] \in Nat
    OBVIOUS
  <2>2. PICK i : i = w[1]
    OBVIOUS
  <2>3. (i \in 1..Len(r) /\ r[i].f = "todo") <=> (i \in 1..Len(s) /\ s[i].f = "todo")
    BY <2>1, <2>2
  <2>4. i \in 1..Len(r) /\ r[i].f = "todo" => s[i].todo = r[i].todo
    OBVIOUS
  <2> QED
    BY <2>2, <2>3, <2>4 DEF Work
<1>2. Work(s, q) \subseteq Nat \X Nat \X RequestOps /\ Work(r, q) \subseteq Nat \X Nat \X RequestOps
  BY DEF Work
<1> QED
  BY <1>1, <1>2

LEMMA WorkPopped ==
  ASSUME NEW r, Stack(r), r # <<>>, r[Len(r)].f # "todo", NEW q
  PROVE  Work(Front(r), q) = Work(r, q)
<1>1. PICK s : s = Front(r)
  OBVIOUS
<1>2. /\ Len(r) \in Nat \ {0} /\ Stack(s) /\ Len(s) = Len(r) - 1
      /\ \A i \in 1..Len(r) - 1 : s[i] = r[i]
  BY <1>1, StackPop
<1>3. \A i \in Nat : i \in 1..Len(r) <=> i = Len(r) \/ i \in 1..Len(r) - 1
  BY <1>2
<1>4. \A i \in Nat : (i \in 1..Len(r) /\ r[i].f = "todo") <=> (i \in 1..Len(s) /\ s[i].f = "todo")
  BY <1>2, <1>3
<1>5. \A i \in 1..Len(r) : r[i].f = "todo" => s[i].todo = r[i].todo
  BY <1>2, <1>3
<1> QED
  BY <1>1, <1>2, <1>4, <1>5, WorkByRows

LEMMA WorkPushed ==
  ASSUME NEW r, Stack(r), NEW x, x.f # "todo", NEW q
  PROVE  Work(Append(r, x), q) = Work(r, q)
<1>1. PICK s : s = Append(r, x)
  OBVIOUS
<1>2. /\ Stack(s) /\ Len(s) = Len(r) + 1 /\ Len(r) \in Nat
      /\ \A i \in 1..Len(r) : s[i] = r[i]
      /\ s[Len(r) + 1] = x
  BY <1>1, StackPush, StackLen
<1>3. \A i \in Nat : i \in 1..Len(s) <=> i = Len(r) + 1 \/ i \in 1..Len(r)
  BY <1>2
<1>4. Len(r) + 1 \notin 1..Len(r)
  BY <1>2
<1>5. \A i \in Nat : (i \in 1..Len(r) /\ r[i].f = "todo") <=> (i \in 1..Len(s) /\ s[i].f = "todo")
  BY <1>2, <1>3, <1>4
<1> QED
  BY ZenonT(40), <1>1, <1>2, <1>5, WorkByRows

LEMMA WorkHandler ==
  ASSUME NEW r, Stack(r), NEW fn, NEW q
  PROVE  Stack(r \o Handler(fn)) /\ Work(r \o Handler(fn), q) = Work(r, q)
<1>1. PICK x : x = FnFrame(fn, Nothing, Nothing, Nothing)
  OBVIOUS
<1>2. PICK s : s = r \o <<x>>
  OBVIOUS
<1>3. x.f = "fn"
  BY <1>1 DEF FnFrame
<1>4. /\ Stack(s) /\ Len(s) = Len(r) + 1 /\ Len(r) \in Nat
      /\ \A i \in 1..Len(r) : s[i] = r[i]
      /\ s[Len(r) + 1] = x
  BY <1>2, StackOneMore
<1>6. \A i \in Nat : i \in 1..Len(s) <=> i = Len(r) + 1 \/ i \in 1..Len(r)
  BY <1>4
<1>7. Len(r) + 1 \notin 1..Len(r)
  BY <1>4
<1>8. \A i \in Nat : (i \in 1..Len(r) /\ r[i].f = "todo") <=> (i \in 1..Len(s) /\ s[i].f = "todo")
  BY <1>3, <1>4, <1>6, <1>7
<1>9. Work(s, q) = Work(r, q)
  BY <1>4, <1>8, WorkByRows
<1> QED
  BY <1>1, <1>2, <1>4, <1>9 DEF Handler

LEMMA NoFrame ==
  ASSUME NEW r, Stack(r)
  PROVE  r \o <<>> = r
<1>1. PICK S : r \in Seq(S)
  BY StackIsSeq
<1> QED
  BY <1>1

LEMMA WorkTriggered ==
  ASSUME NEW r, Stack(r), NEW e, NEW q
  PROVE  Stack(r \o Triggered(e)) /\ Work(r \o Triggered(e), q) = Work(r, q)
BY WorkHandler, NoFrame DEF Triggered

\* A row of calls is put on top.
LEMMA WorkTodo ==
  ASSUME NEW r, Stack(r), NEW s, Stack(s), NEW q
  PROVE  /\ Stack(r \o Todo(s))
         /\ Work(r \o Todo(s), q) = Work(r, q) \union {<<Len(r) + 1, w[1], w[2]>> : w \in CallsOf(s, q)}
<1> DEFINE Added_ == {<<Len(r) + 1, w[1], w[2]>> : w \in CallsOf(s, q)}
<1>1. CASE s = <<>>
  <2>1. Len(s) = 0
    BY <1>1, StackLen
  <2>2. CallsOf(s, q) = {}
    BY <2>1 DEF CallsOf
  <2>3. r \o Todo(s) = r
    BY <1>1, NoFrame DEF Todo
  <2> QED
    BY <2>2, <2>3
<1>2. CASE s # <<>>
  <2>1. PICK x : x = [f |-> "todo", todo |-> s]
    OBVIOUS
  <2>2. PICK u : u = r \o <<x>>
    OBVIOUS
  <2>3. x.f = "todo" /\ x.todo = s
    BY <2>1
  <2>4. /\ Stack(u) /\ Len(u) = Len(r) + 1 /\ Len(r) \in Nat
        /\ \A i \in 1..Len(r) : u[i] = r[i]
    BY <2>2, StackOneMore
  <2>5. u[Len(r) + 1] = x
    BY <2>2, StackOneMore
  <2>6. \A i \in Nat : i \in 1..Len(u) <=> i = Len(r) + 1 \/ i \in 1..Len(r)
    BY <2>4
  <2>7. Len(r) + 1 \notin 1..Len(r) /\ Len(r) + 1 \in Nat
    BY <2>4
  <2>8. PICK n : n = Len(r) + 1
    OBVIOUS
  <2>9. ASSUME NEW i \in Nat, NEW k \in Nat, NEW op \in RequestOps
        PROVE  <<i, k, op>> \in Work(u, q) <=> <<i, k, op>> \in Work(r, q) \/ <<i, k, op>> \in Added_
    <3>1. <<i, k, op>> \in Work(u, q) <=>
            i \in 1..Len(u) /\ u[i].f = "todo" /\ <<k, op>> \in CallsOf(u[i].todo, q)
      BY DEF Work
    <3>2. <<i, k, op>> \in Work(r, q) <=>
            i \in 1..Len(r) /\ r[i].f = "todo" /\ <<k, op>> \in CallsOf(r[i].todo, q)
      BY DEF Work
    <3>3. <<i, k, op>> \in Added_ <=> i = n /\ <<k, op>> \in CallsOf(s, q)
      <4>1. ASSUME <<i, k, op>> \in Added_ PROVE i = n /\ <<k, op>> \in CallsOf(s, q)
        <5>1. PICK w \in CallsOf(s, q) : <<i, k, op>> = <<Len(r) + 1, w[1], w[2]>>
          BY <4>1
        <5>2. w \in Nat \X RequestOps
          BY <5>1 DEF CallsOf
        <5>3. w = <<w[1], w[2]>>
          BY <5>2
        <5> QED
          BY <2>8, <5>1, <5>3
      <4>2. ASSUME i = n, <<k, op>> \in CallsOf(s, q) PROVE <<i, k, op>> \in Added_
        <5>1. PICK w : w = <<k, op>>
          OBVIOUS
        <5>2. w \in CallsOf(s, q) /\ <<i, k, op>> = <<Len(r) + 1, w[1], w[2]>>
          BY <2>8, <4>2, <5>1
        <5> QED
          BY <5>2
      <4> QED
        BY <4>1, <4>2
    <3>4. CASE i = n
      BY <2>3, <2>5, <2>6, <2>7, <2>8, <3>1, <3>2, <3>3, <3>4
    <3>5. CASE i # n
      BY <2>4, <2>6, <2>8, <3>1, <3>2, <3>3, <3>5
    <3> QED
      BY <3>4, <3>5
  <2>10. /\ \A w \in Work(u, q) \union Work(r, q) : \E i \in Nat, k \in Nat, op \in RequestOps : w = <<i, k, op>>
         /\ \A w \in Added_ : \E i \in Nat, k \in Nat, op \in RequestOps : w = <<i, k, op>>
    <3>1. \A w \in Nat \X Nat \X RequestOps : w = <<w[1], w[2], w[3]>> /\ w[1] \in Nat /\ w[2] \in Nat /\ w[3] \in RequestOps
      OBVIOUS
    <3>2. \A w \in Nat \X RequestOps : w[1] \in Nat /\ w[2] \in RequestOps
      OBVIOUS
    <3> QED
      BY <2>7, <3>1, <3>2 DEF Work, CallsOf
  <2>11. Work(u, q) = Work(r, q) \union Added_
    <3> HIDE DEF Added_
    <3> QED
      BY <2>9, <2>10
  <2>12. r \o Todo(s) = u
    BY <1>2, <2>1, <2>2 DEF Todo
  <2> QED
    BY <2>4, <2>11, <2>12
<1> QED
  BY <1>1, <1>2

LEMMA IdleNoCalls ==
  ASSUME NEW s, Idle(s), NEW q
  PROVE  CallsOf(s, q) = {}
<1>1. Len(s) \in Nat
  BY StackLen DEF Idle
<1>2. ASSUME NEW w \in Nat \X RequestOps, w[1] < Len(s)
      PROVE  s[Len(s) - w[1]].op # w[2]
  <2>1. w[1] \in Nat /\ w[2] \in RequestOps
    OBVIOUS
  <2>2. Len(s) - w[1] \in 1..Len(s)
    BY <1>1, <1>2, <2>1
  <2> QED
    BY <2>1, <2>2 DEF Idle
<1> QED
  BY <1>2 DEF CallsOf

\* The last call of a row is a step op of request q, and the only one of a request.
EndsWith(t, q, op) ==
  Stack(t) /\ CallsOf(t, q) = {<<0, op>>} /\ \A p : p # q => CallsOf(t, p) = {}

LEMMA LastCall ==
  ASSUME NEW s, Idle(s), NEW op \in RequestOps, NEW p
  PROVE  EndsWith(s \o <<RequestCall(op, p)>>, p, op)
<1> PICK t : t = s \o <<RequestCall(op, p)>>
  OBVIOUS
<1>1. PICK x : x = RequestCall(op, p)
  OBVIOUS
<1>2. t = s \o <<x>>
  BY <1>1
<1>3. x.op = op /\ x.q = p
  BY <1>1 DEF RequestCall
<1>4. /\ Stack(t) /\ Len(t) = Len(s) + 1 /\ Len(s) \in Nat
      /\ \A i \in 1..Len(s) : t[i] = s[i]
      /\ t[Len(s) + 1] = x
  BY <1>2, StackOneMore DEF Idle
<1>5. t[Len(t)] = x
  BY <1>4
<1>6. ASSUME NEW q, NEW k \in Nat, NEW o \in RequestOps
      PROVE  <<k, o>> \in CallsOf(t, q) <=> k = 0 /\ o = op /\ q = p
  <2>1. <<k, o>> \in CallsOf(t, q) <=> k < Len(t) /\ t[Len(t) - k].op = o /\ t[Len(t) - k].q = q
    BY DEF CallsOf
  <2>2. CASE k = 0
    <3>1. Len(t) - k = Len(t) /\ k < Len(t)
      BY <1>4, <2>2
    <3> QED
      BY <1>3, <1>5, <2>1, <2>2, <3>1
  <2>3. CASE k # 0 /\ k < Len(t)
    <3>1. Len(t) - k \in 1..Len(s)
      BY <1>4, <2>3
    <3>2. t[Len(t) - k].op \notin RequestOps
      BY <1>4, <3>1 DEF Idle
    <3> QED
      BY <2>1, <2>3, <3>2
  <2> QED
    BY <2>1, <2>2, <2>3
<1>7. \A q : \A w \in CallsOf(t, q) : \E k \in Nat, o \in RequestOps : w = <<k, o>>
  BY DEF CallsOf
<1>8. CallsOf(t, p) = {<<0, op>>} /\ \A q : q # p => CallsOf(t, q) = {}
  BY <1>6, <1>7
<1> QED
  BY <1>4, <1>8 DEF EndsWith

\* The call that is made is left to do no longer.
LEMMA WorkAfter ==
  ASSUME Inv, NEW op, CallIs(op)
  PROVE  /\ Stack(AfterCall)
         /\ op \notin RequestOps => \A q : Work(AfterCall, q) = Work(run, q)
         /\ op \in RequestOps =>
              \E h \in Work(run, Call.q) :
                /\ h[3] = op /\ Work(AfterCall, Call.q) = Work(run, Call.q) \ {h}
                /\ \A q : q # Call.q => Work(AfterCall, q) = Work(run, q)
<1>1. TopIs("todo") /\ Call.op = op /\ run # <<>>
  BY DEF CallIs, Call, TopIs
<1>2. PICK n : n = Len(run)
  OBVIOUS
<1>3. /\ Stack(run) /\ n \in Nat \ {0} /\ Stack(Below) /\ Len(Below) = n - 1
      /\ \A i \in 1..n - 1 : Below[i] = run[i]
  BY <1>1, <1>2, StackPop DEF Inv, StackOK, Frames, Below
<1>4. PICK s, t : s = Top.todo /\ t = Tail(s)
  OBVIOUS
<1>5. IsTodo(run[n], DOMAIN cb) /\ run[n].f = "todo" /\ run[n].todo = s
  <2>1. n \in 1..Len(run) /\ Top = run[n]
    BY <1>2, <1>3 DEF Top
  <2>2. IsFire(Top, DOMAIN cb) \/ IsFn(Top, DOMAIN cb) \/ IsTodo(Top, DOMAIN cb)
    BY <2>1 DEF Inv, StackOK, Frames
  <2> QED
    BY <1>1, <1>4, <2>1, <2>2 DEF IsFire, IsFn, IsTodo, TopIs
<1>6. PICK m : m = Len(s)
  OBVIOUS
<1>7. /\ Stack(t) /\ Len(t) = m - 1 /\ m \in Nat \ {0}
      /\ \A i \in 1..m - 1 : t[i] = s[i + 1]
      /\ Call = s[1]
  <2>1. Stack(s) /\ s # <<>>
    BY <1>5 DEF IsTodo, CallsOK
  <2> QED
    BY <1>4, <1>6, <2>1, StackTail DEF Call
<1>8. ASSUME NEW q, NEW k \in Nat, NEW o \in RequestOps
      PROVE  /\ <<k, o>> \in CallsOf(t, q) <=> <<k, o>> \in CallsOf(s, q) /\ k # m - 1
             /\ <<m - 1, o>> \in CallsOf(s, q) <=> Call.op = o /\ Call.q = q
  <2>1. <<k, o>> \in CallsOf(t, q) <=> k < m - 1 /\ t[m - 1 - k].op = o /\ t[m - 1 - k].q = q
    BY <1>7 DEF CallsOf
  <2>2. <<k, o>> \in CallsOf(s, q) <=> k < m /\ s[m - k].op = o /\ s[m - k].q = q
    BY <1>6 DEF CallsOf
  <2>3. k < m - 1 => t[m - 1 - k] = s[m - k]
    <3>1. PICK j : j = m - 1 - k
      OBVIOUS
    <3>2. k < m - 1 => j \in 1..m - 1 /\ j + 1 = m - k
      BY <1>7, <3>1
    <3> QED
      BY <1>7, <3>1, <3>2
  <2>4. k < m - 1 <=> k < m /\ k # m - 1
    BY <1>7
  <2>5. <<m - 1, o>> \in CallsOf(s, q) <=> s[1].op = o /\ s[1].q = q
    <3>1. PICK j : j = m - 1
      OBVIOUS
    <3>2. j \in Nat /\ j < m /\ m - j = 1
      BY <1>7, <3>1
    <3>3. <<j, o>> \in CallsOf(s, q) <=> j < m /\ s[m - j].op = o /\ s[m - j].q = q
      BY <1>6, <3>2 DEF CallsOf
    <3> QED
      BY <3>1, <3>2, <3>3
  <2> QED
    BY <1>7, <2>1, <2>2, <2>3, <2>4, <2>5
<1>9. PICK a : a = AfterCall
  OBVIOUS
<1>10. /\ Stack(a)
       /\ \A q : Work(a, q) = Work(Below, q) \union {<<n, w[1], w[2]>> : w \in CallsOf(t, q)}
  <2>1. a = Below \o Todo(t) /\ Len(Below) + 1 = n
    BY <1>3, <1>4, <1>9 DEF AfterCall
  <2> QED
    BY <1>3, <1>7, <2>1, WorkTodo
<1>11. ASSUME NEW q, NEW i \in Nat, NEW k \in Nat, NEW o \in RequestOps
       PROVE  <<i, k, o>> \in Work(a, q) <=>
                <<i, k, o>> \in Work(run, q) /\ ~(i = n /\ k = m - 1)
  <2>1. <<i, k, o>> \in Work(run, q) <=>
          i \in 1..n /\ run[i].f = "todo" /\ <<k, o>> \in CallsOf(run[i].todo, q)
    BY <1>2 DEF Work
  <2>2. <<i, k, o>> \in Work(Below, q) <=>
          i \in 1..n - 1 /\ Below[i].f = "todo" /\ <<k, o>> \in CallsOf(Below[i].todo, q)
    BY <1>3 DEF Work
  <2>3. <<i, k, o>> \in {<<n, w[1], w[2]>> : w \in CallsOf(t, q)} <=> i = n /\ <<k, o>> \in CallsOf(t, q)
    <3>1. \A w \in CallsOf(t, q) : w = <<w[1], w[2]>>
      BY DEF CallsOf
    <3>2. PICK v : v = <<k, o>>
      OBVIOUS
    <3>3. v[1] = k /\ v[2] = o
      BY <3>2
    <3> QED
      BY <3>1, <3>2, <3>3
  <2>4. i \in 1..n <=> i = n \/ i \in 1..n - 1
    BY <1>3
  <2>5. n \notin 1..n - 1
    BY <1>3
  <2>6. CASE i = n
    BY ZenonT(60), <1>5, <1>8, <1>10, <2>1, <2>2, <2>3, <2>4, <2>5, <2>6
  <2>7. CASE i # n
    BY <1>3, <1>10, <2>1, <2>2, <2>3, <2>4, <2>7
  <2> QED
    BY <2>6, <2>7
<1>12. \A r, q : \A w \in Work(r, q) : \E i \in Nat, k \in Nat, o \in RequestOps : w = <<i, k, o>>
  BY DEF Work
<1>13. ASSUME NEW o \in RequestOps, NEW q
       PROVE  <<n, m - 1, o>> \in Work(run, q) <=> Call.op = o /\ Call.q = q
  <2>1. PICK k : k = m - 1
    OBVIOUS
  <2>2. k \in Nat /\ n \in Nat /\ n \in 1..n
    BY <1>3, <1>7, <2>1
  <2>3. <<n, k, o>> \in Work(run, q) <=> <<k, o>> \in CallsOf(s, q)
    BY <1>2, <1>5, <2>2 DEF Work
  <2>4. <<k, o>> \in CallsOf(s, q) <=> Call.op = o /\ Call.q = q
    BY <1>8, <2>1, <2>2
  <2> QED
    BY <2>1, <2>3, <2>4
<1>14. ASSUME NEW q, \A o \in RequestOps : ~(Call.op = o /\ Call.q = q)
       PROVE  Work(a, q) = Work(run, q)
  <2>1. \A i \in Nat, k \in Nat, o \in RequestOps :
           <<i, k, o>> \in Work(a, q) <=> <<i, k, o>> \in Work(run, q)
    BY <1>11, <1>13, <1>14
  <2> QED
    BY <1>12, <2>1
<1>15. ASSUME op \in RequestOps
       PROVE  \E h \in Work(run, Call.q) :
                /\ h[3] = op /\ Work(AfterCall, Call.q) = Work(run, Call.q) \ {h}
                /\ \A q : q # Call.q => Work(AfterCall, q) = Work(run, q)
  <2>1. PICK h : h = <<n, m - 1, op>>
    OBVIOUS
  <2>2. h \in Work(run, Call.q) /\ h[3] = op
    BY <1>1, <1>13, <1>15, <2>1
  <2>3. PICK q : q = Call.q
    OBVIOUS
  <2>4. \A i \in Nat, k \in Nat, o \in RequestOps :
          <<i, k, o>> \in Work(a, q) <=> <<i, k, o>> \in Work(run, q) /\ <<i, k, o>> # h
    <3>1. ASSUME NEW i \in Nat, NEW k \in Nat, NEW o \in RequestOps, <<i, k, o>> \in Work(run, q)
          PROVE  i = n /\ k = m - 1 <=> <<i, k, o>> = h
      BY <1>1, <1>13, <2>1, <3>1
    <3> QED
      BY <1>11, <3>1
  <2>5. Work(a, q) = Work(run, q) \ {h}
    BY <1>12, <2>4
  <2>6. \A p : p # Call.q => Work(AfterCall, p) = Work(run, p)
    BY <1>9, <1>14
  <2> QED
    BY <1>9, <2>2, <2>3, <2>5, <2>6
<1> QED
  BY <1>1, <1>9, <1>10, <1>14, <1>15

-----------------------------------------------------------------------------
(***************************************************************************)
(* One request, its closure r and what is left to do for it, w.            *)
(***************************************************************************)
SendOps == RequestOps \ {"inactive"}

Left(w, ops) == \E x \in w : x[3] \in ops

\* done was run as often as the state says.
FreshOne(r) == r.dones = IF r.state = 2 THEN 1 ELSE 0

\* Whatever happens.
Basic(r) ==
  /\ RequestShape(r) /\ r.dones \in Nat /\ (r.state = 2 => r.dones > 0)
  /\ r.state \in {0, 1, 2} /\ Idle(r.onStatus)

\* The closure of a request that was not made.
Unused(r) == r.state = 0 /\ r.dones = 0 /\ ~r.globals /\ ~r.wire /\ ~r.timer /\ ~r.transport

\* A request goes its way once: one step of it is left until it is sent, and
\* one when it is done.
Way(r, w) ==
  /\ \A x, y \in w : x[3] \in SendOps /\ y[3] \in SendOps => x = y
  /\ \A x, y \in w : x[3] = "inactive" /\ y[3] = "inactive" => x = y
  /\ Left(w, SendOps) => ~r.wire /\ ~r.timer
  /\ Left(w, {"globals"}) => ~r.globals
  /\ Left(w, {"inactive"}) => r.state = 2
  /\ r.wire => r.transport
  /\ r.state = 2 => ~r.timer /\ ~r.wire

OneWay(r, w) == Way(r, w) /\ (r.globals /\ r.state = 0 => Left(w, SendOps))

\* jQuery.active counts it.
Counts(r, w) == r.globals /\ (r.state # 2 \/ Left(w, {"inactive"}))

LEMMA DoneFields ==
  ASSUME NEW r, RequestShape(r), NEW n, n = DoneRequest(r)
  PROVE  /\ RequestShape(n) /\ n.state = 2 /\ n.timer = FALSE /\ n.transport = FALSE
         /\ n.onStatus = <<>> /\ n.dones = r.dones + 1
         /\ n.globals = r.globals /\ n.wire = r.wire
<1>1. PICK a, s, g, t, ti, w, k, o, d :
        r = [asked |-> a, state |-> s, globals |-> g, transport |-> t, timer |-> ti, wire |-> w,
             known |-> k, onStatus |-> o, dones |-> d]
  BY DEF RequestShape
<1>2. n = [asked |-> a, state |-> 2, globals |-> g, transport |-> FALSE, timer |-> FALSE, wire |-> w,
           known |-> k, onStatus |-> <<>>, dones |-> d + 1]
  BY <1>1 DEF DoneRequest
<1>3. RequestShape(n)
  BY <1>2 DEF RequestShape
<1>4. n.state = 2 /\ n.timer = FALSE /\ n.transport = FALSE /\ n.onStatus = <<>>
  BY <1>2
<1>5. n.dones = r.dones + 1 /\ n.globals = r.globals /\ n.wire = r.wire
  BY <1>1, <1>2
<1> QED
  BY <1>3, <1>4, <1>5

LEMMA IdleNone == Idle(<<>>)
BY StackEmpty DEF Idle

\* done runs: what was waiting is not any more, and `inactive' is left to do.
LEMMA DoneMoves ==
  ASSUME NEW r, Basic(r), r.state # 2, NEW n, n = DoneRequest(r), NEW w, NEW x, x[3] = "inactive",
         NEW v, v = w \union {x}
  PROVE  /\ Basic(n) /\ n.state = 2 /\ n.dones = r.dones + 1 /\ (n.globals <=> r.globals)
         /\ Way(r, w) /\ ~r.wire => OneWay(n, v) /\ (Counts(n, v) <=> r.globals)
<1>1. /\ RequestShape(n) /\ n.state = 2 /\ ~n.timer /\ ~n.transport
      /\ n.onStatus = <<>> /\ n.dones = r.dones + 1
      /\ (n.globals <=> r.globals) /\ (n.wire <=> r.wire)
  BY ZenonT(40), DoneFields DEF Basic
<1>2. Basic(n)
  BY <1>1, IdleNone DEF Basic
<1>3. ASSUME Way(r, w), ~r.wire
      PROVE  OneWay(n, v) /\ (Counts(n, v) <=> r.globals)
  <2>1. "inactive" \notin SendOps
    BY DEF SendOps
  <2>2. Left(v, SendOps) <=> Left(w, SendOps)
    BY <2>1 DEF Left
  <2>3. Left(v, {"globals"}) <=> Left(w, {"globals"})
    BY DEF Left
  <2>4. Left(v, {"inactive"}) /\ ~Left(w, {"inactive"})
    BY <1>3 DEF Left, Way
  <2>5. \A y, z \in v : y[3] \in SendOps /\ z[3] \in SendOps => y = z
    BY <1>3, <2>1 DEF Way
  <2>6. \A y, z \in v : y[3] = "inactive" /\ z[3] = "inactive" => y = z
    BY <2>4 DEF Left
  <2>7. Way(n, v)
    BY <1>1, <1>3, <2>2, <2>3, <2>4, <2>5, <2>6 DEF Way
  <2>8. OneWay(n, v)
    BY <1>1, <2>7 DEF OneWay
  <2>9. Counts(n, v) <=> r.globals
    BY <1>1, <2>4 DEF Counts
  <2> QED
    BY <2>8, <2>9
<1> QED
  BY <1>1, <1>2, <1>3

LEMMA IdleOne ==
  ASSUME NEW x, x.op \notin RequestOps
  PROVE  Idle(<<x>>)
BY StackOne DEF Idle

LEMMA IdleConcat ==
  ASSUME NEW s, Idle(s), NEW t, Idle(t)
  PROVE  Idle(s \o t)
<1>1. PICK r : r = s \o t
  OBVIOUS
<1>2. /\ Stack(r) /\ Len(r) = Len(s) + Len(t) /\ Len(s) \in Nat /\ Len(t) \in Nat
      /\ \A i \in 1..Len(s) : r[i] = s[i]
  BY <1>1, StackConcat, StackLen DEF Idle
<1>3. \A i \in Len(s) + 1..Len(s) + Len(t) : r[i] = t[i - Len(s)]
  BY <1>1, StackConcat DEF Idle
<1>4. ASSUME NEW i \in 1..Len(r) PROVE r[i].op \notin RequestOps
  <2>1. CASE i \in 1..Len(s)
    BY <1>2, <2>1 DEF Idle
  <2>2. CASE i \notin 1..Len(s)
    <3>1. i \in Len(s) + 1..Len(s) + Len(t) /\ i - Len(s) \in 1..Len(t)
      BY <1>2, <2>2
    <3> QED
      BY <1>3, <3>1 DEF Idle
  <2> QED
    BY <2>1, <2>2
<1> QED
  BY <1>1, <1>2, <1>4 DEF Idle

\* What done calls ends with `inactive'.
LEMMA DoneCallsEnd ==
  ASSUME NEW q, NEW r, Idle(r.onStatus), NEW status
  PROVE  EndsWith(DoneCalls(q, r, status), q, "inactive")
<1> DEFINE Global(e) == IF r.globals THEN <<TriggerCall(e)>> ELSE <<>>
<1>1. PICK a : a = IF status = "success" THEN "done" ELSE "fail"
  OBVIOUS
<1>2. PICK e : e = IF a = "done" THEN "ajaxSuccess" ELSE "ajaxError"
  OBVIOUS
<1>3. PICK f : f = "ajaxComplete"
  OBVIOUS
<1>4. PICK k, op : k = "complete" /\ op = "inactive"
  OBVIOUS
<1>5. ASSUME NEW x PROVE Idle(Global(x))
  BY IdleOne, IdleNone DEF TriggerCall, RequestOps
<1>6. ASSUME NEW l PROVE Idle(<<FireCall(l, status)>>)
  BY IdleOne DEF FireCall, RequestOps
<1>7. DoneCalls(q, r, status) =
        (<<FireCall(<<q, a>>, status)>> \o r.onStatus \o Global(e) \o <<FireCall(<<q, k>>, status)>>
          \o Global(f)) \o <<RequestCall(op, q)>>
  BY <1>1, <1>2, <1>3, <1>4 DEF DoneCalls
<1>8. PICK s : s = <<FireCall(<<q, a>>, status)>> \o r.onStatus \o Global(e) \o <<FireCall(<<q, k>>, status)>>
                     \o Global(f)
  OBVIOUS
<1> HIDE DEF Global
<1>9. Idle(s)
  BY <1>5, <1>6, <1>8, IdleConcat
<1>10. op \in RequestOps
  BY <1>4 DEF RequestOps
<1>11. EndsWith(s \o <<RequestCall(op, q)>>, q, op)
  BY <1>9, <1>10, LastCall
<1>12. DoneCalls(q, r, status) = s \o <<RequestCall(op, q)>>
  BY <1>7, <1>8
<1> QED
  BY <1>4, <1>11, <1>12

-----------------------------------------------------------------------------
(***************************************************************************)
(* Steps that are none of a request leave all that is left to do.          *)
(***************************************************************************)
SameWork(s) == Stack(s) /\ \A q : Work(s, q) = Work(run, q)

LEMMA SameRun == Inv => SameWork(run)
BY DEF SameWork, Inv, StackOK, Frames

\* Frames change, but no row of calls.
LEMMA SameRows ==
  ASSUME Stack(run), NEW s, Stack(s), Len(s) = Len(run),
         \A i \in 1..Len(run) : s[i].f = run[i].f,
         \A i \in 1..Len(run) : run[i].f = "todo" => s[i].todo = run[i].todo
  PROVE  SameWork(s)
<1>1. \A i \in Nat : (i \in 1..Len(run) /\ run[i].f = "todo") <=> (i \in 1..Len(s) /\ s[i].f = "todo")
  OBVIOUS
<1> QED
  BY <1>1, WorkByRows DEF SameWork

LEMMA SameBelow ==
  ASSUME Inv, TopIs("fn") \/ TopIs("fire")
  PROVE  SameWork(Below)
<1>1. Stack(run) /\ run # <<>> /\ run[Len(run)].f # "todo"
  BY DEF Inv, StackOK, Frames, TopIs, Top
<1>2. Stack(Front(run))
  BY <1>1, StackPop
<1> QED
  BY <1>1, <1>2, WorkPopped DEF SameWork, Below

LEMMA SameGoto ==
  ASSUME Inv, TopIs("fire"), NEW pc
  PROVE  SameWork(Goto(pc))
<1>1. PICK n, s : n = Len(run) /\ s = Goto(pc)
  OBVIOUS
<1>2. /\ n \in Nat \ {0} /\ Stack(s) /\ Len(s) = n
      /\ s[n] = [f |-> "fire", l |-> Top.l, v |-> Top.v, pc |-> pc]
      /\ \A i \in 1..n - 1 : s[i] = run[i]
  BY <1>1, RestsCalling DEF Inv
<1>3. s[n].f = "fire" /\ run[n].f = "fire"
  BY <1>1, <1>2 DEF TopIs, Top
<1>4. \A i \in 1..n : i = n \/ i \in 1..n - 1
  BY <1>2
<1>5. Stack(run)
  BY DEF Inv, StackOK, Frames
<1>6. \A i \in 1..n : s[i].f = run[i].f
  BY <1>2, <1>3, <1>4
<1>7. \A i \in 1..n : run[i].f = "todo" => s[i].todo = run[i].todo
  BY <1>2, <1>3, <1>4
<1> QED
  BY <1>1, <1>2, <1>5, <1>6, <1>7, SameRows

\* The loop below a function is stopped.
LEMMA SameStopped ==
  ASSUME Inv, TopIs("fn")
  PROVE  SameWork([Below EXCEPT ![Len(Below)].pc = "stop"])
<1>1. PICK b, n : b = Below /\ n = Len(b)
  OBVIOUS
<1>2. SameWork(b)
  BY <1>1, SameBelow
<1>3. Frames(b, DOMAIN cb)
  BY <1>1, RestsBelow DEF Inv, Rests
<1>4. PICK x, s : x = [b[n] EXCEPT !.pc = "stop"] /\ s = [b EXCEPT ![n] = x]
  OBVIOUS
<1>5. /\ Stack(s) /\ Len(s) = n
      /\ n \in 1..n => s[n] = x
      /\ \A i \in 1..n : i # n => s[i] = b[i]
  <2>1. Stack(b)
    BY <1>2 DEF SameWork
  <2>2. Stack(s)
    BY <1>4, <2>1, StackExcept
  <2>3. Len(s) = Len(b)
    BY <1>4, <2>1, StackExcept
  <2>4. \A i \in 1..Len(b) : i # n => s[i] = b[i]
    BY <1>4, <2>1, StackExcept
  <2>5. n \in 1..Len(b) => s[n] = x
    BY <1>4, <2>1, StackExcept
  <2> QED
    BY <1>1, <2>2, <2>3, <2>4, <2>5
<1>6. n \in 1..n => x.f = b[n].f /\ (b[n].f = "todo" => x.todo = b[n].todo)
  <2>1. CASE n \in 1..n /\ IsFire(b[n], DOMAIN cb)
    <3>1. PICK u, v, w : b[n] = [f |-> "fire", l |-> u, v |-> v, pc |-> w]
      BY <2>1 DEF IsFire
    <3> QED
      BY <1>4, <3>1
  <2>2. CASE n \in 1..n /\ IsFn(b[n], DOMAIN cb)
    <3>1. PICK t, u, v, w : b[n] = [f |-> "fn", fn |-> t, l |-> u, v |-> v, to |-> w]
      BY <2>2 DEF IsFn
    <3> QED
      BY <1>4, <3>1
  <2>3. CASE n \in 1..n /\ IsTodo(b[n], DOMAIN cb)
    <3>1. PICK u : b[n] = [f |-> "todo", todo |-> u]
      BY <2>3 DEF IsTodo
    <3> QED
      BY <1>4, <3>1
  <2> QED
    BY <1>1, <1>3, <2>1, <2>2, <2>3 DEF Frames
<1>7. \A i \in 1..n : s[i].f = b[i].f /\ (b[i].f = "todo" => s[i].todo = b[i].todo)
  BY <1>5, <1>6
<1>8. \A i \in Nat : (i \in 1..Len(b) /\ b[i].f = "todo") <=> (i \in 1..Len(s) /\ s[i].f = "todo")
  BY <1>1, <1>5, <1>7
<1>9. Stack(b) /\ \A i \in 1..Len(b) : b[i].f = "todo" => s[i].todo = b[i].todo
  BY <1>1, <1>2, <1>7 DEF SameWork
<1>10. \A q : Work(s, q) = Work(b, q)
  BY <1>5, <1>8, <1>9, WorkByRows
<1>11. SameWork(s)
  BY <1>2, <1>5, <1>10 DEF SameWork
<1> QED
  BY <1>1, <1>4, <1>11

LEMMA SameAfter ==
  ASSUME Inv, NEW op, op \notin RequestOps, CallIs(op)
  PROVE  SameWork(AfterCall)
BY WorkAfter DEF SameWork

LEMMA SamePush ==
  ASSUME NEW s, SameWork(s), NEW x, x.f # "todo"
  PROVE  SameWork(Append(s, x))
BY StackPush, WorkPushed DEF SameWork

LEMMA SameHandler ==
  ASSUME NEW s, SameWork(s)
  PROVE  /\ \A fn : SameWork(s \o Handler(fn))
         /\ \A e : SameWork(s \o Triggered(e))
         /\ SameWork(s \o <<>>)
BY WorkHandler, WorkTriggered, NoFrame DEF SameWork

LEMMA SameTodo ==
  ASSUME NEW s, SameWork(s), NEW t, Idle(t)
  PROVE  SameWork(s \o Todo(t))
<1>1. Stack(s) /\ Stack(t) /\ \A q : CallsOf(t, q) = {} /\ Work(s, q) = Work(run, q)
  BY IdleNoCalls DEF Idle, SameWork
<1>2. ASSUME NEW q PROVE Stack(s \o Todo(t)) /\ Work(s \o Todo(t), q) = Work(run, q)
  <2>1. /\ Stack(s \o Todo(t))
        /\ Work(s \o Todo(t), q) = Work(s, q) \union {<<Len(s) + 1, w[1], w[2]>> : w \in CallsOf(t, q)}
    BY <1>1, WorkTodo
  <2> QED
    BY <1>1, <2>1
<1> QED
  BY <1>2 DEF SameWork

LEMMA SameFire ==
  ASSUME NEW s, SameWork(s), NEW l, NEW v, FireThen(l, v, s)
  PROVE  SameWork(run')
<1>1. PICK x : x = FireFrame(l, v)
  OBVIOUS
<1>2. x.f # "todo"
  BY <1>1 DEF FireFrame
<1>3. run' = Append(s, x) \/ run' = s
  BY <1>1 DEF FireThen
<1> QED
  BY <1>2, <1>3, SamePush

LEMMA SameAdd ==
  ASSUME NEW s, SameWork(s), NEW l, NEW c, AddThen(l, c, s)
  PROVE  SameWork(run')
<1>1. PICK x : x = FireFrame(l, cb[l].memory)
  OBVIOUS
<1>2. x.f # "todo"
  BY <1>1 DEF FireFrame
<1>3. run' = Append(s, x) \/ run' = s
  BY <1>1 DEF AddThen
<1> QED
  BY <1>2, <1>3, SamePush

LEMMA IdleTwo ==
  ASSUME NEW x, NEW y, x.op \notin RequestOps, y.op \notin RequestOps
  PROVE  Idle(<<x, y>>)
<1>1. <<x, y>> \in Seq({x, y})
  OBVIOUS
<1>2. PICK s : s = <<x, y>>
  OBVIOUS
<1>3. Stack(s) /\ Len(s) = 2 /\ s[1] = x /\ s[2] = y
  BY <1>1, <1>2, SeqIsStack
<1> QED
  BY <1>2, <1>3 DEF Idle

LEMMA IdleThree ==
  ASSUME NEW x, NEW y, NEW z, x.op \notin RequestOps, y.op \notin RequestOps, z.op \notin RequestOps
  PROVE  Idle(<<x, y, z>>)
<1>1. <<x, y, z>> \in Seq({x, y, z})
  OBVIOUS
<1>2. PICK s : s = <<x, y, z>>
  OBVIOUS
<1>3. Stack(s) /\ Len(s) = 3 /\ s[1] = x /\ s[2] = y /\ s[3] = z
  BY <1>1, <1>2, SeqIsStack
<1> QED
  BY <1>2, <1>3 DEF Idle

LEMMA IdleCalls ==
  /\ \A l, c : AddCall(l, c).op \notin RequestOps
  /\ \A l, v : FireCall(l, v).op \notin RequestOps
  /\ \A m : LeaveCall(m).op \notin RequestOps /\ WaitlessCall(m).op \notin RequestOps
  /\ \A e : TriggerCall(e).op \notin RequestOps
  /\ EventCall.op \notin RequestOps /\ OffCall.op \notin RequestOps
BY DEF AddCall, FireCall, LeaveCall, WaitlessCall, TriggerCall, EventCall, OffCall, RequestOps

\* A step of no request: unless a callback throws, all is left as it was.
Neutral == UNCHANGED req /\ (threw' \/ (SameWork(run') /\ UNCHANGED <<threw, active>>))

LEMMA ListStepNeutral ==
  ASSUME Inv, ListStep
  PROVE  Neutral
<1>1. UNCHANGED <<req, active>>
  BY DEF ListStep
<1>2. CASE ReturnFalse
  BY <1>1, <1>2, SameStopped DEF ReturnFalse, Neutral
<1>3. CASE Return
  BY <1>1, <1>3, SameBelow DEF Return, Neutral
<1>4. CASE NextInLoop
  <2>1. PICK pc : pc = "next" /\ run' = Goto(pc)
    BY <1>4 DEF NextInLoop
  <2>2. TopIs("fire") /\ threw' = threw
    BY <1>4 DEF NextInLoop
  <2> QED
    BY <1>1, <2>1, <2>2, SameGoto DEF Neutral
<1>5. CASE EndLoop
  <2>1. SameWork(Below)
    BY <1>5, SameBelow DEF EndLoop
  <2>2. PICK x : x = FireFrame(Top.l, Head(cb[Top.l].stack))
    OBVIOUS
  <2>3. x.f # "todo"
    BY <2>2 DEF FireFrame
  <2>4. threw' = threw /\ (run' = Append(Below, x) \/ run' = Below)
    BY <1>5, <2>2 DEF EndLoop
  <2> QED
    BY <1>1, <2>1, <2>3, <2>4, SamePush DEF Neutral
<1>6. CASE Throw
  BY <1>1, <1>6 DEF Throw, Neutral
<1>7. CASE ListCalls(OwnList)
  <2>1. threw' = threw
    BY <1>7 DEF ListCalls, Add, Fire, RemoveFn, Empty, Disable, Lock, Change, Spend
  <2>2. \/ run' = run
        \/ \E c : AddThen(OwnList, c, run)
        \/ \E v : FireThen(OwnList, v, run)
    BY <1>7 DEF ListCalls, Add, Fire, RemoveFn, Empty, Disable, Lock, Change
  <2>3. SameWork(run')
    BY <2>2, SameRun, SameAdd, SameFire
  <2> QED
    BY <1>1, <2>1, <2>3 DEF Neutral
<1> QED
  BY <1>2, <1>3, <1>4, <1>5, <1>6, <1>7 DEF ListStep

LEMMA DeferredStepsNeutral ==
  ASSUME Inv, DeferredSteps, UNCHANGED <<req, active>>
  PROVE  Neutral
<1> PICK pc : pc = "calling"
  OBVIOUS
<1>1. threw' = threw
  BY DEF DeferredSteps, CallState, CallDisable, CallLock, CallSettle, CallThen, CallUpdate, CallPage, CallFn,
     ReturnValue, ReturnPromise, DoAdd, DoFire, DoLeave, DoWaitless
<1> SUFFICES SameWork(run')
  BY <1>1 DEF Neutral
<1>2. ASSUME NEW k, Calling(k) PROVE SameWork(Goto(pc))
  BY <1>2, SameGoto DEF Calling
<1>3. ASSUME NEW fn, NEW l, NEW v, NEW to PROVE FnFrame(fn, l, v, to).f # "todo"
  BY DEF FnFrame
<1>4. CASE CallState \/ CallDisable \/ CallLock
  <2>1. run' = Goto(pc) /\ \E k : Calling(k)
    BY <1>4 DEF CallState, CallDisable, CallLock
  <2> QED
    BY <1>2, <2>1
<1>5. CASE CallSettle \/ CallUpdate
  <2>1. /\ \E k : Calling(k)
        /\ run' = Goto(pc) \/ \E l, v : FireThen(l, v, Goto(pc))
    BY <1>5 DEF CallSettle, CallUpdate
  <2> QED
    BY <1>2, <2>1, SameFire
<1>6. CASE CallThen \/ CallPage
  <2>1. /\ \E k : Calling(k)
        /\ \E fn, l, v, to : run' = Append(Goto(pc), FnFrame(fn, l, v, to))
    BY <1>6 DEF CallThen, CallPage, CallFn
  <2> QED
    BY <1>2, <1>3, <2>1, SamePush
<1>7. CASE ReturnValue
  BY <1>7, SameBelow, SameFire DEF ReturnValue
<1>8. CASE ReturnPromise
  <2>1. TopIs("fn")
    BY <1>8 DEF ReturnPromise
  <2>2. PICK p, n : run' = Below \o Todo(<<AddCall(<<p, "done">>, SettleWith(<<n, "done">>)),
                                         AddCall(<<p, "fail">>, SettleWith(<<n, "fail">>)),
                                         AddCall(<<p, "progress">>, SettleWith(<<n, "progress">>))>>)
    BY <1>8 DEF ReturnPromise
  <2>3. PICK x, y, z : /\ x = AddCall(<<p, "done">>, SettleWith(<<n, "done">>))
                       /\ y = AddCall(<<p, "fail">>, SettleWith(<<n, "fail">>))
                       /\ z = AddCall(<<p, "progress">>, SettleWith(<<n, "progress">>))
    OBVIOUS
  <2>4. Idle(<<x, y, z>>)
    BY <2>3, IdleCalls, IdleThree
  <2>5. run' = Below \o Todo(<<x, y, z>>)
    BY <2>2, <2>3
  <2> QED
    BY <2>1, <2>4, <2>5, SameBelow, SameTodo
<1>9. ASSUME NEW op, op \in {"add", "fire", "leave", "waitless"}, CallIs(op)
      PROVE  SameWork(AfterCall)
  BY <1>9, SameAfter DEF RequestOps
<1>10. CASE DoAdd
  BY <1>9, <1>10, SameAdd DEF DoAdd
<1>11. CASE DoFire
  BY <1>9, <1>11, SameFire DEF DoFire
<1>12. CASE DoLeave
  BY <1>9, <1>12 DEF DoLeave
<1>13. CASE DoWaitless
  <2>1. CallIs("waitless") /\ (run' = AfterCall \/ \E l, v : FireThen(l, v, AfterCall))
    BY <1>13 DEF DoWaitless
  <2> QED
    BY <1>9, <2>1, SameFire
<1> QED
  BY <1>4, <1>5, <1>6, <1>7, <1>8, <1>10, <1>11, <1>12, <1>13 DEF DeferredSteps

LEMMA SubordinateIdle ==
  ASSUME NEW m, NEW i, NEW x
  PROVE  Idle(Subordinate(m, i, x))
<1>1. PICK a, b, c : /\ a = AddCall(<<x, "done">>, Update(m, i, "done"))
                     /\ b = AddCall(<<x, "fail">>, SettleWith(<<m, "fail">>))
                     /\ c = AddCall(<<x, "progress">>, Update(m, i, "progress"))
  OBVIOUS
<1>2. Idle(<<a, b, c>>)
  BY <1>1, IdleCalls, IdleThree
<1>3. Idle(<<LeaveCall(m)>>)
  BY IdleCalls, IdleOne
<1>4. Subordinate(m, i, x) = <<a, b, c>> \/ Subordinate(m, i, x) = <<LeaveCall(m)>>
  BY <1>1 DEF Subordinate
<1> QED
  BY <1>2, <1>3, <1>4

LEMMA DeferredCallsNeutral ==
  ASSUME Inv, DeferredCalls, UNCHANGED <<req, active>>
  PROVE  Neutral
<1>1. threw' = threw
  BY DEF DeferredCalls, MakeDeferred, Settle, Listen, Then, When, Spend
<1> SUFFICES SameWork(run')
  BY <1>1 DEF Neutral
<1>2. CASE run' = run \/ (\E l, v : FireThen(l, v, run)) \/ (\E l, c : AddThen(l, c, run))
  BY <1>2, SameRun, SameFire, SameAdd
<1>3. ASSUME NEW d, NEW n, NEW f, NEW g, Then(d, n, f, g)
      PROVE  SameWork(run')
  <2>1. PICK x, y, z : /\ x = AddCall(<<d, "done">>, ThenTo(<<n, "done">>, f))
                       /\ y = AddCall(<<d, "fail">>, ThenTo(<<n, "fail">>, g))
                       /\ z = AddCall(<<d, "progress">>, ThenTo(<<n, "progress">>, Nothing))
    OBVIOUS
  <2>2. Idle(<<x, y, z>>)
    BY <2>1, IdleCalls, IdleThree
  <2>3. run' = run \o Todo(<<x, y, z>>)
    BY <1>3, <2>1 DEF Then
  <2> QED
    BY <2>2, <2>3, SameRun, SameTodo
<1>4. ASSUME NEW m, NEW xs, When(m, xs)
      PROVE  SameWork(run')
  <2>1. PICK s : s = Subordinate(m, 1, xs[1]) \o Subordinate(m, 2, xs[2]) \o <<WaitlessCall(m)>>
    OBVIOUS
  <2>2. Idle(s)
    BY <2>1, SubordinateIdle, IdleCalls, IdleOne, IdleConcat
  <2>3. run' = run \o Todo(s)
    BY <1>4, <2>1 DEF When
  <2> QED
    BY <2>2, <2>3, SameRun, SameTodo
<1>5. \/ run' = run \/ (\E l, v : FireThen(l, v, run)) \/ (\E l, c : AddThen(l, c, run))
      \/ \E d, n, f, g : Then(d, n, f, g)
      \/ \E m, xs : When(m, xs)
  BY DEF DeferredCalls, MakeDeferred, Settle, Listen
<1> QED
  BY <1>2, <1>3, <1>4, <1>5

LEMMA ReadyNeutral ==
  ASSUME Inv, ReadySteps \/ ReadyCalls \/ Load \/ Timer
  PROVE  Neutral
<1>1. UNCHANGED <<req, active>>
  BY DEF ReadySteps, DoReadyEvent, DoOff, ReadyCalls, AskReady, Hold, Release, Load, Timer, restOfAjax
<1>2. SameWork(run)
  BY SameRun
<1>3. ASSUME Resolve(run) PROVE Neutral
  <2>1. CASE Made(ReadyList)
    <3>1. PICK x, y : x = FireCall(<<ReadyList, "done">>, "ready") /\ y = EventCall
      OBVIOUS
    <3>2. Idle(<<x, y>>)
      BY <3>1, IdleCalls, IdleTwo
    <3>3. run' = run \o Todo(<<x, y>>) /\ threw' = threw
      BY <1>3, <2>1, <3>1 DEF Resolve
    <3> QED
      BY <1>1, <1>2, <3>2, <3>3, SameTodo DEF Neutral
  <2>2. CASE ~Made(ReadyList)
    BY <1>1, <1>3, <2>2 DEF Resolve, Neutral
  <2> QED
    BY <2>1, <2>2
<1>4. CASE run' = run /\ threw' = threw
  BY <1>1, <1>2, <1>4 DEF Neutral
<1>5. CASE Load \/ Timer
  BY <1>3, <1>4, <1>5 DEF Load, Timer, ReadyNow
<1>6. CASE Hold \/ Release
  BY <1>3, <1>4, <1>6 DEF Hold, Release, ReadyReleased, Spend
<1>7. ASSUME NEW fn, AskReady(fn) PROVE Neutral
  <2>1. PICK x : x = AddCall(<<ReadyList, "done">>, OfPage(fn))
    OBVIOUS
  <2>2. Idle(<<x>>)
    BY <2>1, IdleCalls, IdleOne
  <2>3. run' = run \o Todo(<<x>>) /\ threw' = threw
    BY <1>7, <2>1 DEF AskReady, Spend
  <2> QED
    BY <1>1, <1>2, <2>2, <2>3, SameTodo DEF Neutral
<1>8. ASSUME NEW op, op \in {"ready", "off"}, CallIs(op)
      PROVE  SameWork(AfterCall)
  BY <1>8, SameAfter DEF RequestOps
<1>9. CASE DoReadyEvent
  <2>1. SameWork(AfterCall)
    BY <1>8, <1>9 DEF DoReadyEvent
  <2>2. Idle(<<OffCall>>)
    BY IdleCalls, IdleOne
  <2>3. PICK s : s = AfterCall \o Todo(<<OffCall>>)
    OBVIOUS
  <2>4. SameWork(s)
    BY <2>1, <2>2, <2>3, SameTodo
  <2>5. (run' = s \o Handler("onready") \/ run' = s \o <<>>) /\ threw' = threw
    BY <1>9, <2>3 DEF DoReadyEvent
  <2> QED
    BY <1>1, <2>4, <2>5, SameHandler DEF Neutral
<1>10. CASE DoOff
  BY <1>1, <1>8, <1>10 DEF DoOff, Neutral
<1> QED
  BY <1>5, <1>6, <1>7, <1>9, <1>10 DEF ReadySteps, ReadyCalls

\* Of the steps of requests, these are none of one.
LEMMA AjaxNeutral ==
  ASSUME Inv, DoTrigger \/ \E q, a, fn : ListenTo(q, a, fn)
  PROVE  Neutral
<1>1. CASE DoTrigger
  <2>1. PICK op : op = "trigger"
    OBVIOUS
  <2>2. op \notin RequestOps /\ CallIs(op)
    BY <1>1, <2>1 DEF DoTrigger, RequestOps
  <2>3. SameWork(AfterCall)
    BY <2>2, SameAfter
  <2>4. run' = AfterCall \o Triggered(Call.e) /\ UNCHANGED <<threw, req, active>>
    BY <1>1 DEF DoTrigger
  <2> QED
    BY <2>3, <2>4, SameHandler DEF Neutral
<1>2. ASSUME NEW q, NEW a, NEW fn, ListenTo(q, a, fn) PROVE Neutral
  <2>1. PICK x : x = AddCall(<<q, a>>, OfPage(fn))
    OBVIOUS
  <2>2. Idle(<<x>>)
    BY <2>1, IdleCalls, IdleOne
  <2>3. run' = run \o Todo(<<x>>) /\ UNCHANGED <<threw, req, active>>
    BY <1>2, <2>1 DEF ListenTo, Spend
  <2> QED
    BY <2>2, <2>3, SameRun, SameTodo DEF Neutral
<1> QED
  BY <1>1, <1>2

LEMMA MadeStays ==
  ASSUME Inv, Next, NEW d \in DefId, Made(d)
  PROVE  Made(d)'
<1>1. DOMAIN state = DefId
  BY DEF Inv, PageOK
<1>2. CASE UNCHANGED state
  BY <1>2 DEF Made
<1>3. ASSUME NEW e, NEW s, s # "none", state' = [state EXCEPT ![e] = s] PROVE Made(d)'
  BY <1>1, <1>3 DEF Made
<1>4. CASE CallState
  <2>1. PICK k : k = "state" /\ Calling(k) /\ state' = [state EXCEPT ![Callback.d] = Callback.s]
    BY <1>4 DEF CallState
  <2>2. PICK e \in DefId, a \in Settling : Callback = SetState(e, a)
    BY <2>1, FirstCallback
  <2>3. Callback.s # "none"
    BY <2>2 DEF SetState, StateOf
  <2> QED
    BY <1>3, <2>1, <2>3
<1>5. CASE \E e : WithNew(e)
  BY <1>3, <1>5 DEF WithNew
<1>6. CASE \E q, s : Ajax(q, s)
  BY Zenon, <1>3, <1>6 DEF Ajax
<1>7. CASE ListStep \/ AjaxSteps \/ ReadySteps \/ Load \/ Timer
  BY Zenon, <1>2, <1>7 DEF ListStep, AjaxSteps, DoInactive, DoTrigger, DoGlobals, DoBeforeSend, DoInstall,
     DoTransport, DoSend, ReadySteps, DoReadyEvent, DoOff, Load, Timer
<1>8. CASE DeferredSteps
  BY <1>2, <1>4, <1>8 DEF DeferredSteps, CallDisable, CallLock, CallSettle, CallThen, CallUpdate, CallPage,
     ReturnValue, ReturnPromise, DoAdd, DoFire, DoLeave, DoWaitless
<1>9. CASE DeferredCalls
  BY <1>2, <1>5, <1>9 DEF DeferredCalls, MakeDeferred, Settle, Listen, Then, When
<1>10. CASE ReadyCalls
  BY <1>2, <1>5, <1>10 DEF ReadyCalls, AskReady, Hold, Release
<1>11. CASE AjaxCalls \/ \E q \in ReqId : Answer(q) \/ Timeout(q)
  BY <1>2, <1>6, <1>11 DEF AjaxCalls, Answer, Timeout, AbortRequest, StatusCode, ListenTo
<1> QED
  BY <1>7, <1>8, <1>9, <1>10, <1>11 DEF Next, DeferredStep, AjaxStep

-----------------------------------------------------------------------------
(***************************************************************************)
(* The count.                                                              *)
(***************************************************************************)
Counted == {q \in ReqId : Counts(req[q], Work(run, q))}

RightCount ==
  /\ \A q \in ReqId : OneWay(req[q], Work(run, q))
  /\ IsFiniteSet(Counted) /\ active = Cardinality(Counted)

CountInv ==
  /\ \A q \in ReqId : Basic(req[q]) /\ (~Made(q) => Unused(req[q]))
  /\ DoneOnce /\ ~threw => RightCount

LEMMA NeutralCount ==
  ASSUME CountInv, Neutral, \A q \in ReqId : Made(q) => Made(q)'
  PROVE  CountInv'
<1>1. UNCHANGED req
  BY DEF Neutral
<1>2. \A q \in ReqId : Basic(req'[q]) /\ (~Made(q)' => Unused(req'[q]))
  BY <1>1 DEF CountInv
<1>3. CASE threw'
  BY <1>2, <1>3 DEF CountInv
<1>4. CASE ~threw'
  <2>1. /\ \A q \in ReqId : Work(run', q) = Work(run, q)
        /\ UNCHANGED <<threw, active>>
    BY <1>4 DEF Neutral, SameWork
  <2>2. Counted' = Counted
    BY <1>1, <2>1 DEF Counted
  <2>3. RightCount => RightCount'
    BY <1>1, <2>1, <2>2 DEF RightCount
  <2> QED
    BY <1>1, <1>2, <2>1, <2>3 DEF CountInv, DoneOnce
<1> QED
  BY <1>3, <1>4

\* The closure of q is n, and no other changes.
Changes(q, n) == req'[q] = n /\ \A p \in ReqId : p # q => req'[p] = req[p]

LEMMA ChangesOne ==
  ASSUME Inv, NEW q \in ReqId
  PROVE  /\ \A n : req' = [req EXCEPT ![q] = n] => Changes(q, n)
         /\ req' = req => Changes(q, req[q])
BY DEF Changes, Inv, PageOK

\* A step of one request q.
LEMMA OneRequest ==
  ASSUME CountInv, NEW q \in ReqId, NEW n, Changes(q, n), threw' = threw,
         \A p \in ReqId : Made(p) => Made(p)', Made(q)',
         \A p \in ReqId : p # q => Work(run', p) = Work(run, p),
         Basic(n), FreshOne(n) => FreshOne(req[q]),
         FreshOne(n) /\ OneWay(req[q], Work(run, q)) =>
           /\ OneWay(n, Work(run', q))
           /\ \/ (Counts(n, Work(run', q)) <=> Counts(req[q], Work(run, q))) /\ active' = active
              \/ /\ Counts(n, Work(run', q)) /\ ~Counts(req[q], Work(run, q)) /\ active' = active + 1
              \/ /\ ~Counts(n, Work(run', q)) /\ Counts(req[q], Work(run, q)) /\ active' = active - 1
  PROVE  CountInv'
<1>2. req'[q] = n /\ \A p \in ReqId : p # q => req'[p] = req[p]
  BY DEF Changes
<1>3. \A p \in ReqId : Basic(req'[p]) /\ (~Made(p)' => Unused(req'[p]))
  BY <1>2 DEF CountInv
<1>4. ASSUME DoneOnce', ~threw' PROVE RightCount'
  <2>1. FreshOne(n)
    BY <1>2, <1>4 DEF DoneOnce, FreshOne
  <2>2. DoneOnce
    BY <1>2, <1>4, <2>1 DEF DoneOnce, FreshOne
  <2>3. RightCount
    BY <1>4, <2>2 DEF CountInv
  <2>4. OneWay(req[q], Work(run, q))
    BY <2>3 DEF RightCount
  <2>5. \A p \in ReqId : OneWay(req'[p], Work(run', p))
    BY <1>2, <2>1, <2>3, <2>4 DEF RightCount
  <2>6. /\ q \in Counted <=> Counts(req[q], Work(run, q))
        /\ q \in Counted' <=> Counts(n, Work(run', q))
        /\ \A p : p # q => (p \in Counted <=> p \in Counted')
    BY <1>2 DEF Counted
  <2>7. CASE (q \in Counted <=> q \in Counted') /\ active' = active
    <3>1. Counted' = Counted
      BY <2>6, <2>7
    <3> QED
      BY <2>3, <2>5, <2>7, <3>1 DEF RightCount
  <2>8. CASE q \notin Counted /\ q \in Counted' /\ active' = active + 1
    <3>1. Counted' = Counted \union {q}
      BY <2>6, <2>8
    <3>2. IsFiniteSet(Counted') /\ Cardinality(Counted') = Cardinality(Counted) + 1
      BY <2>3, <2>8, <3>1, FS_AddElement DEF RightCount
    <3> QED
      BY <2>3, <2>5, <2>8, <3>2 DEF RightCount
  <2>9. CASE q \in Counted /\ q \notin Counted' /\ active' = active - 1
    <3>1. Counted' = Counted \ {q}
      BY <2>6, <2>9
    <3>2. IsFiniteSet(Counted') /\ Cardinality(Counted') = Cardinality(Counted) - 1
      BY <2>3, <2>9, <3>1, FS_RemoveElement DEF RightCount
    <3> QED
      BY <2>3, <2>5, <2>9, <3>2 DEF RightCount
  <2> QED
    BY <2>1, <2>4, <2>6, <2>7, <2>8, <2>9
<1> QED
  BY <1>3, <1>4 DEF CountInv

-----------------------------------------------------------------------------
(***************************************************************************)
(* What is left, after a step.                                             *)
(***************************************************************************)

LEMMA WayLess ==
  ASSUME NEW r, NEW w, Way(r, w), NEW v, v \subseteq w
  PROVE  Way(r, v)
<1>1. \A ops : Left(v, ops) => Left(w, ops)
  BY DEF Left
<1>2. \A x, y \in v : x[3] \in SendOps /\ y[3] \in SendOps => x = y
  BY DEF Way
<1>3. \A x, y \in v : x[3] = "inactive" /\ y[3] = "inactive" => x = y
  BY DEF Way
<1> QED
  BY <1>1, <1>2, <1>3 DEF Way

\* The one step on the way to send was made ...
LEMMA StepMade ==
  ASSUME NEW r, NEW w, Way(r, w), NEW h \in w, h[3] \in SendOps, NEW v, v = w \ {h}
  PROVE  /\ ~Left(v, SendOps) /\ ~Left(v, {"globals"}) /\ (Left(v, {"inactive"}) <=> Left(w, {"inactive"}))
         /\ ~r.wire /\ ~r.timer /\ Way(r, v)
<1>1. "inactive" \notin SendOps /\ "globals" \in SendOps
  BY DEF SendOps, RequestOps
<1>2. ~Left(v, SendOps)
  BY DEF Left, Way
<1>3. ~Left(v, {"globals"})
  BY <1>1, <1>2 DEF Left
<1>4. Left(v, {"inactive"}) <=> Left(w, {"inactive"})
  BY <1>1 DEF Left
<1>5. Left(w, SendOps)
  BY DEF Left
<1> QED
  BY <1>2, <1>3, <1>4, <1>5, WayLess DEF Way

\* ... and the next is left.
LEMMA NextStep ==
  ASSUME NEW r, NEW w, Way(r, w), NEW h \in w, h[3] \in SendOps,
         NEW x, x[3] \in SendOps \ {"globals"}, NEW v, v = (w \ {h}) \union {x},
         NEW n, n.state = r.state, n.wire <=> r.wire, n.timer <=> r.timer, r.transport => n.transport
  PROVE  OneWay(n, v) /\ (Left(v, {"inactive"}) <=> Left(w, {"inactive"}))
<1>1. "inactive" \notin SendOps
  BY DEF SendOps
<1>2. PICK u : u = w \ {h}
  OBVIOUS
<1>3. /\ ~Left(u, SendOps) /\ ~Left(u, {"globals"}) /\ (Left(u, {"inactive"}) <=> Left(w, {"inactive"}))
      /\ ~r.wire /\ ~r.timer /\ Way(r, u)
  BY <1>2, StepMade
<1>4. v = u \union {x}
  BY <1>2
<1>5. ~Left(v, {"globals"}) /\ Left(v, SendOps) /\ (Left(v, {"inactive"}) <=> Left(u, {"inactive"}))
  BY <1>1, <1>3, <1>4 DEF Left
<1>6. \A y, z \in v : y[3] \in SendOps /\ z[3] \in SendOps => y = z
  BY <1>3, <1>4 DEF Left
<1>7. \A y, z \in v : y[3] = "inactive" /\ z[3] = "inactive" => y = z
  BY <1>1, <1>3, <1>4 DEF Way
<1>8. Way(n, v)
  BY <1>3, <1>5, <1>6, <1>7 DEF Way
<1> QED
  BY <1>3, <1>5, <1>8 DEF OneWay

\* A row of calls whose last is a step of q is put on top.
LEMMA PutLast ==
  ASSUME NEW s, Stack(s), NEW t, NEW q, NEW op, EndsWith(t, q, op)
  PROVE  /\ Stack(s \o Todo(t))
         /\ \E x : x[3] = op /\ Work(s \o Todo(t), q) = Work(s, q) \union {x}
         /\ \A p : p # q => Work(s \o Todo(t), p) = Work(s, p)
<1>1. PICK r : r = s \o Todo(t)
  OBVIOUS
<1>2. Stack(r) /\ \A p : Work(r, p) = Work(s, p) \union {<<Len(s) + 1, w[1], w[2]>> : w \in CallsOf(t, p)}
  BY <1>1, WorkTodo DEF EndsWith
<1>3. \A p : p # q => Work(r, p) = Work(s, p)
  BY <1>2 DEF EndsWith
<1>4. PICK x : x = <<Len(s) + 1, 0, op>>
  OBVIOUS
<1>5. {<<Len(s) + 1, w[1], w[2]>> : w \in CallsOf(t, q)} = {x}
  BY <1>4 DEF EndsWith
<1>6. x[3] = op
  BY <1>4
<1> QED
  BY <1>1, <1>2, <1>3, <1>5, <1>6

LEMMA OneCall ==
  ASSUME NEW q, NEW op \in RequestOps
  PROVE  EndsWith(<<RequestCall(op, q)>>, q, op)
<1>1. PICK s, t : s = <<>> /\ t = <<RequestCall(op, q)>>
  OBVIOUS
<1>2. EndsWith(s \o <<RequestCall(op, q)>>, q, op)
  BY <1>1, IdleNone, LastCall
<1>3. s \o t = t
  <2>1. PICK S : t \in Seq(S)
    BY <1>1, StackOne, StackIsSeq
  <2> QED
    BY <1>1, <2>1
<1> QED
  BY <1>1, <1>2, <1>3

LEMMA PutOne ==
  ASSUME NEW s, Stack(s), NEW q, NEW op \in RequestOps
  PROVE  /\ Stack(s \o Todo(<<RequestCall(op, q)>>))
         /\ \E x : x[3] = op /\ Work(s \o Todo(<<RequestCall(op, q)>>), q) = Work(s, q) \union {x}
         /\ \A p : p # q => Work(s \o Todo(<<RequestCall(op, q)>>), p) = Work(s, p)
BY OneCall, PutLast

\* The frames of handlers on top of it make no difference.
LEMMA HandlersNone ==
  ASSUME NEW s, Stack(s), NEW r, r = s \/ (\E fn : r = s \o Handler(fn)) \/ (\E e : r = s \o Triggered(e)) \/ r = s \o <<>>
  PROVE  Stack(r) /\ \A q : Work(r, q) = Work(s, q)
<1>1. CASE \E fn : r = s \o Handler(fn)
  BY <1>1, WorkHandler
<1>2. CASE \E e : r = s \o Triggered(e)
  BY <1>2, WorkTriggered
<1>3. s \o <<>> = s
  BY NoFrame
<1> QED
  BY <1>1, <1>2, <1>3

\* A step of request q is the call that is made.
LEMMA StepOf ==
  ASSUME Inv, NEW op \in RequestOps, CallIs(op)
  PROVE  /\ Call.q \in ReqId /\ Made(Call.q) /\ Stack(AfterCall)
         /\ \E h \in Work(run, Call.q) :
              h[3] = op /\ Work(AfterCall, Call.q) = Work(run, Call.q) \ {h}
         /\ \A p : p # Call.q => Work(AfterCall, p) = Work(run, p)
<1>1. PageOK /\ Call.q \in ReqId /\ Listed(Call.q, DOMAIN cb)
  BY RequestAfter
<1>2. Made(Call.q)
  <2>1. PICK q : q = Call.q
    OBVIOUS
  <2>2. <<q, "done">> \in DOMAIN cb /\ q \in DefId
    BY <1>1, <2>1, AjaxAssumption DEF Listed, RequestKeys
  <2> QED
    BY <1>1, <2>1, <2>2 DEF PageOK, Action
<1> QED
  BY <1>1, <1>2, WorkAfter

\* Nothing is left of a request that was not made.
LEMMA UnmadeNone ==
  ASSUME Inv, NEW q \in ReqId, ~Made(q)
  PROVE  Work(run, q) = {}
<1> SUFFICES ASSUME NEW w \in Work(run, q) PROVE FALSE
  OBVIOUS
<1>1. PICK i, k, o : i \in 1..Len(run) /\ run[i].f = "todo" /\ <<k, o>> \in CallsOf(run[i].todo, q)
  BY DEF Work
<1>2. PICK s : s = run[i].todo
  OBVIOUS
<1>3. CallsOK(s, DOMAIN cb)
  <2>1. IsFire(run[i], DOMAIN cb) \/ IsFn(run[i], DOMAIN cb) \/ IsTodo(run[i], DOMAIN cb)
    BY <1>1 DEF Inv, StackOK, Frames
  <2> QED
    BY <1>1, <1>2, <2>1 DEF IsFire, IsFn, IsTodo
<1>4. k \in Nat /\ k < Len(s) /\ o \in RequestOps /\ s[Len(s) - k].op = o /\ s[Len(s) - k].q = q
  BY <1>1, <1>2 DEF CallsOf
<1>5. Len(s) - k \in 1..Len(s)
  BY <1>3, <1>4, StackLen DEF CallsOK
<1>6. CallOK(s[Len(s) - k], DOMAIN cb)
  BY <1>3, <1>5 DEF CallsOK
<1>7. <<q, "done">> \in DOMAIN cb
  BY <1>4, <1>6 DEF CallOK, RequestOps
<1> QED
  BY <1>7, AjaxAssumption DEF Inv, PageOK, Action

-----------------------------------------------------------------------------
(***************************************************************************)
(* The closure of a request.                                               *)
(***************************************************************************)
LEMMA ClosureFields ==
  ASSUME NEW a, NEW s, NEW g, NEW t, NEW ti, NEW w, NEW k, NEW o, NEW d, NEW r,
         r = [asked |-> a, state |-> s, globals |-> g, transport |-> t, timer |-> ti, wire |-> w,
              known |-> k, onStatus |-> o, dones |-> d]
  PROVE  /\ RequestShape(r) /\ r.asked = a /\ r.state = s /\ r.globals = g /\ r.transport = t
         /\ r.timer = ti /\ r.wire = w /\ r.onStatus = o /\ r.dones = d
<1>1. RequestShape(r)
  BY DEF RequestShape
<1>2. r.asked = a /\ r.state = s /\ r.globals = g /\ r.transport = t
  OBVIOUS
<1>3. r.timer = ti /\ r.wire = w /\ r.onStatus = o /\ r.dones = d
  OBVIOUS
<1> QED
  BY <1>1, <1>2, <1>3

\* What each assignment leaves.
SameBut(r, n) == RequestShape(n) /\ n.asked = r.asked /\ n.dones = r.dones

LEMMA SetGlobals ==
  ASSUME NEW r, RequestShape(r), NEW x, NEW n, n = [r EXCEPT !.globals = x]
  PROVE  /\ SameBut(r, n) /\ n.globals = x /\ n.state = r.state /\ n.transport = r.transport
         /\ n.timer = r.timer /\ n.wire = r.wire /\ n.onStatus = r.onStatus
<1>1. PICK a, s, g, t, ti, w, k, o, d :
        r = [asked |-> a, state |-> s, globals |-> g, transport |-> t, timer |-> ti, wire |-> w,
             known |-> k, onStatus |-> o, dones |-> d]
  BY DEF RequestShape
<1>2. n = [asked |-> a, state |-> s, globals |-> x, transport |-> t, timer |-> ti, wire |-> w,
           known |-> k, onStatus |-> o, dones |-> d]
  BY <1>1
<1> QED
  BY <1>1, <1>2, ClosureFields DEF SameBut

LEMMA SetKnown ==
  ASSUME NEW r, RequestShape(r), NEW x, NEW n, n = [r EXCEPT !.known = x]
  PROVE  /\ SameBut(r, n) /\ n.globals = r.globals /\ n.state = r.state /\ n.transport = r.transport
         /\ n.timer = r.timer /\ n.wire = r.wire /\ n.onStatus = r.onStatus
<1>1. PICK a, s, g, t, ti, w, k, o, d :
        r = [asked |-> a, state |-> s, globals |-> g, transport |-> t, timer |-> ti, wire |-> w,
             known |-> k, onStatus |-> o, dones |-> d]
  BY DEF RequestShape
<1>2. n = [asked |-> a, state |-> s, globals |-> g, transport |-> t, timer |-> ti, wire |-> w,
           known |-> x, onStatus |-> o, dones |-> d]
  BY <1>1
<1> QED
  BY <1>1, <1>2, ClosureFields DEF SameBut

LEMMA SetTransport ==
  ASSUME NEW r, RequestShape(r), NEW x, NEW n, n = [r EXCEPT !.transport = x]
  PROVE  /\ SameBut(r, n) /\ n.globals = r.globals /\ n.state = r.state /\ n.transport = x
         /\ n.timer = r.timer /\ n.wire = r.wire /\ n.onStatus = r.onStatus
<1>1. PICK a, s, g, t, ti, w, k, o, d :
        r = [asked |-> a, state |-> s, globals |-> g, transport |-> t, timer |-> ti, wire |-> w,
             known |-> k, onStatus |-> o, dones |-> d]
  BY DEF RequestShape
<1>2. n = [asked |-> a, state |-> s, globals |-> g, transport |-> x, timer |-> ti, wire |-> w,
           known |-> k, onStatus |-> o, dones |-> d]
  BY <1>1
<1> QED
  BY <1>1, <1>2, ClosureFields DEF SameBut

LEMMA SetWire ==
  ASSUME NEW r, RequestShape(r), NEW x, NEW n, n = [r EXCEPT !.wire = x]
  PROVE  /\ SameBut(r, n) /\ n.globals = r.globals /\ n.state = r.state /\ n.transport = r.transport
         /\ n.timer = r.timer /\ n.wire = x /\ n.onStatus = r.onStatus
<1>1. PICK a, s, g, t, ti, w, k, o, d :
        r = [asked |-> a, state |-> s, globals |-> g, transport |-> t, timer |-> ti, wire |-> w,
             known |-> k, onStatus |-> o, dones |-> d]
  BY DEF RequestShape
<1>2. n = [asked |-> a, state |-> s, globals |-> g, transport |-> t, timer |-> ti, wire |-> x,
           known |-> k, onStatus |-> o, dones |-> d]
  BY <1>1
<1> QED
  BY <1>1, <1>2, ClosureFields DEF SameBut

WithStatus(r, x) == [r EXCEPT !.onStatus = x]
Sent(r, x, y) == [r EXCEPT !.state = x, !.timer = y]

LEMMA SetOnStatus ==
  ASSUME NEW r, RequestShape(r), NEW x, NEW n, n = WithStatus(r, x)
  PROVE  /\ SameBut(r, n) /\ n.globals = r.globals /\ n.state = r.state /\ n.transport = r.transport
         /\ n.timer = r.timer /\ n.wire = r.wire /\ n.onStatus = x
<1>1. PICK a, s, g, t, ti, w, k, o, d :
        r = [asked |-> a, state |-> s, globals |-> g, transport |-> t, timer |-> ti, wire |-> w,
             known |-> k, onStatus |-> o, dones |-> d]
  BY DEF RequestShape
<1>2. n = [asked |-> a, state |-> s, globals |-> g, transport |-> t, timer |-> ti, wire |-> w,
           known |-> k, onStatus |-> x, dones |-> d]
  BY <1>1 DEF WithStatus
<1>3. /\ r.asked = a /\ r.state = s /\ r.globals = g /\ r.transport = t
      /\ r.timer = ti /\ r.wire = w /\ r.dones = d
  BY <1>1, ClosureFields
<1>4. RequestShape(n)
  BY <1>2 DEF RequestShape
<1>5. n.asked = a /\ n.state = s /\ n.globals = g /\ n.transport = t
  BY <1>2
<1>6. n.timer = ti /\ n.wire = w /\ n.onStatus = x /\ n.dones = d
  BY <1>2
<1> QED
  BY <1>3, <1>4, <1>5, <1>6 DEF SameBut

LEMMA SetSent ==
  ASSUME NEW r, RequestShape(r), NEW x, NEW y, NEW n, n = Sent(r, x, y)
  PROVE  /\ SameBut(r, n) /\ n.globals = r.globals /\ n.state = x /\ n.transport = r.transport
         /\ n.timer = y /\ n.wire = r.wire /\ n.onStatus = r.onStatus
<1>1. PICK a, s, g, t, ti, w, k, o, d :
        r = [asked |-> a, state |-> s, globals |-> g, transport |-> t, timer |-> ti, wire |-> w,
             known |-> k, onStatus |-> o, dones |-> d]
  BY DEF RequestShape
<1>2. n = [asked |-> a, state |-> x, globals |-> g, transport |-> t, timer |-> y, wire |-> w,
           known |-> k, onStatus |-> o, dones |-> d]
  BY <1>1 DEF Sent
<1>3. /\ r.asked = a /\ r.globals = g /\ r.transport = t
      /\ r.wire = w /\ r.onStatus = o /\ r.dones = d
  BY <1>1, ClosureFields
<1>4. RequestShape(n)
  BY <1>2 DEF RequestShape
<1>5. n.asked = a /\ n.state = x /\ n.globals = g /\ n.transport = t
  BY ONLY <1>2
<1>6. n.timer = y /\ n.wire = w /\ n.onStatus = o /\ n.dones = d
  BY ONLY <1>2
<1> QED
  BY <1>3, <1>4, <1>5, <1>6 DEF SameBut

\* The state stays, and what is called for the status.
LEMMA StillBasic ==
  ASSUME NEW r, Basic(r), NEW n, SameBut(r, n), n.state = r.state, n.onStatus = r.onStatus
  PROVE  Basic(n) /\ (FreshOne(n) => FreshOne(r))
BY DEF Basic, FreshOne, SameBut

-----------------------------------------------------------------------------
(***************************************************************************)
(* done, called for q whose closure is k so far.                           *)
(***************************************************************************)
LEMMA DonePut ==
  ASSUME NEW s, Stack(s), NEW q, NEW k, Idle(k.onStatus), NEW status
  PROVE  /\ \E x : x[3] = "inactive" /\ Work(s \o Todo(DoneCalls(q, k, status)), q) = Work(s, q) \union {x}
         /\ \A p : p # q => Work(s \o Todo(DoneCalls(q, k, status)), p) = Work(s, p)
<1>1. PICK t, op : t = DoneCalls(q, k, status) /\ op = "inactive"
  OBVIOUS
<1>2. EndsWith(t, q, op)
  BY <1>1, DoneCallsEnd
<1>3. /\ Stack(s \o Todo(t))
      /\ \E x : x[3] = op /\ Work(s \o Todo(t), q) = Work(s, q) \union {x}
      /\ \A p : p # q => Work(s \o Todo(t), p) = Work(s, p)
  BY <1>2, PutLast
<1> QED
  BY <1>1, <1>3

LEMMA DoneCount ==
  ASSUME CountInv, Inv, NEW q \in ReqId, Made(q), UNCHANGED <<threw, state, active>>,
         NEW k, Basic(k), k.dones = req[q].dones, k.state \in {req[q].state, 1},
         k.globals <=> req[q].globals,
         NEW s, Stack(s), \A p : p # q => Work(s, p) = Work(run, p),
         OneWay(req[q], Work(run, q)) /\ (req[q].state # 2 \/ k.state = 2)
           => /\ Way(k, Work(s, q)) /\ ~k.wire
              /\ Left(Work(s, q), {"inactive"}) <=> Left(Work(run, q), {"inactive"}),
         NEW status, Done(q, k, status, s)
  PROVE  CountInv'
<1>1. \A p \in ReqId : Made(p) => Made(p)'
  BY DEF Made
<1>2. Made(q)'
  BY DEF Made
<1>3. PICK r, w, u : r = req[q] /\ w = Work(run, q) /\ u = Work(s, q)
  OBVIOUS
<1>4. Basic(r)
  BY <1>3 DEF CountInv
<1>5. CASE k.state = 2
  <2>1. req' = [req EXCEPT ![q] = k] /\ run' = s
    BY <1>5 DEF Done, IsDone
  <2>2. Changes(q, k)
    BY <2>1, ChangesOne
  <2>3. r.state = 2
    BY <1>3, <1>5
  <2>4. FreshOne(k) => FreshOne(r)
    BY <1>3, <1>5, <2>3 DEF FreshOne
  <2>5. ASSUME OneWay(r, w)
        PROVE  OneWay(k, u) /\ (Counts(k, u) <=> Counts(r, w))
    <3>1. Way(k, u) /\ (Left(u, {"inactive"}) <=> Left(w, {"inactive"}))
      BY <1>3, <1>5, <2>5
    <3>2. OneWay(k, u)
      BY <1>5, <3>1 DEF OneWay
    <3>3. Counts(k, u) <=> Counts(r, w)
      BY <1>3, <1>5, <2>3, <3>1 DEF Counts
    <3> QED
      BY <3>2, <3>3
  <2>6. u = Work(run', q) /\ \A p \in ReqId : p # q => Work(run', p) = Work(run, p)
    BY <1>3, <2>1
  <2> QED
    BY <1>1, <1>2, <1>3, <2>2, <2>4, <2>5, <2>6, OneRequest
<1>6. CASE k.state # 2
  <2>1. PICK n, t : n = DoneRequest(k) /\ t = DoneCalls(q, k, status)
    OBVIOUS
  <2>2. req' = [req EXCEPT ![q] = n] /\ run' = s \o Todo(t)
    BY <1>6, <2>1 DEF Done, IsDone, DoneRequest
  <2>3. Changes(q, n)
    BY <2>2, ChangesOne
  <2>4. Idle(k.onStatus)
    BY DEF Basic
  <2>5. /\ \E x : x[3] = "inactive" /\ Work(s \o Todo(t), q) = Work(s, q) \union {x}
        /\ \A p : p # q => Work(s \o Todo(t), p) = Work(s, p)
    BY <2>1, <2>4, DonePut
  <2>6. PICK x : /\ x[3] = "inactive" /\ Work(run', q) = u \union {x}
                 /\ \A p : p # q => Work(run', p) = Work(s, p)
    BY <1>3, <2>2, <2>5
  <2>7. PICK v : v = u \union {x}
    OBVIOUS
  <2>8. /\ Basic(n) /\ n.state = 2 /\ n.dones = k.dones + 1 /\ (n.globals <=> k.globals)
        /\ Way(k, u) /\ ~k.wire => OneWay(n, v) /\ (Counts(n, v) <=> k.globals)
    BY <1>6, <2>1, <2>6, <2>7, DoneMoves
  <2>9. FreshOne(n) => r.state # 2 /\ FreshOne(r)
    <3>1. r.dones \in Nat /\ (r.state = 2 => r.dones > 0)
      BY <1>4 DEF Basic
    <3>2. FreshOne(n) => r.dones = 0
      BY <1>3, <2>8, <3>1 DEF FreshOne
    <3> QED
      BY <3>1, <3>2 DEF FreshOne
  <2>10. ASSUME FreshOne(n), OneWay(r, w)
         PROVE  OneWay(n, v) /\ (Counts(n, v) <=> Counts(r, w))
    <3>1. Way(k, u) /\ ~k.wire
      BY <1>3, <2>9, <2>10
    <3>2. Counts(r, w) <=> k.globals
      BY <1>3, <2>9, <2>10 DEF Counts
    <3> QED
      BY <2>8, <3>1, <3>2
  <2>11. \A p \in ReqId : p # q => Work(run', p) = Work(run, p)
    BY <2>6
  <2> QED
    BY <1>1, <1>2, <1>3, <2>3, <2>6, <2>7, <2>8, <2>9, <2>10, <2>11, OneRequest
<1> QED
  BY <1>5, <1>6

\* abort drops the transport's callback.
LEMMA AbortCount ==
  ASSUME CountInv, Inv, NEW q \in ReqId, Made(q), UNCHANGED <<threw, state, active>>,
         NEW s, Stack(s), \A p : p # q => Work(s, p) = Work(run, p),
         OneWay(req[q], Work(run, q))
           => /\ Way(req[q], Work(s, q))
              /\ Left(Work(s, q), {"inactive"}) <=> Left(Work(run, q), {"inactive"}),
         NEW status, Abort(q, status, s)
  PROVE  CountInv'
<1>1. PICK r : r = req[q]
  OBVIOUS
<1>2. PICK f : f = FALSE
  OBVIOUS
<1>3. PICK k : k = IF r.transport THEN [r EXCEPT !.wire = f] ELSE r
  OBVIOUS
<1>4. Basic(r)
  BY <1>1 DEF CountInv
<1>5. /\ Basic(k) /\ k.dones = r.dones /\ k.state = r.state /\ (k.globals <=> r.globals)
      /\ (k.timer <=> r.timer) /\ (k.transport <=> r.transport)
      /\ IF r.transport THEN ~k.wire ELSE (k.wire <=> r.wire)
  <2>1. CASE r.transport
    <3>1. k = [r EXCEPT !.wire = f] /\ RequestShape(r)
      BY <1>3, <1>4, <2>1 DEF Basic
    <3>2. /\ SameBut(r, k) /\ k.globals = r.globals /\ k.state = r.state /\ k.transport = r.transport
          /\ k.timer = r.timer /\ k.wire = f /\ k.onStatus = r.onStatus
      BY <3>1, SetWire
    <3>3. Basic(k) /\ k.dones = r.dones
      BY <1>4, <3>2, StillBasic DEF SameBut
    <3> QED
      BY <1>2, <2>1, <3>2, <3>3
  <2>2. CASE ~r.transport
    BY <1>3, <1>4, <2>2
  <2> QED
    BY <2>1, <2>2
<1>6. Done(q, k, status, s)
  BY <1>1, <1>2, <1>3 DEF Abort
<1>7. ASSUME NEW u, Way(r, u) PROVE Way(k, u) /\ ~k.wire
  <2>1. ~k.wire
    BY <1>5, <1>7 DEF Way
  <2> QED
    BY <1>5, <1>7, <2>1 DEF Way
<1> QED
  BY <1>1, <1>5, <1>6, <1>7, DoneCount

-----------------------------------------------------------------------------
(***************************************************************************)
(* The steps of a request.                                                 *)
(***************************************************************************)

LEMMA DoInactiveCount ==
  ASSUME Inv, CountInv, DoInactive
  PROVE  CountInv'
<1>1. PICK op \in RequestOps : op = "inactive" /\ CallIs(op)
  BY DEF DoInactive, RequestOps
<1>2. PICK q : q = Call.q
  OBVIOUS
<1>3. /\ q \in ReqId /\ Made(q) /\ Stack(AfterCall)
      /\ \E h \in Work(run, q) : h[3] = op /\ Work(AfterCall, q) = Work(run, q) \ {h}
      /\ \A p : p # q => Work(AfterCall, p) = Work(run, p)
  BY <1>1, <1>2, StepOf
<1>4. PICK r, w : r = req[q] /\ w = Work(run, q)
  OBVIOUS
<1>5. PICK h \in w : h[3] = op /\ Work(AfterCall, q) = w \ {h}
  BY <1>3, <1>4
<1>6. /\ UNCHANGED <<threw, state, req>>
      /\ IF r.globals THEN active' = active - 1 ELSE active' = active
      /\ run' = AfterCall \/ (\E e : run' = AfterCall \o Triggered(e)) \/ run' = AfterCall \o <<>>
  BY <1>2, <1>4 DEF DoInactive
<1>7. PICK v : v = w \ {h}
  OBVIOUS
<1>8. Work(run', q) = v /\ \A p : p # q => Work(run', p) = Work(run, p)
  <2>1. Stack(run') /\ \A p : Work(run', p) = Work(AfterCall, p)
    BY <1>3, <1>6, HandlersNone
  <2> QED
    BY <1>3, <1>5, <1>7, <2>1
<1>9. Changes(q, r)
  BY <1>3, <1>4, <1>6, ChangesOne
<1>10. Basic(r)
  BY <1>3, <1>4 DEF CountInv
<1>11. ASSUME OneWay(r, w)
       PROVE  /\ OneWay(r, v) /\ ~Counts(r, v) /\ (Counts(r, w) <=> r.globals)
  <2>1. Left(w, {"inactive"}) /\ r.state = 2
    BY <1>1, <1>5, <1>11 DEF Left, OneWay, Way
  <2>2. ~Left(v, {"inactive"})
    BY <1>1, <1>5, <1>7, <1>11 DEF Left, OneWay, Way
  <2>3. Way(r, v)
    BY <1>7, <1>11, WayLess DEF OneWay
  <2>4. OneWay(r, v)
    BY <2>1, <2>3 DEF OneWay
  <2> QED
    BY <2>1, <2>2, <2>4 DEF Counts
<1>12. \A p \in ReqId : Made(p) => Made(p)'
  BY <1>6 DEF Made
<1> QED
  BY <1>3, <1>4, <1>6, <1>8, <1>9, <1>10, <1>11, <1>12, OneRequest

LEMMA DoGlobalsCount ==
  ASSUME Inv, CountInv, DoGlobals
  PROVE  CountInv'
<1>1. PICK op \in RequestOps : op = "globals" /\ CallIs(op)
  BY DEF DoGlobals, RequestOps
<1>2. PICK q : q = Call.q
  OBVIOUS
<1>3. /\ q \in ReqId /\ Made(q) /\ Stack(AfterCall)
      /\ \E h \in Work(run, q) : h[3] = op /\ Work(AfterCall, q) = Work(run, q) \ {h}
      /\ \A p : p # q => Work(AfterCall, p) = Work(run, p)
  BY <1>1, <1>2, StepOf
<1>4. PICK r, w, u : r = req[q] /\ w = Work(run, q) /\ u = Work(AfterCall, q)
  OBVIOUS
<1>5. PICK h \in w : h[3] = op /\ u = w \ {h}
  BY <1>3, <1>4
<1>6. op \in SendOps
  BY <1>1 DEF SendOps, RequestOps
<1>7. UNCHANGED <<threw, state>> /\ \A p \in ReqId : Made(p) => Made(p)'
  BY DEF DoGlobals, Made
<1>8. Basic(r)
  BY <1>3, <1>4 DEF CountInv
<1>9. CASE IsDone(r)
  <2>1. run' = AfterCall /\ req' = req /\ active' = active
    BY <1>2, <1>4, <1>9 DEF DoGlobals
  <2>2. Changes(q, r)
    BY <1>3, <1>4, <2>1, ChangesOne
  <2>3. ASSUME OneWay(r, w)
        PROVE  OneWay(r, u) /\ (Counts(r, u) <=> Counts(r, w))
    <3>1. Way(r, u) /\ (Left(u, {"inactive"}) <=> Left(w, {"inactive"}))
      BY <1>5, <1>6, <2>3, StepMade DEF OneWay
    <3> QED
      BY <1>9, <3>1 DEF OneWay, Counts, IsDone
  <2> QED
    BY <1>3, <1>4, <1>7, <1>8, <2>1, <2>2, <2>3, OneRequest
<1>10. CASE ~IsDone(r)
  <2>1. PICK x, n : x = r.asked.global /\ n = [r EXCEPT !.globals = x]
    OBVIOUS
  <2>2. PICK o, s : o = "beforeSend" /\ s = AfterCall \o Todo(<<RequestCall(o, q)>>)
    OBVIOUS
  <2>3. /\ req' = [req EXCEPT ![q] = n]
        /\ active' = IF x THEN active + 1 ELSE active
        /\ (\E e : run' = s \o Triggered(e)) \/ run' = s \o <<>>
    BY <1>2, <1>4, <1>10, <2>1, <2>2 DEF DoGlobals
  <2>4. Changes(q, n)
    BY <1>3, <2>3, ChangesOne
  <2>5. /\ SameBut(r, n) /\ n.globals = x /\ n.state = r.state /\ n.transport = r.transport
        /\ n.timer = r.timer /\ n.wire = r.wire /\ n.onStatus = r.onStatus
    <3>1. RequestShape(r)
      BY <1>8 DEF Basic
    <3> QED
      BY <2>1, <3>1, SetGlobals
  <2>6. Basic(n) /\ (FreshOne(n) => FreshOne(r))
    BY <1>8, <2>5, StillBasic
  <2>7. o \in RequestOps /\ o \in SendOps \ {"globals"}
    BY <2>2 DEF SendOps, RequestOps
  <2>8. PICK y : y[3] = o /\ Work(s, q) = u \union {y} /\ Stack(s) /\ \A p : p # q => Work(s, p) = Work(AfterCall, p)
    <3>1. /\ Stack(AfterCall \o Todo(<<RequestCall(o, q)>>))
          /\ \E z : z[3] = o /\ Work(AfterCall \o Todo(<<RequestCall(o, q)>>), q) = Work(AfterCall, q) \union {z}
          /\ \A p : p # q => Work(AfterCall \o Todo(<<RequestCall(o, q)>>), p) = Work(AfterCall, p)
      BY <1>3, <2>7, PutOne
    <3> QED
      BY <1>4, <2>2, <3>1
  <2>9. Stack(run') /\ \A p : Work(run', p) = Work(s, p)
    BY <2>3, <2>8, HandlersNone
  <2>10. PICK v : v = (w \ {h}) \union {y}
    OBVIOUS
  <2>11. Work(run', q) = v /\ \A p : p # q => Work(run', p) = Work(run, p)
    BY <1>3, <1>5, <2>8, <2>9, <2>10
  <2>12. ASSUME OneWay(r, w)
         PROVE  OneWay(n, v) /\ ~Counts(r, w) /\ (Counts(n, v) <=> x)
    <3>1. Way(r, w)
      BY <2>12 DEF OneWay
    <3>2. n.state = r.state /\ (n.wire <=> r.wire) /\ (n.timer <=> r.timer) /\ (r.transport => n.transport)
      BY <2>5
    <3>3. h[3] \in SendOps /\ y[3] \in SendOps \ {"globals"}
      BY <1>5, <1>6, <2>7, <2>8
    <3>4. OneWay(n, v)
      BY <2>10, <3>1, <3>2, <3>3, NextStep
    <3>5. ~r.globals
      BY <1>1, <1>5, <3>1 DEF Way, Left
    <3>6. r.state # 2 /\ n.state # 2 /\ (n.globals <=> x)
      BY <1>10, <2>5 DEF IsDone
    <3> QED
      BY <3>4, <3>5, <3>6 DEF Counts
  <2> QED
    BY <1>3, <1>4, <1>7, <2>3, <2>4, <2>6, <2>11, <2>12, OneRequest
<1> QED
  BY <1>9, <1>10

\* A step that goes on to the next, with a closure that differs in no field
\* that counts.
LEMMA GoesOnCount ==
  ASSUME Inv, CountInv, NEW op \in SendOps, CallIs(op), UNCHANGED <<threw, state, active>>,
         NEW n, SameBut(req[Call.q], n), n.state = req[Call.q].state, n.onStatus = req[Call.q].onStatus,
         n.globals <=> req[Call.q].globals, n.wire <=> req[Call.q].wire, n.timer <=> req[Call.q].timer,
         req[Call.q].transport => n.transport, Changes(Call.q, n),
         NEW t, NEW o \in SendOps \ {"globals"}, EndsWith(t, Call.q, o),
         NEW s, s = AfterCall \o Todo(t),
         run' = s \/ (\E fn : run' = s \o Handler(fn)) \/ (\E e : run' = s \o Triggered(e)) \/ run' = s \o <<>>
  PROVE  CountInv'
<1>1. PICK q : q = Call.q
  OBVIOUS
<1>2. op \in RequestOps
  BY DEF SendOps
<1>3. /\ q \in ReqId /\ Made(q) /\ Stack(AfterCall)
      /\ \E h \in Work(run, q) : h[3] = op /\ Work(AfterCall, q) = Work(run, q) \ {h}
      /\ \A p : p # q => Work(AfterCall, p) = Work(run, p)
  BY <1>1, <1>2, StepOf
<1>4. PICK r, w, u : r = req[q] /\ w = Work(run, q) /\ u = Work(AfterCall, q)
  OBVIOUS
<1>5. PICK h \in w : h[3] = op /\ u = w \ {h}
  BY <1>3, <1>4
<1>6. \A p \in ReqId : Made(p) => Made(p)'
  BY DEF Made
<1>7. Basic(r)
  BY <1>3, <1>4 DEF CountInv
<1>8. Basic(n) /\ (FreshOne(n) => FreshOne(r))
  BY <1>1, <1>4, <1>7, StillBasic
<1>9. EndsWith(t, q, o)
  BY <1>1
<1>10. PICK b : b = AfterCall
  OBVIOUS
<1>11. /\ Stack(b \o Todo(t))
       /\ \E x : x[3] = o /\ Work(b \o Todo(t), q) = Work(b, q) \union {x}
       /\ \A p : p # q => Work(b \o Todo(t), p) = Work(b, p)
  <2>1. Stack(b)
    BY <1>3, <1>10
  <2> QED
    BY <1>9, <2>1, PutLast
<1>12. PICK y : y[3] = o /\ Work(s, q) = u \union {y} /\ Stack(s) /\ \A p : p # q => Work(s, p) = Work(run, p)
  BY <1>3, <1>4, <1>10, <1>11
<1>13. Stack(run') /\ \A p : Work(run', p) = Work(s, p)
  <2>1. PICK z : z = run'
    OBVIOUS
  <2>2. z = s \/ (\E fn : z = s \o Handler(fn)) \/ (\E e : z = s \o Triggered(e)) \/ z = s \o <<>>
    BY <2>1
  <2>3. Stack(s)
    BY <1>12
  <2>4. Stack(z) /\ \A p : Work(z, p) = Work(s, p)
    BY ONLY <2>2, <2>3, HandlersNone
  <2> QED
    BY <2>1, <2>4
<1>14. PICK v : v = (w \ {h}) \union {y}
  OBVIOUS
<1>15. Work(run', q) = v /\ \A p : p # q => Work(run', p) = Work(run, p)
  BY <1>5, <1>12, <1>13, <1>14
<1>16. ASSUME OneWay(r, w)
       PROVE  OneWay(n, v) /\ (Counts(n, v) <=> Counts(r, w))
  <2>1. Way(r, w)
    BY <1>16 DEF OneWay
  <2>2. n.state = r.state /\ (n.wire <=> r.wire) /\ (n.timer <=> r.timer) /\ (r.transport => n.transport)
    BY <1>1, <1>4
  <2>3. h[3] \in SendOps /\ y[3] \in SendOps \ {"globals"}
    BY <1>5, <1>12
  <2>4. OneWay(n, v) /\ (Left(v, {"inactive"}) <=> Left(w, {"inactive"}))
    BY ONLY SMTT(30), <1>14, <2>1, <2>2, <2>3, NextStep
  <2> QED
    BY <1>1, <1>4, <2>2, <2>4 DEF Counts
<1>17. Changes(q, n) /\ Made(q)' /\ threw' = threw /\ active' = active
  BY <1>1, <1>3, <1>6
<1> QED
  BY <1>3, <1>4, <1>6, <1>8, <1>15, <1>16, <1>17, OneRequest

LEMMA DoBeforeSendCount ==
  ASSUME Inv, CountInv, DoBeforeSend
  PROVE  CountInv'
<1>1. PICK op \in SendOps : op = "beforeSend" /\ CallIs(op)
  BY DEF DoBeforeSend, SendOps, RequestOps
<1>2. PICK q, r : q = Call.q /\ r = req[q]
  OBVIOUS
<1>3. q \in ReqId /\ Basic(r)
  BY <1>1, <1>2, StepOf DEF SendOps, CountInv
<1>4. PICK x, n : x = TRUE /\ n = [r EXCEPT !.known = x]
  OBVIOUS
<1>5. PICK o, t : o = "install" /\ t = <<RequestCall(o, q)>>
  OBVIOUS
<1>6. o \in SendOps \ {"globals"} /\ o \in RequestOps
  BY <1>5 DEF SendOps, RequestOps
<1>7. EndsWith(t, q, o)
  BY <1>5, <1>6, OneCall
<1>8. PICK s : s = AfterCall \o Todo(t)
  OBVIOUS
<1>9. /\ req' = [req EXCEPT ![q] = n] /\ UNCHANGED <<threw, state, active>>
      /\ (\E fn : run' = s \o Handler(fn)) \/ run' = s \o <<>>
  BY <1>2, <1>4, <1>5, <1>8 DEF DoBeforeSend
<1>10. Changes(q, n)
  BY <1>3, <1>9, ChangesOne
<1>11. /\ SameBut(r, n) /\ n.globals = r.globals /\ n.state = r.state /\ n.transport = r.transport
       /\ n.timer = r.timer /\ n.wire = r.wire /\ n.onStatus = r.onStatus
  <2>1. RequestShape(r)
    BY <1>3 DEF Basic
  <2> QED
    BY <1>4, <2>1, SetKnown
<1>12. /\ n.globals <=> r.globals
       /\ n.wire <=> r.wire
       /\ n.timer <=> r.timer
       /\ r.transport => n.transport
  BY <1>11
<1> QED
  BY <1>1, <1>2, <1>6, <1>7, <1>8, <1>9, <1>10, <1>11, <1>12, GoesOnCount

LEMMA DoneAfter ==
  ASSUME Inv, CountInv, NEW op \in SendOps, CallIs(op)
  PROVE  /\ Call.q \in ReqId /\ Made(Call.q) /\ Stack(AfterCall) /\ Basic(req[Call.q])
         /\ \A p : p # Call.q => Work(AfterCall, p) = Work(run, p)
         /\ OneWay(req[Call.q], Work(run, Call.q)) =>
              /\ Way(req[Call.q], Work(AfterCall, Call.q))
              /\ ~req[Call.q].wire /\ ~req[Call.q].timer /\ ~Left(Work(AfterCall, Call.q), SendOps)
              /\ Left(Work(AfterCall, Call.q), {"inactive"}) <=> Left(Work(run, Call.q), {"inactive"})
<1>1. op \in RequestOps
  BY DEF SendOps
<1>2. PICK q : q = Call.q
  OBVIOUS
<1>3. /\ q \in ReqId /\ Made(q) /\ Stack(AfterCall)
      /\ \E h \in Work(run, q) : h[3] = op /\ Work(AfterCall, q) = Work(run, q) \ {h}
      /\ \A p : p # q => Work(AfterCall, p) = Work(run, p)
  BY <1>1, <1>2, StepOf
<1>4. Basic(req[q])
  BY <1>3 DEF CountInv
<1>5. PICK r, w, u : r = req[q] /\ w = Work(run, q) /\ u = Work(AfterCall, q)
  OBVIOUS
<1>6. PICK h \in w : h[3] = op /\ u = w \ {h}
  BY <1>3, <1>5
<1>7. ASSUME OneWay(r, w)
      PROVE  /\ ~Left(u, SendOps) /\ (Left(u, {"inactive"}) <=> Left(w, {"inactive"}))
             /\ ~r.wire /\ ~r.timer /\ Way(r, u)
  BY <1>6, <1>7, StepMade DEF OneWay
<1> QED
  BY <1>2, <1>3, <1>4, <1>5, <1>7

LEMMA InstallCallsEnd ==
  ASSUME NEW q
  PROVE  EndsWith(InstallCalls(q), q, "transport")
<1>1. PICK op \in RequestOps : op = "transport"
  BY DEF RequestOps
<1>2. PICK x, y, z, u : /\ x = AddCall(<<q, "done">>, OfPage("success"))
                        /\ y = AddCall(<<q, "fail">>, OfPage("error"))
                        /\ z = AddCall(<<q, "complete">>, OfPage("complete"))
                        /\ u = RequestCall(op, q)
  OBVIOUS
<1>3. Idle(<<x, y, z>>)
  BY <1>2, IdleCalls, IdleThree
<1>4. InstallCalls(q) = <<x, y, z, u>>
  BY <1>1, <1>2 DEF InstallCalls
<1>5. <<x, y, z, u>> = <<x, y, z>> \o <<u>>
  <2>1. PICK s : s = <<x, y, z, u>>
    OBVIOUS
  <2>2. PICK a, b, c : a = <<x, y, z>> /\ b = <<u>> /\ c = a \o b
    OBVIOUS
  <2>3. Stack(s) /\ Len(s) = 4 /\ s[1] = x /\ s[2] = y /\ s[3] = z /\ s[4] = u
    <3>1. <<x, y, z, u>> \in Seq({x, y, z, u})
      OBVIOUS
    <3> QED
      BY <2>1, <3>1, SeqIsStack
  <2>4. Stack(a) /\ Len(a) = 3 /\ a[1] = x /\ a[2] = y /\ a[3] = z
    BY <1>3, <2>2 DEF Idle
  <2>5. Stack(b) /\ Len(b) = 1 /\ b[1] = u
    BY <2>2, StackOne
  <2>6. /\ Stack(c) /\ Len(c) = 4
        /\ \A i \in 1..3 : c[i] = a[i]
        /\ \A i \in 1..1 : c[3 + i] = b[i]
    BY <2>2, <2>4, <2>5, StackConcat
  <2>7. c[1] = x /\ c[2] = y /\ c[3] = z /\ c[4] = u
    BY <2>4, <2>5, <2>6
  <2>8. \A i \in 1..Len(s) : s[i] = c[i]
    <3>1. \A i \in 1..Len(s) : i = 1 \/ i = 2 \/ i = 3 \/ i = 4
      BY <2>3
    <3> QED
      BY <2>3, <2>7, <3>1
  <2>9. s = c
    BY <2>3, <2>6, <2>8, StackEqual
  <2> QED
    BY <2>1, <2>2, <2>9
<1>6. PICK s : s = <<x, y, z>>
  OBVIOUS
<1>7. EndsWith(s \o <<RequestCall(op, q)>>, q, op)
  BY <1>3, <1>6, LastCall
<1>8. InstallCalls(q) = s \o <<RequestCall(op, q)>>
  BY <1>2, <1>4, <1>5, <1>6
<1> QED
  BY <1>1, <1>7, <1>8

LEMMA DoInstallCount ==
  ASSUME Inv, CountInv, DoInstall
  PROVE  CountInv'
<1>1. PICK op \in SendOps : op = "install" /\ CallIs(op)
  BY DEF DoInstall, SendOps, RequestOps
<1>2. PICK q, s : q = Call.q /\ s = AfterCall
  OBVIOUS
<1>3. /\ q \in ReqId /\ Made(q) /\ Stack(s) /\ Basic(req[q])
      /\ \A p : p # q => Work(s, p) = Work(run, p)
      /\ OneWay(req[q], Work(run, q)) =>
           /\ Way(req[q], Work(s, q))
           /\ Left(Work(s, q), {"inactive"}) <=> Left(Work(run, q), {"inactive"})
  BY <1>1, <1>2, DoneAfter
<1>4. UNCHANGED <<threw, state, active>>
  BY DEF DoInstall
<1>5. ASSUME NEW status, Abort(q, status, s) PROVE CountInv'
  BY <1>3, <1>4, <1>5, AbortCount
<1>6. ASSUME run' = AfterCall \o Todo(InstallCalls(q)), req' = req PROVE CountInv'
  <2>1. PICK t, o : t = InstallCalls(q) /\ o = "transport"
    OBVIOUS
  <2>2. o \in SendOps \ {"globals"}
    BY <2>1 DEF SendOps, RequestOps
  <2>3. EndsWith(t, q, o)
    BY <2>1, InstallCallsEnd
  <2>4. PICK r : r = req[q]
    OBVIOUS
  <2>5. Changes(q, r)
    BY <1>3, <1>6, <2>4, ChangesOne
  <2>6. SameBut(r, r)
    BY <1>3, <2>4 DEF Basic, SameBut
  <2>7. PICK b : b = AfterCall \o Todo(t) /\ run' = b
    BY <1>6, <2>1
  <2> QED
    BY <1>1, <1>2, <1>4, <2>2, <2>3, <2>4, <2>5, <2>6, <2>7, GoesOnCount
<1> QED
  BY <1>2, <1>5, <1>6 DEF DoInstall

LEMMA DoTransportCount ==
  ASSUME Inv, CountInv, DoTransport
  PROVE  CountInv'
<1>1. PICK op \in SendOps : op = "transport" /\ CallIs(op)
  BY DEF DoTransport, SendOps, RequestOps
<1>2. PICK q, s, r : q = Call.q /\ s = AfterCall /\ r = req[q]
  OBVIOUS
<1>3. /\ q \in ReqId /\ Made(q) /\ Stack(s) /\ Basic(r)
      /\ \A p : p # q => Work(s, p) = Work(run, p)
      /\ OneWay(r, Work(run, q)) =>
           /\ Way(r, Work(s, q)) /\ ~r.wire
           /\ Left(Work(s, q), {"inactive"}) <=> Left(Work(run, q), {"inactive"})
  BY <1>1, <1>2, DoneAfter
<1>4. UNCHANGED <<threw, state, active>>
  BY DEF DoTransport
<1>5. CASE r.asked.via = "none"
  <2>1. PICK status : Done(q, r, status, s)
    BY <1>2, <1>5 DEF DoTransport
  <2> QED
    BY <1>2, <1>3, <1>4, <2>1, DoneCount
<1>6. CASE r.asked.via # "none"
  <2>1. PICK x, n : x = TRUE /\ n = [r EXCEPT !.transport = x]
    OBVIOUS
  <2>2. PICK o, t : o = "send" /\ t = <<RequestCall(o, q)>>
    OBVIOUS
  <2>3. o \in SendOps \ {"globals"} /\ o \in RequestOps
    BY <2>2 DEF SendOps, RequestOps
  <2>4. EndsWith(t, q, o)
    BY <2>2, <2>3, OneCall
  <2>5. PICK b : b = AfterCall \o Todo(t)
    OBVIOUS
  <2>6. /\ req' = [req EXCEPT ![q] = n]
        /\ (\E e : run' = b \o Triggered(e)) \/ run' = b \o <<>>
    BY <1>2, <1>6, <2>1, <2>2, <2>5 DEF DoTransport
  <2>7. Changes(q, n)
    BY <1>3, <2>6, ChangesOne
  <2>8. /\ SameBut(r, n) /\ n.globals = r.globals /\ n.state = r.state /\ n.transport = x
        /\ n.timer = r.timer /\ n.wire = r.wire /\ n.onStatus = r.onStatus
    <3>1. RequestShape(r)
      BY <1>3 DEF Basic
    <3> QED
      BY <2>1, <3>1, SetTransport
  <2>9. /\ n.globals <=> r.globals
        /\ n.wire <=> r.wire
        /\ n.timer <=> r.timer
        /\ r.transport => n.transport
    BY <2>1, <2>8
  <2> QED
    BY <1>1, <1>2, <1>4, <2>3, <2>4, <2>5, <2>6, <2>7, <2>8, <2>9, GoesOnCount
<1> QED
  BY <1>5, <1>6

LEMMA DoSendCount ==
  ASSUME Inv, CountInv, DoSend
  PROVE  CountInv'
<1>1. PICK op \in SendOps : op = "send" /\ CallIs(op)
  BY DEF DoSend, SendOps, RequestOps
<1>2. PICK q, s, r : q = Call.q /\ s = AfterCall /\ r = req[q]
  OBVIOUS
<1>3. PICK w, u : w = Work(run, q) /\ u = Work(s, q)
  OBVIOUS
<1>4. /\ q \in ReqId /\ Made(q) /\ Stack(s) /\ Basic(r)
      /\ \A p : p # q => Work(s, p) = Work(run, p)
      /\ OneWay(r, w) =>
           /\ Way(r, u) /\ ~r.wire /\ ~Left(u, SendOps)
           /\ Left(u, {"inactive"}) <=> Left(w, {"inactive"})
  BY <1>1, <1>2, <1>3, DoneAfter
<1>5. UNCHANGED <<threw, state, active>>
  BY DEF DoSend
<1>6. PICK x, y, k : /\ x = 1 /\ y = (r.asked.timeout /\ r.asked.via # "sync")
                     /\ k = Sent(r, x, y)
  OBVIOUS
<1>7. /\ SameBut(r, k) /\ k.globals = r.globals /\ k.state = x /\ k.transport = r.transport
      /\ k.timer = y /\ k.wire = r.wire /\ k.onStatus = r.onStatus
  <2>1. RequestShape(r)
    BY <1>4 DEF Basic
  <2> QED
    BY <1>6, <2>1, SetSent
<1>8. Basic(k) /\ k.dones = r.dones /\ k.state = 1 /\ (k.globals <=> r.globals)
  BY <1>4, <1>6, <1>7 DEF Basic, SameBut
<1>9. ASSUME OneWay(r, w), r.state # 2
      PROVE  /\ Way(k, u) /\ ~k.wire /\ ~Left(u, SendOps) /\ ~Left(u, {"inactive"}) /\ ~Left(w, {"inactive"})
  <2>1. ~Left(u, SendOps) /\ ~Left(u, {"inactive"}) /\ ~Left(w, {"inactive"})
    BY <1>4, <1>9 DEF Way
  <2>2. ~Left(u, {"globals"})
    BY <2>1 DEF Left, SendOps, RequestOps
  <2>3. ~k.wire
    BY <1>4, <1>7, <1>9
  <2>4. Way(k, u)
    BY <1>4, <1>8, <1>9, <2>1, <2>2, <2>3 DEF Way
  <2> QED
    BY <2>1, <2>3, <2>4
<1>10. ASSUME NEW status, Done(q, k, status, s) PROVE CountInv'
  <2>1. OneWay(req[q], Work(run, q)) /\ (req[q].state # 2 \/ k.state = 2)
          => /\ Way(k, Work(s, q)) /\ ~k.wire
             /\ Left(Work(s, q), {"inactive"}) <=> Left(Work(run, q), {"inactive"})
    BY <1>2, <1>3, <1>8, <1>9
  <2> QED
    BY <1>2, <1>4, <1>5, <1>8, <1>10, <2>1, DoneCount
<1>11. ASSUME k.transport, req' = [req EXCEPT ![q] = [k EXCEPT !.wire = TRUE]], run' = s PROVE CountInv'
  <2>1. PICK t, n : t = TRUE /\ n = [k EXCEPT !.wire = t]
    OBVIOUS
  <2>2. Changes(q, n)
    BY <1>4, <1>11, <2>1, ChangesOne
  <2>3. /\ SameBut(k, n) /\ n.globals = k.globals /\ n.state = k.state /\ n.transport = k.transport
        /\ n.timer = k.timer /\ n.wire = t /\ n.onStatus = k.onStatus
    <3>1. RequestShape(k)
      BY <1>8 DEF Basic
    <3> QED
      BY <2>1, <3>1, SetWire
  <2>4. Basic(n) /\ (FreshOne(n) => FreshOne(k))
    BY <1>8, <2>3, StillBasic
  <2>5. FreshOne(n) => FreshOne(r) /\ r.state # 2
    BY <1>4, <1>8, <2>4 DEF FreshOne, Basic
  <2>6. ASSUME FreshOne(n), OneWay(r, w)
        PROVE  OneWay(n, u) /\ (Counts(n, u) <=> Counts(r, w))
    <3>1. r.state # 2 /\ n.state = 1 /\ n.transport /\ (n.globals <=> r.globals)
      BY <1>8, <1>11, <2>3, <2>5, <2>6
    <3>2. Way(k, u) /\ ~Left(u, SendOps) /\ ~Left(u, {"inactive"}) /\ ~Left(w, {"inactive"})
      BY <1>9, <2>6, <3>1
    <3>3. ~Left(u, {"globals"})
      BY <3>2 DEF Left, SendOps, RequestOps
    <3>4. Way(n, u)
      BY <3>1, <3>2, <3>3 DEF Way
    <3> QED
      BY <3>1, <3>4 DEF OneWay, Counts
  <2>7. Work(run', q) = u /\ \A p \in ReqId : p # q => Work(run', p) = Work(run, p)
    BY <1>3, <1>4, <1>11
  <2>8. (\A p \in ReqId : Made(p) => Made(p)') /\ Made(q)'
    BY <1>4, <1>5 DEF Made
  <2> QED
    BY <1>2, <1>3, <1>4, <1>5, <2>2, <2>4, <2>5, <2>6, <2>7, <2>8, OneRequest
<1>12. (\E status : Done(q, k, status, s))
       \/ (k.transport /\ req' = [req EXCEPT ![q] = [k EXCEPT !.wire = TRUE]] /\ run' = s)
  BY <1>2, <1>6 DEF DoSend, Sent
<1> QED
  BY <1>10, <1>11, <1>12

-----------------------------------------------------------------------------
(***************************************************************************)
(* Between two scripts, and calls of the page.                             *)
(***************************************************************************)
LEMMA ListedMade ==
  ASSUME Inv, NEW q \in ReqId, Listed(q, DOMAIN cb)
  PROVE  Made(q)
<1>1. <<q, "done">> \in DOMAIN cb /\ q \in DefId
  BY AjaxAssumption DEF Listed, RequestKeys
<1> QED
  BY <1>1 DEF Inv, PageOK, Action

LEMMA AnswerCount ==
  ASSUME Inv, CountInv, NEW q \in ReqId, Answer(q)
  PROVE  CountInv'
<1>1. PICK r, f, k : r = req[q] /\ f = FALSE /\ k = [r EXCEPT !.wire = f]
  OBVIOUS
<1>2. r.wire /\ UNCHANGED <<threw, state, active>> /\ \E status : Done(q, k, status, run)
  BY <1>1 DEF Answer
<1>3. Made(q)
  BY <1>1, <1>2, ListedMade DEF Inv, PageOK, RequestOK, Listed, RequestKeys
<1>4. Basic(r)
  BY <1>1 DEF CountInv
<1>5. /\ SameBut(r, k) /\ k.globals = r.globals /\ k.state = r.state /\ k.transport = r.transport
      /\ k.timer = r.timer /\ k.wire = f /\ k.onStatus = r.onStatus
  <2>1. RequestShape(r)
    BY <1>4 DEF Basic
  <2> QED
    BY <1>1, <2>1, SetWire
<1>6. Basic(k) /\ k.dones = r.dones
  BY <1>4, <1>5, StillBasic DEF SameBut
<1>7. ~k.wire /\ k.state = r.state /\ (k.globals <=> r.globals) /\ (k.timer <=> r.timer)
  BY <1>1, <1>5
<1>8. ASSUME NEW w, OneWay(r, w) PROVE Way(k, w)
  BY <1>7, <1>8 DEF OneWay, Way
<1>9. Stack(run)
  BY DEF Inv, StackOK, Frames
<1> QED
  BY <1>1, <1>2, <1>3, <1>6, <1>7, <1>8, <1>9, DoneCount

LEMMA AbortedCount ==
  ASSUME Inv, CountInv, NEW q \in ReqId, Made(q), NEW status, Abort(q, status, run),
         UNCHANGED <<threw, state, active>>
  PROVE  CountInv'
<1>1. Stack(run)
  BY DEF Inv, StackOK, Frames
<1>2. OneWay(req[q], Work(run, q)) => Way(req[q], Work(run, q))
  BY DEF OneWay
<1> QED
  BY <1>1, <1>2, AbortCount

LEMMA TimeoutCount ==
  ASSUME Inv, CountInv, NEW q \in ReqId, Timeout(q)
  PROVE  CountInv'
<1>1. Made(q)
  BY ListedMade DEF Timeout, Inv, PageOK, RequestOK, Listed, RequestKeys
<1> QED
  BY <1>1, AbortedCount DEF Timeout

LEMMA AbortRequestCount ==
  ASSUME Inv, CountInv, NEW q \in ReqId, AbortRequest(q)
  PROVE  CountInv'
<1>1. Made(q)
  BY ListedMade DEF AbortRequest, Inv, PageOK, RequestOK, Listed, RequestKeys
<1>2. UNCHANGED <<threw, state, active>> /\ Abort(q, "abort", run)
  BY DEF AbortRequest, Spend
<1> QED
  BY <1>1, <1>2, AbortedCount

LEMMA StatusCodeCount ==
  ASSUME Inv, CountInv, NEW q \in ReqId, NEW fn, StatusCode(q, fn)
  PROVE  CountInv'
<1>1. UNCHANGED <<threw, state, active>> /\ \A p \in ReqId : Made(p) => Made(p)'
  BY DEF StatusCode, Spend, Made
<1>2. PICK t : t = AlwaysCalls(q, fn)
  OBVIOUS
<1>3. Idle(t)
  BY <1>2, IdleCalls, IdleTwo DEF AlwaysCalls
<1>4. PICK r : r = req[q]
  OBVIOUS
<1>5. CASE IsDone(r)
  <2>1. run' = run \o Todo(t) /\ req' = req
    BY <1>2, <1>4, <1>5 DEF StatusCode
  <2>2. Neutral
    BY <1>1, <1>3, <2>1, SameRun, SameTodo DEF Neutral
  <2> QED
    BY <1>1, <2>2, NeutralCount
<1>6. CASE ~IsDone(r)
  <2>1. PICK x, n : x = r.onStatus \o t /\ n = WithStatus(r, x)
    OBVIOUS
  <2>2. req' = [req EXCEPT ![q] = n] /\ run' = run
    BY <1>2, <1>4, <1>6, <2>1 DEF StatusCode, WithStatus
  <2>3. Changes(q, n)
    BY <2>2, ChangesOne
  <2>4. Basic(r)
    BY <1>4 DEF CountInv
  <2>5. /\ SameBut(r, n) /\ n.globals = r.globals /\ n.state = r.state /\ n.transport = r.transport
        /\ n.timer = r.timer /\ n.wire = r.wire /\ n.onStatus = x
    <3>1. RequestShape(r)
      BY <2>4 DEF Basic
    <3>2. n = WithStatus(r, x)
      BY <2>1
    <3> QED
      BY ONLY <3>1, <3>2, SetOnStatus
  <2>6. Basic(n) /\ (FreshOne(n) => FreshOne(r))
    <3>1. Idle(x)
      BY <1>3, <2>1, <2>4, IdleConcat DEF Basic
    <3> QED
      BY <2>4, <2>5, <3>1 DEF Basic, FreshOne, SameBut
  <2>7. /\ n.globals <=> r.globals
        /\ n.wire <=> r.wire
        /\ n.timer <=> r.timer
        /\ n.transport <=> r.transport
        /\ n.state = r.state
    BY <2>5
  <2>8. \A w : (OneWay(r, w) => OneWay(n, w)) /\ (Counts(n, w) <=> Counts(r, w))
    BY <2>7 DEF OneWay, Way, Counts
  <2>9. Made(q)'
    <3>1. Made(q)
      BY <1>4, ListedMade DEF StatusCode, Inv, PageOK, RequestOK, Listed, RequestKeys
    <3> QED
      BY <1>1, <3>1
  <2> QED
    BY <1>1, <1>4, <2>2, <2>3, <2>6, <2>8, <2>9, OneRequest
<1> QED
  BY <1>5, <1>6

\* A new request: the first step on its way is left.
LEMMA NewFields ==
  ASSUME NEW s, NEW n, n = NewRequest(s)
  PROVE  /\ RequestShape(n) /\ n.state = 0 /\ ~n.globals /\ ~n.transport /\ ~n.timer /\ ~n.wire
         /\ n.onStatus = <<>> /\ n.dones = 0
         /\ Basic(n) /\ Unused(n)
<1>1. PICK k : k = ("prefilter" \in s.hooks)
  OBVIOUS
<1>2. n = [asked |-> s, state |-> 0, globals |-> FALSE, transport |-> FALSE, timer |-> FALSE,
           wire |-> FALSE, known |-> k, onStatus |-> <<>>, dones |-> 0]
  BY <1>1 DEF NewRequest
<1>3. /\ RequestShape(n) /\ n.asked = s /\ n.state = 0 /\ n.globals = FALSE /\ n.transport = FALSE
      /\ n.timer = FALSE /\ n.wire = FALSE /\ n.onStatus = <<>> /\ n.dones = 0
  BY ONLY <1>2, ClosureFields
<1> QED
  BY <1>3, IdleNone DEF Basic, Unused

LEMMA AjaxCount ==
  ASSUME Inv, CountInv, NEW q \in ReqId, NEW s, Ajax(q, s)
  PROVE  CountInv'
<1>1. PICK n, op : n = NewRequest(s) /\ op = "globals"
  OBVIOUS
<1>2. PICK b : b = run \o Todo(<<RequestCall(op, q)>>)
  OBVIOUS
<1>3. /\ ~Made(q) /\ UNCHANGED <<threw, active>> /\ state' = [state EXCEPT ![q] = "pending"]
      /\ req' = [req EXCEPT ![q] = n]
      /\ (\E fn : run' = b \o Handler(fn)) \/ run' = b \o <<>>
  BY <1>1, <1>2 DEF Ajax, Spend
<1>4. Made(q)' /\ \A p \in ReqId : Made(p) => Made(p)'
  <2>1. DOMAIN state = DefId
    BY DEF Inv, PageOK
  <2> QED
    BY <1>3, <2>1, AjaxAssumption DEF Made
<1>5. Changes(q, n)
  BY <1>3, ChangesOne
<1>6. /\ RequestShape(n) /\ n.state = 0 /\ ~n.globals /\ ~n.transport /\ ~n.timer /\ ~n.wire
      /\ n.onStatus = <<>> /\ n.dones = 0
      /\ Basic(n) /\ Unused(n)
  BY <1>1, NewFields
<1>7. PICK r : r = req[q]
  OBVIOUS
<1>8. Unused(r)
  BY <1>3, <1>7 DEF CountInv
<1>9. Work(run, q) = {}
  BY <1>3, UnmadeNone
<1>10. op \in RequestOps /\ op \in SendOps /\ op # "inactive"
  BY <1>1 DEF RequestOps, SendOps
<1>11. PICK x : x[3] = op /\ Work(b, q) = {x} /\ Stack(b) /\ \A p : p # q => Work(b, p) = Work(run, p)
  <2>1. Stack(run)
    BY DEF Inv, StackOK, Frames
  <2>2. /\ Stack(run \o Todo(<<RequestCall(op, q)>>))
        /\ \E z : z[3] = op /\ Work(run \o Todo(<<RequestCall(op, q)>>), q) = Work(run, q) \union {z}
        /\ \A p : p # q => Work(run \o Todo(<<RequestCall(op, q)>>), p) = Work(run, p)
    BY <1>10, <2>1, PutOne
  <2> QED
    BY <1>2, <1>9, <2>2
<1>12. Stack(run') /\ \A p : Work(run', p) = Work(b, p)
  BY SMTT(30), <1>3, <1>11, HandlersNone
<1>13. Work(run', q) = {x} /\ \A p \in ReqId : p # q => Work(run', p) = Work(run, p)
  BY <1>11, <1>12
<1>14. OneWay(n, {x}) /\ ~Counts(n, {x}) /\ ~Counts(r, Work(run, q))
  BY <1>6, <1>8, <1>10, <1>11 DEF OneWay, Way, Left, Counts, Unused
<1>15. FreshOne(r)
  BY <1>8 DEF FreshOne, Unused
<1> QED
  BY <1>3, <1>4, <1>5, <1>6, <1>7, <1>13, <1>14, <1>15, OneRequest

-----------------------------------------------------------------------------
(***************************************************************************)
(* Every step.                                                             *)
(***************************************************************************)
LEMMA CountAtFirst ==
  ASSUME Init
  PROVE  CountInv
<1>1. run = <<>> /\ active = 0 /\ ~threw /\ \A q \in ReqId : req[q] = NoRequest
  BY DEF Init
<1>2. PICK n : n = NoRequest
  OBVIOUS
<1>3. Basic(n) /\ Unused(n)
  BY <1>2, NewFields DEF NoRequest
<1>4. \A q : Work(run, q) = {}
  <2>1. Len(run) = 0
    BY <1>1
  <2> QED
    BY <2>1 DEF Work
<1>5. \A q \in ReqId : OneWay(req[q], Work(run, q)) /\ ~Counts(req[q], Work(run, q))
  <2>1. OneWay(n, {}) /\ ~Counts(n, {})
    BY <1>3 DEF OneWay, Way, Left, Counts, Unused
  <2> QED
    BY <1>1, <1>2, <1>4, <2>1
<1>6. Counted = {}
  BY <1>5 DEF Counted
<1>7. RightCount
  BY <1>1, <1>5, <1>6, FS_EmptySet DEF RightCount
<1> QED
  BY <1>1, <1>2, <1>3, <1>7 DEF CountInv

LEMMA CountStep ==
  ASSUME Inv, CountInv, [Next]_vars
  PROVE  CountInv'
<1>1. CASE UNCHANGED vars
  <2>1. UNCHANGED <<run, threw, state, req, active>>
    BY <1>1 DEF vars, ajaxVars, defVars, cbVars
  <2>2. /\ \A q : Work(run', q) = Work(run, q) /\ (Made(q)' <=> Made(q))
        /\ Counted' = Counted /\ (DoneOnce' <=> DoneOnce)
    BY <2>1 DEF Counted, DoneOnce, Made
  <2> QED
    BY <2>1, <2>2 DEF CountInv, RightCount
<1>2. CASE Neutral /\ Next
  <2>1. \A q \in ReqId : Made(q) => Made(q)'
    BY <1>2, MadeStays, AjaxAssumption
  <2> QED
    BY <1>2, <2>1, NeutralCount
<1>3. CASE ListStep \/ DeferredStep \/ ReadySteps \/ ReadyCalls \/ Load \/ Timer
  <2>1. Neutral
    BY <1>3, ListStepNeutral, DeferredStepsNeutral, DeferredCallsNeutral, ReadyNeutral DEF DeferredStep
  <2>2. Next
    BY <1>3 DEF Next
  <2> QED
    BY <1>2, <2>1, <2>2
<1>4. CASE AjaxStep
  <2>1. Next
    BY <1>4 DEF Next
  <2>2. CASE AjaxSteps
    <3>1. CASE DoTrigger
      BY <1>2, <2>1, <3>1, AjaxNeutral
    <3> QED
      BY <2>2, <3>1, DoInactiveCount, DoGlobalsCount, DoBeforeSendCount, DoInstallCount,
         DoTransportCount, DoSendCount DEF AjaxSteps
  <2>3. CASE AjaxCalls
    <3>1. CASE \E q, a, fn : ListenTo(q, a, fn)
      BY <1>2, <2>1, <3>1, AjaxNeutral
    <3> QED
      BY <2>3, <3>1, AjaxCount, AbortRequestCount, StatusCodeCount DEF AjaxCalls
  <2>4. CASE \E q \in ReqId : Answer(q) \/ Timeout(q)
    BY <2>4, AnswerCount, TimeoutCount
  <2> QED
    BY <1>4, <2>2, <2>3, <2>4 DEF AjaxStep
<1> QED
  BY <1>1, <1>3, <1>4 DEF Next

\* Between two scripts nothing is left to do, and a request that counts waits.
LEMMA CountTold ==
  ASSUME CountInv
  PROVE  ActiveInFlight
<1> SUFFICES ASSUME Quiet, DoneOnce
             PROVE  /\ active = Cardinality({q \in ReqId : req[q].globals /\ req[q].state = 1})
                    /\ \A q \in ReqId : req[q].state = 2 => ~req[q].timer /\ ~req[q].wire
  BY DEF ActiveInFlight
<1>1. RightCount
  BY DEF CountInv, Quiet
<1>2. \A q : Work(run, q) = {}
  <2>1. Len(run) = 0
    BY DEF Quiet
  <2> QED
    BY <2>1 DEF Work
<1>3. ASSUME NEW q \in ReqId
      PROVE  /\ Counts(req[q], Work(run, q)) <=> req[q].globals /\ req[q].state = 1
             /\ req[q].state = 2 => ~req[q].timer /\ ~req[q].wire
  <2>1. PICK r : r = req[q]
    OBVIOUS
  <2>2. OneWay(r, {}) /\ r.state \in {0, 1, 2}
    BY <1>1, <1>2, <2>1 DEF RightCount, CountInv, Basic
  <2>3. /\ Counts(r, {}) <=> r.globals /\ r.state = 1
        /\ r.state = 2 => ~r.timer /\ ~r.wire
    BY <2>2 DEF OneWay, Way, Left, Counts
  <2> QED
    BY <1>2, <2>1, <2>3
<1>4. Counted = {q \in ReqId : req[q].globals /\ req[q].state = 1}
  BY <1>3 DEF Counted
<1> QED
  BY <1>1, <1>3, <1>4 DEF RightCount

(***************************************************************************)
(* Between two scripts jQuery.active counts the requests with global       *)
(* events that were sent and are not done (jQuery.ajax): each goes its way *)
(* to send once, is counted on it once, and when it is done leaves one     *)
(* call that takes it out of the count again.                              *)
(***************************************************************************)
THEOREM ActiveAlways == Spec => []ActiveInFlight
<1>1. Init => CountInv
  BY CountAtFirst
<1>2. Inv /\ CountInv /\ [Next]_vars => CountInv'
  BY CountStep
<1>3. CountInv => ActiveInFlight
  BY CountTold
<1>4. Spec => []Inv
  BY InvAlways
<1> QED
  BY <1>1, <1>2, <1>3, <1>4, PTL DEF Spec

-----------------------------------------------------------------------------
(***************************************************************************)
(* The list the page makes for itself.                                     *)
(***************************************************************************)

\* The first n callbacks were called, or passed over from the start.
UpToTold(o, n) == n <= Len(o.list) /\ \A j \in 1..n : o.list[j] \in o.told

\* Where the loops of the list are.
OwnLoops(s) == {s[i].pc : i \in {j \in 1..Len(s) : LoopAt(s, j, OwnList)}}

InOrder(o, pc) ==
  /\ pc \in {"next", "calling"} => o.firingLength = Len(o.list)
  /\ pc = "next" => UpToTold(o, o.firingIndex)
  /\ pc = "calling" => UpToTold(o, o.firingIndex + 1)

OwnOK(o, pcs) ==
  Enabled(o) =>
    /\ \A i \in 1..Len(o.list) : o.list[i].k = "fn"
    /\ ~o.emptied => \A pc \in pcs : InOrder(o, pc)

\* The list holds functions of the page, and a loop over it that nobody emptied
\* has told each callback before the one it is at.
OwnTold(c, r) == OwnList \in DOMAIN c => OwnOK(c[OwnList], OwnLoops(r))

\* A stack with no new loop of the list, though one may have been stopped.
NoNewLoop(s) == Stack(s) /\ OwnLoops(s) \subseteq OwnLoops(run) \union {"stop"}

\* The list as far as the loop is concerned.
SameOwn(p, o) ==
  /\ p.list = o.list /\ p.firingIndex = o.firingIndex /\ p.firingLength = o.firingLength
  /\ p.told = o.told /\ p.emptied = o.emptied

Elsewhere ==
  /\ NoNewLoop(run')
  /\ OwnList \in DOMAIN cb' => OwnList \in DOMAIN cb /\ SameOwn(cb'[OwnList], cb[OwnList])

LEMMA ElsewhereTold ==
  ASSUME Elsewhere, OwnTold(cb, run)
  PROVE  OwnTold(cb', run')
<1>1. SUFFICES ASSUME OwnList \in DOMAIN cb' PROVE OwnOK(cb'[OwnList], OwnLoops(run'))
  BY DEF OwnTold
<1>2. PICK o, p : o = cb[OwnList] /\ p = cb'[OwnList]
  OBVIOUS
<1>3. SameOwn(p, o) /\ OwnOK(o, OwnLoops(run)) /\ OwnLoops(run') \subseteq OwnLoops(run) \union {"stop"}
  BY <1>1, <1>2 DEF Elsewhere, NoNewLoop, OwnTold
<1>4. ASSUME NEW pc, InOrder(o, pc) PROVE InOrder(p, pc)
  BY <1>3, <1>4 DEF SameOwn, InOrder, UpToTold
<1>5. InOrder(o, "stop")
  BY DEF InOrder
<1>6. Enabled(p) <=> Enabled(o)
  BY <1>3 DEF SameOwn, Enabled
<1>7. p.list = o.list /\ p.emptied = o.emptied
  BY <1>3 DEF SameOwn
<1>8. OwnOK(p, OwnLoops(run'))
  BY <1>3, <1>4, <1>5, <1>6, <1>7 DEF OwnOK
<1> QED
  BY <1>2, <1>8

\* The loops of a longer stack.
LEMMA LoopsConcat ==
  ASSUME NEW s, NoNewLoop(s), NEW t, Stack(t), \A i \in 1..Len(t) : ~LoopAt(t, i, OwnList)
  PROVE  NoNewLoop(s \o t)
<1>1. PICK r : r = s \o t
  OBVIOUS
<1>2. Stack(s) /\ Len(s) \in Nat /\ Len(t) \in Nat
  BY StackLen DEF NoNewLoop
<1>3. /\ Stack(r) /\ Len(r) = Len(s) + Len(t)
      /\ \A i \in 1..Len(s) : r[i] = s[i]
      /\ \A i \in Len(s) + 1..Len(s) + Len(t) : r[i] = t[i - Len(s)]
  BY <1>1, <1>2, StackConcat
<1>4. ASSUME NEW i \in 1..Len(r), LoopAt(r, i, OwnList)
      PROVE  i \in 1..Len(s) /\ LoopAt(s, i, OwnList) /\ r[i].pc = s[i].pc
  <2>1. CASE i \in 1..Len(s)
    BY <1>3, <1>4, <2>1 DEF LoopAt
  <2>2. CASE i \notin 1..Len(s)
    <3>1. i \in Len(s) + 1..Len(s) + Len(t) /\ i - Len(s) \in 1..Len(t)
      BY <1>2, <1>3, <2>2
    <3>2. r[i] = t[i - Len(s)]
      BY <1>3, <3>1
    <3> QED
      BY <1>4, <3>1, <3>2 DEF LoopAt
  <2> QED
    BY <2>1, <2>2
<1>5. OwnLoops(r) \subseteq OwnLoops(s)
  BY <1>4 DEF OwnLoops
<1> QED
  BY <1>1, <1>3, <1>5 DEF NoNewLoop

LEMMA LoopsPush ==
  ASSUME NEW s, NoNewLoop(s), NEW x, ~(x.f = "fire" /\ x.l = OwnList)
  PROVE  NoNewLoop(Append(s, x))
<1>1. Stack(s)
  BY DEF NoNewLoop
<1>2. PICK t : t = <<x>>
  OBVIOUS
<1>3. Stack(t) /\ Len(t) = 1 /\ t[1] = x
  BY <1>2, StackOne
<1>4. \A i \in 1..Len(t) : ~LoopAt(t, i, OwnList)
  BY <1>3 DEF LoopAt
<1>5. NoNewLoop(s \o t)
  BY <1>3, <1>4, LoopsConcat
<1>6. PICK S : s \in Seq(S)
  BY <1>1, StackIsSeq
<1>7. Append(s, x) = s \o t
  BY <1>2, <1>6
<1> QED
  BY <1>5, <1>7

\* Rows of calls and handlers are no loops.
LEMMA LoopsMore ==
  ASSUME NEW s, NoNewLoop(s)
  PROVE  /\ \A t : NoNewLoop(s \o Todo(t))
         /\ \A fn : NoNewLoop(s \o Handler(fn))
         /\ \A e : NoNewLoop(s \o Triggered(e))
         /\ NoNewLoop(s \o <<>>)
<1>1. Stack(<<>>) /\ \A i \in 1..Len(<<>>) : FALSE
  BY StackEmpty
<1>2. NoNewLoop(s \o <<>>)
  BY <1>1, LoopsConcat
<1>3. ASSUME NEW x, x.f # "fire" PROVE NoNewLoop(s \o <<x>>)
  <2>1. PICK t : t = <<x>>
    OBVIOUS
  <2>2. Stack(t) /\ Len(t) = 1 /\ t[1] = x
    BY <2>1, StackOne
  <2>3. \A i \in 1..Len(t) : ~LoopAt(t, i, OwnList)
    BY <1>3, <2>2 DEF LoopAt
  <2> QED
    BY <2>1, <2>2, <2>3, LoopsConcat
<1>4. ASSUME NEW t PROVE NoNewLoop(s \o Todo(t))
  <2>1. PICK x : x = [f |-> "todo", todo |-> t]
    OBVIOUS
  <2>2. x.f # "fire"
    BY <2>1
  <2>3. Todo(t) = <<>> \/ Todo(t) = <<x>>
    BY <2>1 DEF Todo
  <2> QED
    BY <1>2, <1>3, <2>2, <2>3
<1>5. ASSUME NEW fn PROVE NoNewLoop(s \o Handler(fn))
  <2>1. PICK x : x = FnFrame(fn, Nothing, Nothing, Nothing)
    OBVIOUS
  <2>2. x.f # "fire"
    BY <2>1 DEF FnFrame
  <2> QED
    BY <1>3, <2>1, <2>2 DEF Handler
<1> QED
  BY <1>2, <1>4, <1>5 DEF Triggered

LEMMA LoopsRun == Inv => NoNewLoop(run)
BY DEF NoNewLoop, Inv, StackOK, Frames

LEMMA LoopsBelow ==
  ASSUME Inv, run # <<>>
  PROVE  NoNewLoop(Below)
<1>1. PICK b, n : b = Below /\ n = Len(run)
  OBVIOUS
<1>2. Stack(run)
  BY DEF Inv, StackOK, Frames
<1>3. /\ n \in Nat \ {0} /\ Stack(b) /\ Len(b) = n - 1
      /\ \A i \in 1..n - 1 : b[i] = run[i]
  BY <1>1, <1>2, StackPop DEF Below
<1>4. ASSUME NEW i \in 1..Len(b), LoopAt(b, i, OwnList)
      PROVE  i \in 1..n /\ LoopAt(run, i, OwnList) /\ b[i].pc = run[i].pc
  BY <1>3, <1>4 DEF LoopAt
<1>5. OwnLoops(b) \subseteq OwnLoops(run)
  BY <1>1, <1>4 DEF OwnLoops
<1> QED
  BY <1>1, <1>3, <1>5 DEF NoNewLoop

\* Another list's loop goes on.
LEMMA LoopsGoto ==
  ASSUME Inv, TopIs("fire"), Top.l # OwnList, NEW pc
  PROVE  NoNewLoop(Goto(pc))
<1>1. PICK n, s : n = Len(run) /\ s = Goto(pc)
  OBVIOUS
<1>2. /\ n \in Nat \ {0} /\ Stack(s) /\ Len(s) = n
      /\ s[n] = [f |-> "fire", l |-> Top.l, v |-> Top.v, pc |-> pc]
      /\ \A i \in 1..n - 1 : s[i] = run[i]
  BY <1>1, RestsCalling DEF Inv
<1>3. ~LoopAt(s, n, OwnList)
  BY <1>2 DEF LoopAt
<1>4. ASSUME NEW i \in 1..n, LoopAt(s, i, OwnList)
      PROVE  LoopAt(run, i, OwnList) /\ s[i].pc = run[i].pc
  <2>1. i \in 1..n - 1
    BY <1>2, <1>3, <1>4
  <2> QED
    BY <1>2, <1>4, <2>1 DEF LoopAt
<1>5. OwnLoops(s) \subseteq OwnLoops(run)
  BY <1>1, <1>2, <1>4 DEF OwnLoops
<1> QED
  BY <1>1, <1>2, <1>5 DEF NoNewLoop

\* The loop below a function is stopped.
LEMMA LoopsStopped ==
  ASSUME Inv, TopIs("fn")
  PROVE  NoNewLoop([Below EXCEPT ![Len(Below)].pc = "stop"])
<1>1. PICK b, n : b = Below /\ n = Len(b)
  OBVIOUS
<1>2. NoNewLoop(b) /\ Frames(b, DOMAIN cb)
  <2>1. run # <<>>
    BY DEF TopIs
  <2>2. Rests(Below, DOMAIN cb)
    BY RestsBelow DEF Inv
  <2> QED
    BY <1>1, <2>1, <2>2, LoopsBelow DEF Rests
<1>3. PICK x, s : x = [b[n] EXCEPT !.pc = "stop"] /\ s = [b EXCEPT ![n] = x]
  OBVIOUS
<1>4. /\ Stack(s) /\ Len(s) = n
      /\ n \in 1..n => s[n] = x
      /\ \A i \in 1..n : i # n => s[i] = b[i]
  <2>1. Stack(b)
    BY <1>2 DEF NoNewLoop
  <2>2. Stack(s)
    BY <1>3, <2>1, StackExcept
  <2>3. Len(s) = Len(b)
    BY <1>3, <2>1, StackExcept
  <2>4. \A i \in 1..Len(b) : i # n => s[i] = b[i]
    BY <1>3, <2>1, StackExcept
  <2>5. n \in 1..Len(b) => s[n] = x
    BY <1>3, <2>1, StackExcept
  <2> QED
    BY <1>1, <2>2, <2>3, <2>4, <2>5
<1>5. n \in 1..n => x.f = b[n].f /\ (x.f = "fire" => x.l = b[n].l /\ x.pc = "stop")
  <2>1. CASE n \in 1..n /\ IsFire(b[n], DOMAIN cb)
    <3>1. PICK u, v, w : b[n] = [f |-> "fire", l |-> u, v |-> v, pc |-> w]
      BY <2>1 DEF IsFire
    <3> QED
      BY <1>3, <3>1
  <2>2. CASE n \in 1..n /\ IsFn(b[n], DOMAIN cb)
    <3>1. PICK t, u, v, w : b[n] = [f |-> "fn", fn |-> t, l |-> u, v |-> v, to |-> w]
      BY <2>2 DEF IsFn
    <3> QED
      BY <1>3, <3>1
  <2>3. CASE n \in 1..n /\ IsTodo(b[n], DOMAIN cb)
    <3>1. PICK u : b[n] = [f |-> "todo", todo |-> u]
      BY <2>3 DEF IsTodo
    <3> QED
      BY <1>3, <3>1
  <2> QED
    BY <1>1, <1>2, <2>1, <2>2, <2>3 DEF Frames
<1>6. ASSUME NEW i \in 1..n, LoopAt(s, i, OwnList)
      PROVE  s[i].pc = "stop" \/ (LoopAt(b, i, OwnList) /\ s[i].pc = b[i].pc)
  <2>1. CASE i = n
    BY <1>4, <1>5, <1>6, <2>1 DEF LoopAt
  <2>2. CASE i # n
    BY <1>4, <1>6, <2>2 DEF LoopAt
  <2> QED
    BY <2>1, <2>2
<1>7. OwnLoops(s) \subseteq OwnLoops(b) \union {"stop"}
  BY <1>1, <1>4, <1>6 DEF OwnLoops
<1>8. NoNewLoop(s)
  BY <1>2, <1>4, <1>7 DEF NoNewLoop
<1> QED
  BY <1>1, <1>3, <1>8

LEMMA LoopsAfter ==
  ASSUME Inv, NEW op, CallIs(op)
  PROVE  NoNewLoop(AfterCall)
<1>1. run # <<>>
  BY DEF CallIs, TopIs
<1> QED
  BY <1>1, LoopsBelow, LoopsMore DEF AfterCall

\* Another list is fired, or added to.
LEMMA LoopsFire ==
  ASSUME NEW s, NoNewLoop(s), NEW l, l # OwnList, NEW v, FireThen(l, v, s)
  PROVE  Elsewhere
<1>1. PICK x : x = FireFrame(l, v)
  OBVIOUS
<1>2. ~(x.f = "fire" /\ x.l = OwnList)
  BY <1>1 DEF FireFrame
<1>3. run' = Append(s, x) \/ run' = s
  BY <1>1 DEF FireThen
<1>4. NoNewLoop(run')
  BY <1>2, <1>3, LoopsPush
<1>5. OwnList \in DOMAIN cb' => OwnList \in DOMAIN cb /\ cb'[OwnList] = cb[OwnList]
  BY DEF FireThen
<1> QED
  BY <1>4, <1>5 DEF Elsewhere, SameOwn

LEMMA LoopsAdd ==
  ASSUME NEW s, NoNewLoop(s), NEW l, l # OwnList, NEW c, AddThen(l, c, s)
  PROVE  Elsewhere
<1>1. PICK x : x = FireFrame(l, cb[l].memory)
  OBVIOUS
<1>2. ~(x.f = "fire" /\ x.l = OwnList)
  BY <1>1 DEF FireFrame
<1>3. run' = Append(s, x) \/ run' = s
  BY <1>1 DEF AddThen
<1>4. NoNewLoop(run')
  BY <1>2, <1>3, LoopsPush
<1>5. OwnList \in DOMAIN cb' => OwnList \in DOMAIN cb /\ cb'[OwnList] = cb[OwnList]
  BY DEF AddThen
<1> QED
  BY <1>4, <1>5 DEF Elsewhere, SameOwn

LEMMA LoopsSame ==
  ASSUME NoNewLoop(run'), UNCHANGED cb
  PROVE  Elsewhere
BY DEF Elsewhere, SameOwn

\* More lists, or another one changed.
LEMMA LoopsOther ==
  ASSUME NoNewLoop(run'),
         \/ \E f : cb' = Joined(cb, f) /\ OwnList \notin DOMAIN f
         \/ \E l, o : l # OwnList /\ cb' = [cb EXCEPT ![l] = o]
  PROVE  Elsewhere
<1>1. OwnList \in DOMAIN cb' => OwnList \in DOMAIN cb /\ cb'[OwnList] = cb[OwnList]
  BY DEF Joined
<1> QED
  BY <1>1 DEF Elsewhere, SameOwn

\* A loop that calls what is no function of the page is another list's.
LEMMA LibraryElsewhere ==
  ASSUME Inv, OwnTold(cb, run), NEW k, Calling(k), k # "fn"
  PROVE  Top.l # OwnList
<1>1. SUFFICES ASSUME Top.l = OwnList PROVE FALSE
  OBVIOUS
<1>2. PICK o, i : o = cb[OwnList] /\ i = o.firingIndex + 1
  OBVIOUS
<1>3. OwnList \in DOMAIN cb /\ Enabled(o) /\ i \in 1..Len(o.list) /\ Callback.k = k
  BY <1>1, <1>2, CallbackOK
<1>4. Callback = o.list[i]
  BY <1>1, <1>2 DEF Callback
<1>5. \A j \in 1..Len(o.list) : o.list[j].k = "fn"
  BY <1>2, <1>3 DEF OwnTold, OwnOK
<1>6. o.list[i].k = "fn"
  BY <1>3, <1>5
<1> QED
  BY <1>3, <1>4, <1>6

LEMMA ElsewhereListStep ==
  ASSUME Inv, ReturnFalse \/ Return \/ Throw \/ ((NextInLoop \/ EndLoop) /\ Top.l # OwnList)
  PROVE  Elsewhere
<1>1. CASE ReturnFalse
  <2>1. TopIs("fn") /\ Top.l \in ListId /\ cb' = [cb EXCEPT ![Top.l].memory = Nothing]
        /\ run' = [Below EXCEPT ![Len(Below)].pc = "stop"]
    BY <1>1 DEF ReturnFalse
  <2>2. NoNewLoop(run')
    BY <2>1, LoopsStopped
  <2>3. CASE Top.l # OwnList
    <3>1. PICK l, o : l = Top.l /\ o = [cb[l] EXCEPT !.memory = Nothing]
      OBVIOUS
    <3>2. l # OwnList /\ cb' = [cb EXCEPT ![l] = o]
      BY <2>1, <2>3, <3>1
    <3> QED
      BY <2>2, <3>2, LoopsOther
  <2>4. CASE Top.l = OwnList /\ OwnList \in DOMAIN cb
    <3>1. PICK o, p : o = cb[OwnList] /\ p = [o EXCEPT !.memory = Nothing]
      OBVIOUS
    <3>2. cb'[OwnList] = p
      BY <2>1, <2>4, <3>1
    <3>3. ListShape(o)
      BY <2>4, <3>1 DEF Inv, ListsOK, ListOK
    <3>4. SameOwn(p, o)
      BY <3>1, <3>3, ListFields DEF SameOwn
    <3> QED
      BY <2>2, <2>4, <3>1, <3>2, <3>4 DEF Elsewhere
  <2>5. CASE OwnList \notin DOMAIN cb
    <3>1. OwnList \notin DOMAIN cb'
      BY <2>1, <2>5
    <3> QED
      BY <2>2, <3>1 DEF Elsewhere
  <2> QED
    BY <2>3, <2>4, <2>5
<1>2. CASE Return
  <2>1. run # <<>> /\ run' = Below /\ UNCHANGED cb
    BY <1>2 DEF Return, TopIs
  <2> QED
    BY <2>1, LoopsBelow, LoopsSame
<1>3. CASE Throw
  <2>1. run' = <<>> /\ UNCHANGED cb
    BY <1>3 DEF Throw
  <2>2. OwnLoops(<<>>) = {}
    BY StackEmpty DEF OwnLoops
  <2> QED
    BY <2>1, <2>2, StackEmpty, LoopsSame DEF NoNewLoop
<1>4. CASE NextInLoop /\ Top.l # OwnList
  <2>1. PICK pc : pc = "next"
    OBVIOUS
  <2>2. PICK l, o : l = Top.l /\ o = [cb[l] EXCEPT !.firingIndex = @ + 1]
    OBVIOUS
  <2>3. TopIs("fire") /\ cb' = [cb EXCEPT ![l] = o] /\ run' = Goto(pc)
    BY <1>4, <2>1, <2>2 DEF NextInLoop
  <2>4. NoNewLoop(run')
    BY <1>4, <2>3, LoopsGoto
  <2> QED
    BY <1>4, <2>2, <2>3, <2>4, LoopsOther
<1>5. CASE EndLoop /\ Top.l # OwnList
  <2>1. PICK l, o : l = Top.l /\ o = LoopOver(cb[l])
    OBVIOUS
  <2>2. PICK x : x = FireFrame(l, Head(cb[l].stack))
    OBVIOUS
  <2>3. /\ run # <<>> /\ cb' = [cb EXCEPT ![l] = o]
        /\ run' = Append(Below, x) \/ run' = Below
    BY <1>5, <2>1, <2>2 DEF EndLoop, TopIs
  <2>4. ~(x.f = "fire" /\ x.l = OwnList)
    BY <1>5, <2>1, <2>2 DEF FireFrame
  <2>5. NoNewLoop(run')
    BY <2>3, <2>4, LoopsBelow, LoopsPush
  <2> QED
    BY <1>5, <2>1, <2>3, <2>5, LoopsOther
<1> QED
  BY <1>1, <1>2, <1>3, <1>4, <1>5

LEMMA ElsewhereDeferredSteps ==
  ASSUME Inv, OwnTold(cb, run), DeferredSteps, CallPage => Top.l # OwnList
  PROVE  Elsewhere
<1> PICK pc : pc = "calling"
  OBVIOUS
<1>1. ASSUME NEW k, Calling(k), k # "fn" \/ Top.l # OwnList PROVE NoNewLoop(Goto(pc))
  <2>1. TopIs("fire") /\ Top.l # OwnList
    BY <1>1, LibraryElsewhere DEF Calling
  <2> QED
    BY <2>1, LoopsGoto
<1>2. ASSUME NEW fn, NEW l, NEW v, NEW to PROVE FnFrame(fn, l, v, to).f # "fire"
  BY DEF FnFrame
<1>3. CASE CallState
  <2>1. PICK k : k = "state"
    OBVIOUS
  <2>2. Calling(k) /\ run' = Goto(pc) /\ UNCHANGED cb
    BY <1>3, <2>1 DEF CallState
  <2> QED
    BY <1>1, <2>1, <2>2, LoopsSame
<1>4. CASE CallDisable \/ CallLock
  <2>1. PICK k \in {"disable", "lock"} :
          /\ Calling(k) /\ run' = Goto(pc)
          /\ \E o : cb' = [cb EXCEPT ![Callback.l] = o]
    BY <1>4 DEF CallDisable, CallLock
  <2>2. NoNewLoop(run')
    BY <1>1, <2>1
  <2>3. Callback.l # OwnList
    <3>1. PICK d \in DefId, a \in Settling :
            /\ k = "disable" => Callback = DisableList(<<d, Other(a)>>)
            /\ k = "lock" => Callback = LockList(<<d, "progress">>)
      BY <2>1, FirstCallback
    <3>2. \A b \in Action : <<d, b>> # OwnList
      BY NotOwn
    <3>3. Callback.l = <<d, Other(a)>> \/ Callback.l = <<d, "progress">>
      BY <2>1, <3>1 DEF DisableList, LockList
    <3> QED
      BY <3>2, <3>3 DEF Other, Action
  <2> QED
    BY <2>1, <2>2, <2>3, LoopsOther
<1>5. ASSUME NEW k \in {"settle", "then", "update"}, Calling(k)
      PROVE  /\ NoNewLoop(Goto(pc))
             /\ k \in {"settle", "then"} => Callback.l # OwnList
             /\ \A a \in Action : k = "update" => <<Callback.m, a>> # OwnList
  <2>1. NoNewLoop(Goto(pc))
    BY <1>1, <1>5
  <2>2. Callback.k = k /\ (Addable(Callback, DOMAIN cb) \/ OneOfFirst(Top.l, cb[Top.l].firingIndex + 1, Callback))
    BY <1>5, CallbackOK
  <2>3. ASSUME NEW i, OneOfFirst(Top.l, i, Callback) PROVE Callback.k \in {"state", "disable", "lock"}
    BY <2>3 DEF OneOfFirst, FirstCallbacks, SetState, DisableList, LockList
  <2>4. Addable(Callback, DOMAIN cb)
    BY <2>2, <2>3
  <2>5. k \in {"settle", "then"} => Callback.l # OwnList
    BY <2>2, <2>4 DEF Addable, Ref
  <2>6. k = "update" => Callback.m \in DefId
    BY <2>2, <2>4 DEF Addable, Free
  <2> QED
    BY <2>1, <2>5, <2>6, NotOwn
<1>6. CASE CallSettle
  <2>1. PICK k \in {"settle", "then"} : Calling(k) /\ FireThen(Callback.l, Top.v, Goto(pc))
    BY <1>6 DEF CallSettle
  <2> QED
    BY <1>5, <2>1, LoopsFire
<1>7. CASE CallUpdate
  <2>1. PICK k \in {"settle", "then", "update"} : k = "update"
    OBVIOUS
  <2>2. /\ Calling(k)
        /\ \/ run' = Goto(pc) /\ UNCHANGED cb
           \/ \E a \in Action : \E v : FireThen(<<Callback.m, a>>, v, Goto(pc))
    BY <1>7, <2>1 DEF CallUpdate, Action
  <2> QED
    BY <1>5, <2>1, <2>2, LoopsSame, LoopsFire
<1>8. CASE CallThen
  <2>1. PICK k \in {"settle", "then", "update"} : k = "then"
    OBVIOUS
  <2>2. PICK x : x = FnFrame(Callback.fn, Top.l, Top.v, Callback.l)
    OBVIOUS
  <2>3. Calling(k) /\ UNCHANGED cb /\ run' = Append(Goto(pc), x)
    BY <1>8, <2>1, <2>2 DEF CallThen
  <2>4. NoNewLoop(run')
    BY <1>2, <1>5, <2>2, <2>3, LoopsPush
  <2> QED
    BY <2>3, <2>4, LoopsSame
<1>9. CASE CallPage
  <2>1. PICK k : k = "fn"
    OBVIOUS
  <2>2. PICK x : x = FnFrame(Callback.fn, Top.l, Top.v, Nothing)
    OBVIOUS
  <2>3. PICK l, o : l = Top.l /\ o = [cb[l] EXCEPT !.told = @ \union {Callback}]
    OBVIOUS
  <2>4. Calling(k) /\ cb' = [cb EXCEPT ![l] = o] /\ run' = Append(Goto(pc), x)
    BY <1>9, <2>1, <2>2, <2>3 DEF CallPage, CallFn
  <2>5. NoNewLoop(Goto(pc))
    BY <1>1, <1>9, <2>4
  <2>6. NoNewLoop(run')
    BY <1>2, <2>2, <2>4, <2>5, LoopsPush
  <2> QED
    BY <1>9, <2>3, <2>4, <2>6, LoopsOther
<1>10. CASE ReturnValue
  <2>1. PICK v : TopIs("fn") /\ Top.to # Nothing /\ FireThen(Top.to, v, Below)
    BY <1>10 DEF ReturnValue
  <2>2. Ref(Top.to, DOMAIN cb)
    BY <2>1, ReturnTo
  <2>3. run # <<>> /\ Top.to # OwnList
    BY <2>1, <2>2 DEF TopIs, Ref
  <2> QED
    BY <2>1, <2>3, LoopsBelow, LoopsFire
<1>11. CASE ReturnPromise
  <2>1. run # <<>> /\ UNCHANGED cb /\ \E t : run' = Below \o Todo(t)
    BY <1>11 DEF ReturnPromise, TopIs
  <2>2. NoNewLoop(run')
    BY <2>1, LoopsBelow, LoopsMore
  <2> QED
    BY <2>1, <2>2, LoopsSame
<1>12. ASSUME NEW op, CallIs(op) PROVE CallOK(Call, DOMAIN cb) /\ Call.op = op /\ NoNewLoop(AfterCall)
  <2>1. CallOK(Call, DOMAIN cb) /\ Call.op = op
    BY <1>12, RestsAfter
  <2> QED
    BY <1>12, <2>1, LoopsAfter
<1>13. CASE DoAdd
  <2>1. CallIs("add") /\ AddThen(Call.l, Call.c, AfterCall)
    BY <1>13 DEF DoAdd
  <2>2. CallOK(Call, DOMAIN cb) /\ Call.op = "add" /\ NoNewLoop(AfterCall)
    BY <1>12, <2>1
  <2>3. Call.l # OwnList
    BY <2>2 DEF CallOK
  <2> QED
    BY <2>1, <2>2, <2>3, LoopsAdd
<1>14. CASE DoFire
  <2>1. CallIs("fire") /\ FireThen(Call.l, Call.v, AfterCall)
    BY <1>14 DEF DoFire
  <2>2. CallOK(Call, DOMAIN cb) /\ Call.op = "fire" /\ NoNewLoop(AfterCall)
    BY <1>12, <2>1
  <2>3. Call.l # OwnList
    BY <2>2 DEF CallOK
  <2> QED
    BY <2>1, <2>2, <2>3, LoopsFire
<1>15. CASE DoLeave
  <2>1. CallIs("leave") /\ run' = AfterCall /\ UNCHANGED cb
    BY <1>15 DEF DoLeave
  <2> QED
    BY <1>12, <2>1, LoopsSame
<1>16. CASE DoWaitless
  <2>1. /\ CallIs("waitless")
        /\ \/ run' = AfterCall /\ UNCHANGED cb
           \/ \E v : FireThen(<<Call.m, "done">>, v, AfterCall)
    BY <1>16 DEF DoWaitless
  <2>2. CallOK(Call, DOMAIN cb) /\ Call.op = "waitless" /\ NoNewLoop(AfterCall)
    BY <1>12, <2>1
  <2>3. Call.m \in DefId
    BY <2>2 DEF CallOK, Free
  <2>4. <<Call.m, "done">> # OwnList
    BY <2>3, NotOwn DEF Action
  <2> QED
    BY <2>1, <2>2, <2>4, LoopsSame, LoopsFire
<1> QED
  BY <1>3, <1>4, <1>6, <1>7, <1>8, <1>9, <1>10, <1>11, <1>13, <1>14, <1>15, <1>16 DEF DeferredSteps

LEMMA ElsewhereDeferredCalls ==
  ASSUME Inv, DeferredCalls
  PROVE  Elsewhere
<1>1. NoNewLoop(run)
  BY LoopsRun
<1>2. ASSUME NEW d \in PageDef, NEW a \in Action PROVE <<d, a>> # OwnList
  BY NotOwn, DeferredsAssumption
<1>3. ASSUME NEW n \in PageDef, WithNew(n), NoNewLoop(run') PROVE Elsewhere
  <2>1. PICK f : f = NewLists(n)
    OBVIOUS
  <2>2. cb' = Joined(cb, f) /\ DOMAIN f = {n} \X Action
    BY <1>3, <2>1 DEF WithNew, NewLists
  <2>3. OwnList \notin DOMAIN f
    BY <1>2, <2>2
  <2> QED
    BY <1>3, <2>2, <2>3, LoopsOther
<1>4. PICK d \in PageDef :
        \/ MakeDeferred(d)
        \/ \E a \in Action : \E v : FireThen(<<d, a>>, v, run)
        \/ \E a \in Action : \E c : AddThen(<<d, a>>, c, run)
        \/ \E n \in PageDef : WithNew(n) /\ \E t : run' = run \o Todo(t)
  BY Zenon DEF DeferredCalls, Settle, Listen, Then, When, Action, Settling
<1>5. CASE MakeDeferred(d)
  BY <1>1, <1>3, <1>5 DEF MakeDeferred
<1>6. ASSUME NEW n \in PageDef, WithNew(n), NEW t, run' = run \o Todo(t) PROVE Elsewhere
  BY <1>1, <1>3, <1>6, LoopsMore
<1> QED
  BY <1>1, <1>2, <1>4, <1>5, <1>6, LoopsFire, LoopsAdd

LEMMA LoopsDone ==
  ASSUME NEW s, NoNewLoop(s), NEW q, NEW r, NEW status, Done(q, r, status, s) \/ Abort(q, status, s)
  PROVE  NoNewLoop(run')
<1>1. run' = s \/ \E t : run' = s \o Todo(t)
  BY DEF Done, Abort
<1> QED
  BY <1>1, LoopsMore

\* A step of a request, or of ready, puts calls and handlers on the stack.
LEMMA LoopsSteps ==
  ASSUME NEW s, NoNewLoop(s),
         \/ run' = s
         \/ \E t : run' = s \o Todo(t)
         \/ \E e : run' = s \o Triggered(e)
         \/ \E t, fn : run' = s \o Todo(t) \o Handler(fn)
         \/ \E t, e : run' = s \o Todo(t) \o Triggered(e)
         \/ \E t : run' = s \o Todo(t) \o <<>>
         \/ run' = s \o <<>>
  PROVE  NoNewLoop(run')
BY LoopsMore

LEMMA ElsewhereAjax ==
  ASSUME Inv, AjaxStep
  PROVE  Elsewhere
<1>1. NoNewLoop(run)
  BY LoopsRun
<1>2. ASSUME NEW op, CallIs(op) PROVE NoNewLoop(AfterCall)
  BY <1>2, LoopsAfter
<1>3. CASE AjaxSteps
  <2>1. UNCHANGED cb /\ \E op : CallIs(op)
    BY Zenon, <1>3 DEF AjaxSteps, DoInactive, DoTrigger, DoGlobals, DoBeforeSend, DoInstall, DoTransport, DoSend
  <2>2. NoNewLoop(AfterCall)
    BY <1>2, <2>1
  <2> SUFFICES NoNewLoop(run')
    BY <2>1, LoopsSame
  <2>3. ASSUME NEW q, NEW r, NEW status, Done(q, r, status, AfterCall) \/ Abort(q, status, AfterCall)
        PROVE  NoNewLoop(run')
    BY <2>2, <2>3, LoopsDone
  <2>4. CASE DoInactive \/ DoTrigger
    <3>1. \/ run' = AfterCall
          \/ run' = AfterCall \o <<>>
          \/ \E e : run' = AfterCall \o Triggered(e)
      BY <2>4 DEF DoInactive, DoTrigger
    <3> QED
      BY <2>2, <3>1, LoopsSteps
  <2>5. CASE DoGlobals
    <3>1. \/ run' = AfterCall
          \/ \E t : run' = AfterCall \o Todo(t) \o <<>>
          \/ \E t, e : run' = AfterCall \o Todo(t) \o Triggered(e)
      BY <2>5 DEF DoGlobals
    <3> QED
      BY <2>2, <3>1, LoopsSteps
  <2>6. CASE DoBeforeSend
    <3>1. \/ \E t : run' = AfterCall \o Todo(t) \o <<>>
          \/ \E t, fn : run' = AfterCall \o Todo(t) \o Handler(fn)
      BY <2>6 DEF DoBeforeSend
    <3> QED
      BY <2>2, <3>1, LoopsSteps
  <2>7. CASE DoInstall
    <3>1. \/ \E q, status : Abort(q, status, AfterCall)
          \/ \E t : run' = AfterCall \o Todo(t)
      BY <2>7 DEF DoInstall
    <3> QED
      BY <2>2, <2>3, <3>1, LoopsSteps
  <2>8. CASE DoTransport
    <3>1. \/ \E q, r, status : Done(q, r, status, AfterCall)
          \/ \E t, e : run' = AfterCall \o Todo(t) \o Triggered(e)
          \/ \E t : run' = AfterCall \o Todo(t) \o <<>>
      BY <2>8 DEF DoTransport
    <3> QED
      BY <2>2, <2>3, <3>1, LoopsSteps
  <2>9. CASE DoSend
    <3>1. \/ \E q, r, status : Done(q, r, status, AfterCall)
          \/ run' = AfterCall
      BY <2>9 DEF DoSend
    <3> QED
      BY <2>2, <2>3, <3>1
  <2> QED
    BY <1>3, <2>4, <2>5, <2>6, <2>7, <2>8, <2>9 DEF AjaxSteps
<1>4. ASSUME NEW q, NEW s, NEW fn, NEW a,
             Answer(q) \/ Timeout(q) \/ AbortRequest(q) \/ StatusCode(q, fn) \/ ListenTo(q, a, fn)
      PROVE  Elsewhere
  <2>1. UNCHANGED cb
    BY <1>4 DEF Answer, Timeout, AbortRequest, StatusCode, ListenTo
  <2>2. \/ \E r, status : Done(q, r, status, run) \/ Abort(q, status, run)
        \/ run' = run
        \/ \E t : run' = run \o Todo(t)
    BY <1>4 DEF Answer, Timeout, AbortRequest, StatusCode, ListenTo
  <2>3. NoNewLoop(run')
    BY <1>1, <2>2, LoopsDone, LoopsMore
  <2> QED
    BY <2>1, <2>3, LoopsSame
<1>5. ASSUME NEW q \in ReqId, NEW s \in Settings, Ajax(q, s) PROVE Elsewhere
  <2>1. PICK f : f = RequestLists(q)
    OBVIOUS
  <2>2. cb' = Joined(cb, f) /\ DOMAIN f = {q} \X (Action \union {"complete"})
    BY <1>5, <2>1 DEF Ajax, RequestLists
  <2>3. OwnList \notin DOMAIN f
    <3>1. q \in DefId
      BY AjaxAssumption
    <3>2. <<q, "complete">> # OwnList /\ \A a \in Action : <<q, a>> # OwnList
      BY <3>1, NotOwn
    <3> QED
      BY <2>2, <3>2
  <2>4. \/ \E t : run' = run \o Todo(t) \o <<>>
        \/ \E t, fn : run' = run \o Todo(t) \o Handler(fn)
    BY <1>5 DEF Ajax
  <2>5. NoNewLoop(run')
    BY <1>1, <2>4, LoopsSteps
  <2> QED
    BY <2>2, <2>3, <2>5, LoopsOther
<1> QED
  BY <1>3, <1>4, <1>5 DEF AjaxStep, AjaxCalls

LEMMA ElsewhereReady ==
  ASSUME Inv, ReadySteps \/ ReadyCalls \/ Load \/ Timer
  PROVE  Elsewhere
<1>1. NoNewLoop(run)
  BY LoopsRun
<1>2. NoNewLoop(<<>>)
  BY StackEmpty DEF NoNewLoop, OwnLoops
<1>3. CASE Load \/ Timer \/ Hold \/ Release
  <2>1. UNCHANGED cb /\ (run' = run \/ Resolve(run))
    BY <1>3 DEF Load, Timer, ReadyNow, Hold, Release, ReadyReleased
  <2>2. run' = run \/ run' = <<>> \/ \E t : run' = run \o Todo(t)
    BY <2>1 DEF Resolve
  <2>3. NoNewLoop(run')
    BY <1>1, <1>2, <2>2, LoopsMore
  <2> QED
    BY <2>1, <2>3, LoopsSame
<1>4. ASSUME NEW fn, AskReady(fn) PROVE Elsewhere
  <2>1. \E t : run' = run \o Todo(t)
    BY <1>4 DEF AskReady
  <2>2. NoNewLoop(run')
    BY <1>1, <2>1, LoopsMore
  <2>3. PICK f : f = NewLists(ReadyList)
    OBVIOUS
  <2>4. UNCHANGED cb \/ (cb' = Joined(cb, f) /\ DOMAIN f = {ReadyList} \X Action)
    BY <1>4, <2>3 DEF AskReady, WithNew, NewLists
  <2>5. \A a \in Action : <<ReadyList, a>> # OwnList
    BY NotOwn, ReadyAssumption
  <2> QED
    BY <2>2, <2>4, <2>5, LoopsSame, LoopsOther
<1>5. CASE ReadySteps
  <2>1. UNCHANGED cb /\ \E op : CallIs(op)
    BY <1>5 DEF ReadySteps, DoReadyEvent, DoOff
  <2>2. NoNewLoop(AfterCall)
    BY <2>1, LoopsAfter
  <2>3. \/ run' = AfterCall
        \/ \E t : run' = AfterCall \o Todo(t) \o <<>>
        \/ \E t, fn : run' = AfterCall \o Todo(t) \o Handler(fn)
    BY <1>5 DEF ReadySteps, DoReadyEvent, DoOff
  <2>4. NoNewLoop(run')
    BY <2>2, <2>3, LoopsSteps
  <2> QED
    BY <2>1, <2>4, LoopsSame
<1> QED
  BY <1>3, <1>4, <1>5 DEF ReadyCalls

-----------------------------------------------------------------------------
(***************************************************************************)
(* What is done to the list.                                               *)
(***************************************************************************)

FnsOnly(s) == \A i \in 1..Len(s) : s[i].k = "fn"

LEMMA OwnLess ==
  ASSUME NEW o, NEW S, OwnOK(o, S), NEW T, T \subseteq S
  PROVE  OwnOK(o, T)
BY DEF OwnOK

\* No loop: it is enough that the list holds functions.
LEMMA OwnQuiet ==
  ASSUME NEW o, Enabled(o) => FnsOnly(o.list)
  PROVE  OwnOK(o, {})
BY DEF OwnOK, FnsOnly

\* A fire begins: those it passes over count as told.
LEMMA OwnBegun ==
  ASSUME NEW o, Fields(o), Stack(o.list), FnsOnly(o.list),
         NEW n \in Nat, o.firingStart = n, n <= Len(o.list), NEW v
  PROVE  OwnOK(BeginFire(o, v), {"next"})
<1>1. PICK p, s : p = BeginFire(o, v) /\ s = o.list
  OBVIOUS
<1>2. p.list = s /\ p.firingIndex = n /\ p.firingLength = Len(s) /\ p.emptied = FALSE
  <2>1. p = [options |-> o.options, list |-> s, stack |-> o.stack,
             memory |-> IF o.options.memory THEN v ELSE Nothing, fired |-> TRUE, firing |-> TRUE,
             firingStart |-> 0, firingIndex |-> n, firingLength |-> Len(s),
             told |-> p.told, emptied |-> FALSE]
    BY <1>1, Begun
  <2> QED
    BY <2>1
<1>3. p.told = ToSet(SubSeq(s, 1, n))
  BY <1>1, Begun
<1>4. ASSUME NEW j \in 1..n PROVE s[j] \in p.told
  <2>1. PICK t : t = SubSeq(s, 1, n)
    OBVIOUS
  <2>2. PICK S : s \in Seq(S)
    BY <1>1, StackIsSeq
  <2>3. DOMAIN t = 1..n /\ t[j] = s[j]
    BY <1>1, <2>1, <2>2
  <2> QED
    BY <1>3, <2>1, <2>3 DEF ToSet
<1>5. InOrder(p, "next")
  BY <1>1, <1>2, <1>4 DEF InOrder, UpToTold
<1>6. OwnOK(p, {"next"})
  BY <1>1, <1>2, <1>5 DEF OwnOK, FnsOnly
<1> QED
  BY <1>1, <1>6

LEMMA OwnCalled ==
  ASSUME NEW o, ListShape(o), OwnOK(o, {"next"}), InLoop(o),
         NEW p, p = [o EXCEPT !.told = @ \union {o.list[o.firingIndex + 1]}]
  PROVE  OwnOK(p, {"calling"})
<1>1. PICK op, ls, st, me, fd, fg, fi, fl, to, em :
        /\ o = [options |-> op, list |-> ls, stack |-> st, memory |-> me, fired |-> fd, firing |-> fg,
                firingStart |-> 0, firingIndex |-> fi, firingLength |-> fl, told |-> to, emptied |-> em]
        /\ fi \in Int /\ fl \in Int
  BY ListFields
<1>2. PICK t : t = to \union {ls[fi + 1]}
  OBVIOUS
<1>3. p = [options |-> op, list |-> ls, stack |-> st, memory |-> me, fired |-> fd, firing |-> fg,
           firingStart |-> 0, firingIndex |-> fi, firingLength |-> fl, told |-> t, emptied |-> em]
  BY <1>1, <1>2
<1>4. /\ o.list = ls /\ o.firingIndex = fi /\ o.firingLength = fl /\ o.told = to /\ o.emptied = em
      /\ p.list = ls /\ p.firingIndex = fi /\ p.firingLength = fl /\ p.told = t /\ p.emptied = em
  BY <1>1, <1>3
<1>5. /\ \A i \in 1..Len(ls) : ls[i].k = "fn"
      /\ ~em => fl = Len(ls) /\ fi <= Len(ls) /\ \A j \in 1..fi : ls[j] \in to
      /\ fi < fl
  BY <1>4 DEF OwnOK, InLoop, InOrder, UpToTold
<1>6. ASSUME ~em PROVE fi + 1 <= Len(ls) /\ \A j \in 1..fi + 1 : ls[j] \in t
  <2>1. \A j \in 1..fi + 1 : j \in 1..fi \/ j = fi + 1
    BY <1>1
  <2> QED
    BY <1>1, <1>2, <1>5, <1>6, <2>1
<1> QED
  BY <1>4, <1>5, <1>6 DEF OwnOK, InOrder, UpToTold

LEMMA OwnNext ==
  ASSUME NEW o, ListShape(o), OwnOK(o, {"calling"}), NEW p, p = [o EXCEPT !.firingIndex = @ + 1]
  PROVE  OwnOK(p, {"next"})
<1>1. PICK op, ls, st, me, fd, fg, fi, fl, to, em :
        /\ o = [options |-> op, list |-> ls, stack |-> st, memory |-> me, fired |-> fd, firing |-> fg,
                firingStart |-> 0, firingIndex |-> fi, firingLength |-> fl, told |-> to, emptied |-> em]
        /\ fi \in Int /\ fl \in Int
  BY ListFields
<1>2. PICK n : n = fi + 1
  OBVIOUS
<1>3. p = [options |-> op, list |-> ls, stack |-> st, memory |-> me, fired |-> fd, firing |-> fg,
           firingStart |-> 0, firingIndex |-> n, firingLength |-> fl, told |-> to, emptied |-> em]
  BY <1>1, <1>2
<1>4. /\ o.list = ls /\ o.firingIndex = fi /\ o.firingLength = fl /\ o.told = to /\ o.emptied = em
      /\ p.list = ls /\ p.firingIndex = n /\ p.firingLength = fl /\ p.told = to /\ p.emptied = em
  BY <1>1, <1>3
<1> QED
  BY <1>2, <1>4 DEF OwnOK, Enabled, InOrder, UpToTold

\* After the loop: nothing goes on, or a fire that came meanwhile begins.
LEMMA OwnOver ==
  ASSUME NEW L, NEW l, NEW o, ListOK(l, o, L), OwnOK(o, {}), NEW p, p = LoopOver(o)
  PROVE  OwnOK(p, IF p.firing THEN {"next"} ELSE {})
<1>1. PICK op, l0, st, me, fd, fg, fi, fl, to, em :
        /\ o = [options |-> op, list |-> l0, stack |-> st, memory |-> me, fired |-> fd, firing |-> fg,
                firingStart |-> 0, firingIndex |-> fi, firingLength |-> fl, told |-> to, emptied |-> em]
        /\ fd \in BOOLEAN /\ fg \in BOOLEAN /\ fi \in Int /\ fl \in Int
  BY ListFields DEF ListOK
<1>2. PICK q : q = [o EXCEPT !.firing = FALSE]
  OBVIOUS
<1>3. q = [options |-> op, list |-> l0, stack |-> st, memory |-> me, fired |-> fd, firing |-> FALSE,
           firingStart |-> 0, firingIndex |-> fi, firingLength |-> fl, told |-> to, emptied |-> em]
  BY <1>1, <1>2
<1>4. o.list = l0 /\ q.list = l0 /\ q.firing = FALSE
  BY <1>1, <1>3
<1>5. l0 # Nothing => Stack(l0) /\ FnsOnly(l0)
  BY <1>4 DEF ListOK, OwnOK, Enabled, FnsOnly
<1>6. CASE p = q
  <2>1. OwnOK(p, {})
    BY <1>4, <1>5, <1>6, OwnQuiet DEF Enabled
  <2> QED
    BY <1>4, <1>6, <2>1
<1>7. CASE p = [q EXCEPT !.list = <<>>]
  <2>1. p = [options |-> op, list |-> <<>>, stack |-> st, memory |-> me, fired |-> fd, firing |-> FALSE,
             firingStart |-> 0, firingIndex |-> fi, firingLength |-> fl, told |-> to, emptied |-> em]
    BY <1>3, <1>7
  <2>2. p.list = <<>> /\ p.firing = FALSE
    BY <2>1
  <2>3. OwnOK(p, {})
    BY <2>2, StackEmpty, OwnQuiet DEF FnsOnly
  <2> QED
    BY <2>2, <2>3
<1>8. CASE p = Disabled(q)
  <2>1. p = [options |-> op, list |-> Nothing, stack |-> Nothing, memory |-> Nothing, fired |-> fd,
             firing |-> FALSE, firingStart |-> 0, firingIndex |-> fi, firingLength |-> fl,
             told |-> to, emptied |-> em]
    BY <1>3, <1>8 DEF Disabled
  <2>2. p.list = Nothing /\ p.firing = FALSE
    BY <2>1
  <2>3. OwnOK(p, {})
    BY <2>2, OwnQuiet DEF Enabled
  <2> QED
    BY <2>2, <2>3
<1>9. ASSUME NEW x, NEW v, x = [q EXCEPT !.stack = Tail(@)], p = BeginFire(x, v), Enabled(o)
      PROVE  OwnOK(p, {"next"})
  <2>1. PICK ta : ta = Tail(st)
    OBVIOUS
  <2>2. x = [options |-> op, list |-> l0, stack |-> ta, memory |-> me, fired |-> fd, firing |-> FALSE,
             firingStart |-> 0, firingIndex |-> fi, firingLength |-> fl, told |-> to, emptied |-> em]
    BY <1>3, <1>9, <2>1
  <2>3. Fields(x) /\ x.list = l0 /\ x.firingStart = 0
    BY <2>2 DEF Fields
  <2>4. Stack(l0) /\ FnsOnly(l0) /\ Len(l0) \in Nat
    BY <1>4, <1>5, <1>9, StackLen DEF Enabled
  <2>5. PICK n \in Nat : n = 0
    OBVIOUS
  <2>6. OwnOK(BeginFire(x, v), {"next"})
    BY <2>3, <2>4, <2>5, OwnBegun
  <2> QED
    BY <1>9, <2>6
<1>10. \/ p = q \/ p = [q EXCEPT !.list = <<>>] \/ p = Disabled(q)
       \/ Enabled(o) /\ p = BeginFire([q EXCEPT !.stack = Tail(@)], Head(o.stack))
  BY <1>2 DEF LoopOver
<1>11. CASE Enabled(o) /\ p = BeginFire([q EXCEPT !.stack = Tail(@)], Head(o.stack))
  <2>1. OwnOK(p, {"next"})
    BY <1>9, <1>11
  <2>2. OwnOK(p, {})
    BY <2>1, OwnLess
  <2> QED
    BY <2>1, <2>2
<1> QED
  BY <1>6, <1>7, <1>8, <1>10, <1>11

LEMMA OwnAdded ==
  ASSUME NEW L, NEW l, NEW o, ListOK(l, o, L), NEW S, S \subseteq {"calling"}, OwnOK(o, S), ~o.firing => S = {},
         NEW x, x.k = "fn", NEW p, p = Added(o, x)
  PROVE  OwnOK(p, IF Refires(o) THEN {"next"} ELSE S)
<1>1. CASE ~Enabled(o)
  <2>1. p = o /\ ~Refires(o)
    BY <1>1 DEF Added, Refires
  <2> QED
    BY <2>1
<1>2. CASE Enabled(o)
  <2>1. PICK op, l0, st, me, fd, fg, fi, fl, to, em :
          /\ o = [options |-> op, list |-> l0, stack |-> st, memory |-> me, fired |-> fd, firing |-> fg,
                  firingStart |-> 0, firingIndex |-> fi, firingLength |-> fl, told |-> to, emptied |-> em]
          /\ fd \in BOOLEAN /\ fg \in BOOLEAN /\ fi \in Int /\ fl \in Int
    BY ListFields DEF ListOK
  <2>2. /\ o.list = l0 /\ o.firing = fg /\ o.firingIndex = fi /\ o.firingLength = fl /\ o.told = to /\ o.emptied = em
        /\ Stack(l0) /\ Len(l0) \in Nat /\ FnsOnly(l0)
    BY <1>2, <2>1, StackLen DEF ListOK, OwnOK, FnsOnly
  <2>3. PICK ls : /\ Push(o, x) = [o EXCEPT !.list = ls]
                  /\ Stack(ls) /\ Len(ls) \in Nat /\ Len(ls) >= Len(l0) /\ FnsOnly(ls)
                  /\ \A i \in 1..Len(l0) : ls[i] = l0[i]
    <3>1. CASE o.options.unique /\ Contains(o.list, x)
      <4>1. Push(o, x) = o /\ o = [o EXCEPT !.list = l0]
        BY <2>1, <3>1 DEF Push
      <4> QED
        BY <2>2, <4>1
    <3>2. CASE ~(o.options.unique /\ Contains(o.list, x))
      <4>1. PICK a : a = Append(l0, x)
        OBVIOUS
      <4>2. Push(o, x) = [o EXCEPT !.list = a]
        <5>1. Push(o, x) = [o EXCEPT !.list = Append(@, x)]
          BY <3>2 DEF Push
        <5>2. [o EXCEPT !.list = Append(@, x)] = [o EXCEPT !.list = a]
          BY <2>2, <4>1
        <5> QED
          BY <5>1, <5>2
      <4>3. /\ Stack(a) /\ Len(a) = Len(l0) + 1
            /\ \A i \in 1..Len(l0) : a[i] = l0[i]
            /\ a[Len(l0) + 1] = x
        BY <2>2, <4>1, StackPush
      <4>4. FnsOnly(a)
        <5>1. \A i \in 1..Len(a) : i \in 1..Len(l0) \/ i = Len(l0) + 1
          BY <2>2, <4>3
        <5> QED
          BY <2>2, <4>3, <5>1 DEF FnsOnly
      <4>5. Len(a) \in Nat /\ Len(a) >= Len(l0)
        BY <2>2, <4>3
      <4> QED
        BY <4>2, <4>3, <4>4, <4>5
    <3> QED
      BY <3>1, <3>2
  <2>4. PICK q : q = [o EXCEPT !.list = ls]
    OBVIOUS
  <2>5. q = [options |-> op, list |-> ls, stack |-> st, memory |-> me, fired |-> fd, firing |-> fg,
             firingStart |-> 0, firingIndex |-> fi, firingLength |-> fl, told |-> to, emptied |-> em]
    BY <2>1, <2>4
  <2>6. CASE o.firing
    <3>1. p = [q EXCEPT !.firingLength = Len(q.list)]
      BY <1>2, <2>3, <2>4, <2>6 DEF Added
    <3>2. PICK n : n = Len(ls)
      OBVIOUS
    <3>3. p = [options |-> op, list |-> ls, stack |-> st, memory |-> me, fired |-> fd, firing |-> fg,
               firingStart |-> 0, firingIndex |-> fi, firingLength |-> n, told |-> to, emptied |-> em]
      BY <2>5, <3>1, <3>2
    <3>4. p.list = ls /\ p.firingIndex = fi /\ p.firingLength = Len(ls) /\ p.told = to /\ p.emptied = em
      BY <3>2, <3>3
    <3>5. ~Refires(o)
      BY <2>6 DEF Refires
    <3>6. ASSUME ~em, "calling" \in S PROVE InOrder(p, "calling")
      <4>1. fi + 1 <= Len(l0) /\ \A j \in 1..fi + 1 : l0[j] \in to
        BY <1>2, <2>2, <3>6 DEF OwnOK, InOrder, UpToTold
      <4>2. fi + 1 <= Len(ls) /\ \A j \in 1..fi + 1 : j \in 1..Len(l0)
        BY <2>1, <2>2, <2>3, <4>1
      <4>3. \A j \in 1..fi + 1 : ls[j] \in to
        BY <2>3, <4>1, <4>2
      <4> QED
        BY <3>4, <4>2, <4>3 DEF InOrder, UpToTold
    <3>7. OwnOK(p, S)
      BY <2>3, <3>4, <3>6 DEF OwnOK, FnsOnly
    <3> QED
      BY <3>5, <3>7
  <2>7. CASE Refires(o)
    <3>1. PICK n : n = Len(l0) /\ n \in Nat
      BY <2>2
    <3>2. PICK r : r = [q EXCEPT !.firingStart = n]
      OBVIOUS
    <3>3. p = BeginFire(r, o.memory)
      BY <1>2, <2>2, <2>3, <2>4, <2>7, <3>1, <3>2 DEF Added, Refires
    <3>4. r = [options |-> op, list |-> ls, stack |-> st, memory |-> me, fired |-> fd, firing |-> fg,
               firingStart |-> n, firingIndex |-> fi, firingLength |-> fl, told |-> to, emptied |-> em]
      BY <2>5, <3>2
    <3>5. Fields(r) /\ r.list = ls /\ r.firingStart = n
      BY <3>4 DEF Fields
    <3>6. OwnOK(p, {"next"})
      BY <2>3, <3>1, <3>3, <3>5, OwnBegun
    <3> QED
      BY <2>7, <3>6
  <2>8. CASE ~o.firing /\ ~Refires(o)
    <3>1. p = q /\ q.list = ls /\ S = {}
      BY <1>2, <2>3, <2>4, <2>5, <2>8 DEF Added
    <3>2. OwnOK(p, {})
      BY <2>3, <3>1, OwnQuiet
    <3> QED
      BY <2>8, <3>1, <3>2
  <2> QED
    BY <2>6, <2>7, <2>8
<1> QED
  BY <1>1, <1>2

\* The indexes go down by as many as were taken out up to them.
LEMMA OwnRemoved ==
  ASSUME NEW L, NEW l, NEW o, ListOK(l, o, L), NEW S, S \subseteq {"calling"}, OwnOK(o, S), ~o.firing => S = {},
         NEW x, NEW p, p = Removed(o, x)
  PROVE  OwnOK(p, S)
<1>1. CASE ~Enabled(o)
  <2>1. p = o
    BY <1>1 DEF Removed
  <2> QED
    BY <2>1
<1>2. CASE Enabled(o)
  <2>1. PICK op, l0, st, me, fd, fg, fi, fl, to, em :
          /\ o = [options |-> op, list |-> l0, stack |-> st, memory |-> me, fired |-> fd, firing |-> fg,
                  firingStart |-> 0, firingIndex |-> fi, firingLength |-> fl, told |-> to, emptied |-> em]
          /\ fd \in BOOLEAN /\ fg \in BOOLEAN /\ fi \in Int /\ fl \in Int
    BY ListFields DEF ListOK
  <2>2. /\ o.list = l0 /\ o.firing = fg /\ o.firingIndex = fi /\ o.firingLength = fl /\ o.told = to /\ o.emptied = em
        /\ Stack(l0) /\ Len(l0) \in Nat /\ FnsOnly(l0)
        /\ fg => -1 <= fi
    BY <1>2, <2>1, StackLen DEF ListOK, OwnOK, FnsOnly
  <2>3. PICK ls : ls = Without(l0, x)
    OBVIOUS
  <2>4. PICK gl, gi : gl = GoneUpTo(o, x, fl) /\ gi = GoneUpTo(o, x, fi)
    OBVIOUS
  <2>5. PICK nl, ni : nl = (IF fg THEN fl - gl ELSE fl) /\ ni = (IF fg THEN fi - gi ELSE fi)
    OBVIOUS
  <2>6. p = [options |-> op, list |-> ls, stack |-> st, memory |-> me, fired |-> fd, firing |-> fg,
             firingStart |-> 0, firingIndex |-> ni, firingLength |-> nl, told |-> to, emptied |-> em]
    <3>1. p = [o EXCEPT !.list = ls, !.firingLength = nl, !.firingIndex = ni]
      BY <1>2, <2>1, <2>3, <2>4, <2>5 DEF Removed
    <3> QED
      BY <2>1, <3>1
  <2>7. p.list = ls /\ p.firingIndex = ni /\ p.firingLength = nl /\ p.told = to /\ p.emptied = em
    BY <2>6
  <2>8. FnsOnly(ls)
    <3>1. \A i \in 1..Len(ls) : \E j \in 1..Len(l0) : ls[i] = l0[j]
      BY <2>2, <2>3, WithoutKeeps
    <3> QED
      BY <2>2, <3>1 DEF FnsOnly
  <2>9. ASSUME ~em, "calling" \in S PROVE InOrder(p, "calling")
    <3>1. fg
      BY <2>2, <2>9
    <3>2. fl = Len(l0) /\ fi + 1 <= Len(l0) /\ \A j \in 1..fi + 1 : l0[j] \in to
      BY <1>2, <2>2, <2>9 DEF OwnOK, InOrder, UpToTold
    <3>3. DOMAIN o.list = 1..Len(l0)
      BY <2>2, StackLen
    <3>4. gl = Cardinality(Occurs(l0, x))
      <4>1. {i \in 1..Len(l0) : l0[i] = x /\ i - 1 <= fl} = {i \in 1..Len(l0) : l0[i] = x}
        BY <2>2, <3>2
      <4> QED
        BY <2>2, <2>4, <3>3, <4>1 DEF GoneUpTo, Occurs
    <3>5. PICK n \in Nat : n = fi + 1 /\ n <= Len(l0)
      BY <2>1, <2>2, <3>1, <3>2
    <3>6. gi = Cardinality(OccursUpTo(l0, n, x))
      <4>1. {i \in 1..Len(l0) : l0[i] = x /\ i - 1 <= fi} = {i \in 1..n : l0[i] = x}
        BY <2>1, <2>2, <3>5
      <4> QED
        BY <2>2, <2>4, <3>3, <4>1 DEF GoneUpTo, OccursUpTo
    <3>7. Len(ls) = nl
      <4>1. Len(ls) = Len(l0) - Cardinality(Occurs(l0, x))
        BY <2>2, <2>3, WithoutKeeps
      <4> QED
        BY <2>5, <3>1, <3>2, <3>4, <4>1
    <3>8. PICK m : m = n - Cardinality(OccursUpTo(l0, n, x))
      OBVIOUS
    <3>9. m <= Len(ls) /\ \A i \in 1..m : \E j \in 1..n : ls[i] = l0[j]
      BY <2>2, <2>3, <3>5, <3>8, WithoutPrefix
    <3>10. ni + 1 = m
      <4>1. gi \in Nat
        BY <3>6, OccursFarther
      <4> QED
        BY <2>1, <2>5, <3>1, <3>5, <3>6, <3>8, <4>1
    <3>11. \A i \in 1..m : ls[i] \in to
      BY <3>2, <3>5, <3>9
    <3> QED
      BY <2>7, <3>7, <3>9, <3>10, <3>11 DEF InOrder, UpToTold
  <2> QED
    BY <2>7, <2>8, <2>9 DEF OwnOK, FnsOnly
<1> QED
  BY <1>1, <1>2

-----------------------------------------------------------------------------
(***************************************************************************)
(* The steps of the page and of the list's loop.                           *)
(***************************************************************************)

LEMMA OwnOne ==
  ASSUME Inv, TopIs("fire"), Top.l = OwnList
  PROVE  /\ OwnList \in DOMAIN cb /\ Top.pc \in OwnLoops(run)
         /\ Stack(Below) /\ OwnLoops(Below) = {}
         /\ \A pc : Stack(Goto(pc)) /\ OwnLoops(Goto(pc)) \subseteq {pc}
<1>1. PICK n : n = Len(run)
  OBVIOUS
<1>2. /\ n \in Nat \ {0} /\ IsFire(Top, DOMAIN cb) /\ run # <<>> /\ Stack(run)
      /\ OneLoop(run) /\ LoopAt(run, n, OwnList) /\ n \in 1..n
  <2>1. n \in Nat \ {0} /\ IsFire(Top, DOMAIN cb)
    BY <1>1, RestsCalling DEF Inv
  <2>2. run # <<>> /\ Stack(run) /\ OneLoop(run)
    BY DEF Inv, StackOK, Frames, TopIs
  <2>3. LoopAt(run, n, OwnList)
    BY <1>1 DEF TopIs, Top, LoopAt
  <2> QED
    BY <2>1, <2>2, <2>3
<1>3. OwnList \in DOMAIN cb
  BY <1>2 DEF IsFire
<1>4. \A i \in 1..n : LoopAt(run, i, OwnList) => i = n
  BY <1>1, <1>2 DEF OneLoop, LoopAt
<1>5. Top.pc \in OwnLoops(run)
  BY <1>1, <1>2 DEF OwnLoops, Top
<1>6. PICK b : b = Below
  OBVIOUS
<1>7. Stack(b) /\ Len(b) = n - 1 /\ \A i \in 1..n - 1 : b[i] = run[i]
  BY <1>1, <1>2, <1>6, StackPop DEF Below
<1>8. \A i \in 1..Len(b) : ~LoopAt(b, i, OwnList)
  <2>1. \A i \in 1..Len(b) : i \in 1..n /\ i # n /\ b[i] = run[i]
    BY <1>2, <1>7
  <2> QED
    BY <1>4, <2>1 DEF LoopAt
<1>9. OwnLoops(b) = {}
  BY <1>8 DEF OwnLoops
<1>10. ASSUME NEW pc PROVE Stack(Goto(pc)) /\ OwnLoops(Goto(pc)) \subseteq {pc}
  <2>1. PICK s : s = Goto(pc)
    OBVIOUS
  <2>2. /\ Stack(s) /\ Len(s) = n
        /\ s[n] = [f |-> "fire", l |-> Top.l, v |-> Top.v, pc |-> pc]
        /\ \A i \in 1..n - 1 : s[i] = run[i]
    BY <1>1, <2>1, RestsCalling DEF Inv
  <2>3. ASSUME NEW i \in 1..n, LoopAt(s, i, OwnList) PROVE s[i].pc = pc
    <3>1. CASE i = n
      BY <2>2, <3>1
    <3>2. CASE i # n
      <4>1. i \in 1..n - 1
        BY <1>2, <3>2
      <4>2. LoopAt(run, i, OwnList)
        BY <2>2, <2>3, <4>1 DEF LoopAt
      <4> QED
        BY <1>4, <3>2, <4>2
    <3> QED
      BY <3>1, <3>2
  <2>4. OwnLoops(s) \subseteq {pc}
    BY <2>2, <2>3 DEF OwnLoops
  <2> QED
    BY <2>1, <2>2, <2>4
<1> QED
  BY <1>3, <1>5, <1>6, <1>7, <1>9, <1>10

\* One more frame.
LEMMA OwnPush ==
  ASSUME NEW s, Stack(s), NEW x
  PROVE  /\ x.f # "fire" => OwnLoops(Append(s, x)) \subseteq OwnLoops(s)
         /\ OwnLoops(Append(s, x)) \subseteq OwnLoops(s) \union {x.pc}
<1>1. PICK a, n : a = Append(s, x) /\ n = Len(s) /\ n \in Nat
  BY StackLen
<1>2. Len(a) = n + 1 /\ a[n + 1] = x /\ \A i \in 1..n : a[i] = s[i]
  BY <1>1, StackPush
<1>3. ASSUME NEW i \in 1..n + 1, LoopAt(a, i, OwnList)
      PROVE  (x.f = "fire" /\ a[i].pc = x.pc) \/ a[i].pc \in OwnLoops(s)
  <2>1. CASE i = n + 1
    BY <1>2, <1>3, <2>1 DEF LoopAt
  <2>2. CASE i # n + 1
    <3>1. i \in 1..n
      BY <1>1, <2>2
    <3>2. LoopAt(s, i, OwnList) /\ a[i].pc = s[i].pc
      BY <1>2, <1>3, <3>1 DEF LoopAt
    <3> QED
      BY <1>1, <3>1, <3>2 DEF OwnLoops
  <2> QED
    BY <2>1, <2>2
<1> QED
  BY <1>1, <1>2, <1>3 DEF OwnLoops

\* When the page calls, every loop waits; without a fire there is none.
LEMMA OwnPaused ==
  ASSUME Inv, PageRuns
  PROVE  /\ Stack(run) /\ OwnLoops(run) \subseteq {"calling"}
         /\ OwnList \in DOMAIN cb /\ ~cb[OwnList].firing => OwnLoops(run) = {}
<1>1. Stack(run) /\ Paused(run, Len(run))
  BY RestsRun DEF Inv, Rests, Frames
<1>2. OwnLoops(run) \subseteq {"calling"}
  BY <1>1 DEF OwnLoops, Paused, LoopAt
<1>3. \A i \in 1..Len(run) : LoopAt(run, i, OwnList) => cb[OwnList].firing
  BY DEF Inv, StackOK, LoopAt
<1>4. ~cb[OwnList].firing => OwnLoops(run) = {}
  BY <1>3 DEF OwnLoops
<1> QED
  BY <1>1, <1>2, <1>4

LEMMA OwnChanged ==
  ASSUME OwnList \in DOMAIN cb, NEW p, cb' = [cb EXCEPT ![OwnList] = p],
         NEW S, OwnOK(p, S), OwnLoops(run') \subseteq S
  PROVE  OwnTold(cb', run')
<1>1. cb'[OwnList] = p
  OBVIOUS
<1>2. OwnOK(p, OwnLoops(run'))
  BY OwnLess
<1> QED
  BY <1>1, <1>2 DEF OwnTold

LEMMA OwnLoopTold ==
  ASSUME Inv, OwnTold(cb, run), CallPage \/ NextInLoop \/ EndLoop, Top.l = OwnList
  PROVE  OwnTold(cb', run')
<1>1. TopIs("fire")
  BY DEF CallPage, CallFn, Calling, NextInLoop, EndLoop
<1>2. /\ OwnList \in DOMAIN cb /\ Top.pc \in OwnLoops(run)
      /\ Stack(Below) /\ OwnLoops(Below) = {}
      /\ \A pc : Stack(Goto(pc)) /\ OwnLoops(Goto(pc)) \subseteq {pc}
  BY <1>1, OwnOne
<1>3. PICK o : o = cb[OwnList]
  OBVIOUS
<1>4. ListOK(OwnList, o, DOMAIN cb) /\ ListShape(o) /\ OwnOK(o, {Top.pc}) /\ OwnOK(o, {})
  BY <1>2, <1>3, OwnLess DEF Inv, ListsOK, ListOK, OwnTold
<1>5. CASE CallPage
  <2>1. PICK p : p = [o EXCEPT !.told = @ \union {o.list[o.firingIndex + 1]}]
    OBVIOUS
  <2>2. PICK pc, x : pc = "calling" /\ x = FnFrame(Callback.fn, Top.l, Top.v, Nothing)
    OBVIOUS
  <2>3. /\ Top.pc = "next" /\ InLoop(o)
        /\ cb' = [cb EXCEPT ![OwnList] = p] /\ run' = Append(Goto(pc), x)
    BY <1>3, <1>5, <2>1, <2>2 DEF CallPage, CallFn, Calling, Callback
  <2>4. OwnOK(p, {"calling"})
    BY <1>4, <2>1, <2>3, OwnCalled
  <2>5. x.f # "fire"
    BY <2>2 DEF FnFrame
  <2>6. OwnLoops(run') \subseteq {"calling"}
    BY <1>2, <2>2, <2>3, <2>5, OwnPush
  <2> QED
    BY <1>2, <2>3, <2>4, <2>6, OwnChanged
<1>6. CASE NextInLoop
  <2>1. PICK p : p = [o EXCEPT !.firingIndex = @ + 1]
    OBVIOUS
  <2>2. PICK pc : pc = "next"
    OBVIOUS
  <2>3. Top.pc = "calling" /\ cb' = [cb EXCEPT ![OwnList] = p] /\ run' = Goto(pc)
    BY <1>3, <1>6, <2>1, <2>2 DEF NextInLoop
  <2>4. OwnOK(p, {"next"})
    BY <1>4, <2>1, <2>3, OwnNext
  <2>5. OwnLoops(run') \subseteq {"next"}
    BY <1>2, <2>2, <2>3
  <2> QED
    BY <1>2, <2>3, <2>4, <2>5, OwnChanged
<1>7. CASE EndLoop
  <2>1. PICK p : p = LoopOver(o)
    OBVIOUS
  <2>2. PICK x : x = FireFrame(OwnList, Head(o.stack))
    OBVIOUS
  <2>3. cb' = [cb EXCEPT ![OwnList] = p] /\ run' = IF p.firing THEN Append(Below, x) ELSE Below
    BY <1>3, <1>7, <2>1, <2>2 DEF EndLoop
  <2>4. PICK S : S = IF p.firing THEN {"next"} ELSE {}
    OBVIOUS
  <2>5. OwnOK(p, S)
    BY <1>4, <2>1, <2>4, OwnOver
  <2>6. x.pc = "next"
    BY <2>2 DEF FireFrame
  <2>7. OwnLoops(run') \subseteq S
    BY <1>2, <2>3, <2>4, <2>6, OwnPush
  <2> QED
    BY <1>2, <2>3, <2>5, <2>7, OwnChanged
<1> QED
  BY <1>5, <1>6, <1>7

LEMMA OwnCallsTold ==
  ASSUME Inv, OwnTold(cb, run), ListCalls(OwnList)
  PROVE  OwnTold(cb', run')
<1>1. PageRuns /\ calls["list"] > 0
  BY DEF ListCalls, Add, Fire, RemoveFn, Empty, Disable, Lock, Change, Spend
<1>2. OwnList \in DOMAIN cb
  BY <1>1 DEF Inv, PageOK
<1>3. PICK o, S : o = cb[OwnList] /\ S = OwnLoops(run)
  OBVIOUS
<1>4. /\ ListOK(OwnList, o, DOMAIN cb) /\ ListShape(o) /\ OwnOK(o, S) /\ Stack(run)
      /\ S \subseteq {"calling"} /\ (~o.firing => S = {})
  BY <1>1, <1>2, <1>3, OwnPaused DEF Inv, ListsOK, ListOK, OwnTold
<1>5. PICK op, l0, st, me, fd, fg, fi, fl, to, em :
        o = [options |-> op, list |-> l0, stack |-> st, memory |-> me, fired |-> fd, firing |-> fg,
             firingStart |-> 0, firingIndex |-> fi, firingLength |-> fl, told |-> to, emptied |-> em]
  BY <1>4, ListFields
<1>6. /\ o.options = op /\ o.list = l0 /\ o.stack = st /\ o.memory = me /\ o.firing = fg /\ o.firingStart = 0
      /\ o.firingIndex = fi /\ o.firingLength = fl /\ o.told = to /\ o.emptied = em
  BY <1>5
<1>7. ASSUME NEW fn \in Fn, Add(OwnList, fn) PROVE OwnTold(cb', run')
  <2>1. PICK c, p, x : c = OfPage(fn) /\ p = Added(o, c) /\ x = FireFrame(OwnList, o.memory)
    OBVIOUS
  <2>2. cb' = [cb EXCEPT ![OwnList] = p] /\ run' = IF Refires(o) THEN Append(run, x) ELSE run
    BY <1>3, <1>7, <2>1 DEF Add, AddThen
  <2>3. c.k = "fn"
    BY <2>1 DEF OfPage
  <2>4. PICK T : T = IF Refires(o) THEN {"next"} ELSE S
    OBVIOUS
  <2>5. OwnOK(p, T)
    BY <1>4, <2>1, <2>3, <2>4, OwnAdded
  <2>6. OwnLoops(run') \subseteq T
    <3>1. CASE Refires(o)
      <4>1. S = {} /\ x.pc = "next"
        BY <1>4, <2>1, <3>1 DEF Refires, FireFrame
      <4> QED
        BY <1>3, <1>4, <2>2, <2>4, <3>1, <4>1, OwnPush
    <3>2. CASE ~Refires(o)
      BY <1>3, <2>2, <2>4, <3>2
    <3> QED
      BY <3>1, <3>2
  <2> QED
    BY <1>2, <2>2, <2>5, <2>6, OwnChanged
<1>8. ASSUME NEW v \in Value, Fire(OwnList, v) PROVE OwnTold(cb', run')
  <2>1. PICK p, x : p = FiredWith(o, v) /\ x = FireFrame(OwnList, v)
    OBVIOUS
  <2>2. /\ cb' = [cb EXCEPT ![OwnList] = p]
        /\ run' = IF Fires(o) /\ ~Waits(o) THEN Append(run, x) ELSE run
    BY <1>3, <1>8, <2>1 DEF Fire, FireThen
  <2>3. CASE ~Fires(o)
    <3>1. p = o /\ run' = run
      BY <2>1, <2>2, <2>3 DEF FiredWith
    <3> QED
      BY <1>2, <1>3, <1>4, <2>2, <3>1, OwnChanged
  <2>4. CASE Fires(o) /\ Waits(o)
    <3>1. PICK a : a = Append(st, v)
      OBVIOUS
    <3>2. p = [options |-> op, list |-> l0, stack |-> a, memory |-> me, fired |-> fd, firing |-> fg,
               firingStart |-> 0, firingIndex |-> fi, firingLength |-> fl, told |-> to, emptied |-> em]
      <4>1. p = [o EXCEPT !.stack = Append(@, v)]
        BY <2>1, <2>4 DEF FiredWith
      <4> QED
        BY <1>5, <3>1, <4>1
    <3>3. SameOwn(p, o) /\ run' = run
      BY <1>6, <2>2, <2>4, <3>2 DEF SameOwn
    <3>4. OwnOK(p, S)
      BY <1>4, <3>3 DEF SameOwn, OwnOK, Enabled, InOrder, UpToTold
    <3> QED
      BY <1>2, <1>3, <2>2, <3>3, <3>4, OwnChanged
  <2>5. CASE Fires(o) /\ ~Waits(o)
    <3>1. p = BeginFire(o, v) /\ run' = Append(run, x) /\ S = {} /\ x.pc = "next"
      BY <1>4, <2>1, <2>2, <2>5 DEF FiredWith, Waits, FireFrame
    <3>2. PICK n \in Nat : n = 0
      OBVIOUS
    <3>3. Stack(o.list) /\ FnsOnly(o.list) /\ n <= Len(o.list) /\ Fields(o) /\ o.firingStart = n
      BY <1>4, <2>5, <3>2, StackLen DEF Fires, OwnOK, FnsOnly, ListOK, ListShape
    <3>4. OwnOK(p, {"next"})
      BY <3>1, <3>3, OwnBegun
    <3>5. OwnLoops(run') \subseteq {"next"}
      BY <1>3, <1>4, <3>1, OwnPush
    <3> QED
      BY <1>2, <2>2, <3>4, <3>5, OwnChanged
  <2> QED
    BY <2>3, <2>4, <2>5
<1>9. ASSUME NEW p, OwnOK(p, S), Change(OwnList, p) PROVE OwnTold(cb', run')
  <2>1. cb' = [cb EXCEPT ![OwnList] = p] /\ run' = run
    BY <1>9 DEF Change
  <2> QED
    BY <1>2, <1>3, <1>9, <2>1, OwnChanged
<1>10. \A x : OwnOK(Removed(o, x), S)
  BY <1>4, OwnRemoved
<1>11. OwnOK(Emptied(o), S)
  <2>1. PICK p : p = Emptied(o)
    OBVIOUS
  <2>2. p = [options |-> op, list |-> <<>>, stack |-> st, memory |-> me, fired |-> fd, firing |-> fg,
             firingStart |-> 0, firingIndex |-> fi, firingLength |-> 0, told |-> to, emptied |-> TRUE]
    BY <1>5, <2>1 DEF Emptied
  <2>3. p.list = <<>> /\ p.emptied = TRUE
    BY <2>2
  <2> QED
    BY <2>1, <2>3, StackEmpty DEF OwnOK
<1>12. ASSUME NEW q, NEW x, q = [options |-> op, list |-> l0, stack |-> x, memory |-> me, fired |-> fd, firing |-> fg,
                firingStart |-> 0, firingIndex |-> fi, firingLength |-> fl, told |-> to, emptied |-> em]
       PROVE  OwnOK(q, S) /\ OwnOK(Disabled(q), S)
  <2>1. SameOwn(q, o)
    BY <1>6, <1>12 DEF SameOwn
  <2>2. OwnOK(q, S)
    BY <1>4, <2>1 DEF SameOwn, OwnOK, Enabled, InOrder, UpToTold
  <2>3. PICK p : p = Disabled(q)
    OBVIOUS
  <2>4. p = [options |-> op, list |-> Nothing, stack |-> Nothing, memory |-> Nothing, fired |-> fd,
             firing |-> fg, firingStart |-> 0, firingIndex |-> fi, firingLength |-> fl,
             told |-> to, emptied |-> em]
    BY <1>12, <2>3 DEF Disabled
  <2>5. p.list = Nothing
    BY <2>4
  <2> QED
    BY <2>2, <2>3, <2>5 DEF OwnOK, Enabled
<1>13. OwnOK(Disabled(o), S)
  BY <1>5, <1>12
<1>14. OwnOK(Locked(o), S)
  <2>1. PICK q : q = [o EXCEPT !.stack = Nothing]
    OBVIOUS
  <2>2. q = [options |-> op, list |-> l0, stack |-> Nothing, memory |-> me, fired |-> fd, firing |-> fg,
             firingStart |-> 0, firingIndex |-> fi, firingLength |-> fl, told |-> to, emptied |-> em]
    BY <1>5, <2>1
  <2>3. Locked(o) = q \/ Locked(o) = Disabled(q)
    BY <2>1 DEF Locked
  <2> QED
    BY <1>12, <2>2, <2>3
<1>15. \/ \E fn \in Fn : Add(OwnList, fn)
       \/ \E v \in Value : Fire(OwnList, v)
       \/ \E p : OwnOK(p, S) /\ Change(OwnList, p)
  BY <1>3, <1>10, <1>11, <1>13, <1>14 DEF ListCalls, RemoveFn, Empty, Disable, Lock
<1> QED
  BY <1>7, <1>8, <1>9, <1>15

-----------------------------------------------------------------------------
(***************************************************************************)
(* Every callback of the list is told.                                     *)
(***************************************************************************)

LEMMA OwnAtFirst == Init => OwnTold(cb, run)
<1> SUFFICES ASSUME Init, OwnList \in DOMAIN cb PROVE OwnOK(cb[OwnList], OwnLoops(run))
  BY DEF OwnTold
<1>1. PICK o : cb[OwnList] = New(o)
  BY DEF Init
<1>2. New(o).list = <<>>
  BY DEF New
<1>3. FnsOnly(cb[OwnList].list)
  BY <1>1, <1>2, StackEmpty DEF FnsOnly
<1>4. OwnLoops(run) = {}
  BY StackEmpty DEF Init, OwnLoops
<1> QED
  BY <1>3, <1>4, OwnQuiet

LEMMA OwnStep ==
  ASSUME Inv, OwnTold(cb, run), [Next]_vars
  PROVE  OwnTold(cb', run')
<1>1. CASE UNCHANGED vars
  <2>1. UNCHANGED <<cb, run>>
    BY <1>1 DEF vars, ajaxVars, defVars, cbVars
  <2> QED
    BY <2>1
<1>2. CASE (CallPage \/ NextInLoop \/ EndLoop) /\ Top.l = OwnList
  BY <1>2, OwnLoopTold
<1>3. CASE ListCalls(OwnList)
  BY <1>3, OwnCallsTold
<1>4. CASE ListStep /\ ~ListCalls(OwnList) /\ ~((NextInLoop \/ EndLoop) /\ Top.l = OwnList)
  BY <1>4, ElsewhereListStep, ElsewhereTold DEF ListStep
<1>5. CASE DeferredSteps /\ ~(CallPage /\ Top.l = OwnList)
  BY <1>5, ElsewhereDeferredSteps, ElsewhereTold
<1>6. CASE DeferredCalls
  BY <1>6, ElsewhereDeferredCalls, ElsewhereTold
<1>7. CASE AjaxStep
  BY <1>7, ElsewhereAjax, ElsewhereTold
<1>8. CASE ReadySteps \/ ReadyCalls \/ Load \/ Timer
  BY <1>8, ElsewhereReady, ElsewhereTold
<1> QED
  BY <1>1, <1>2, <1>3, <1>4, <1>5, <1>6, <1>7, <1>8 DEF Next, DeferredStep

\* The loop ends at the end of the list.
LEMMA OwnEnd ==
  ASSUME Inv, OwnTold(cb, run), EndLoop, Top.l = OwnList, Top.pc = "next",
         Enabled(cb[OwnList]), ~cb[OwnList].emptied
  PROVE  ToSet(cb[OwnList].list) \subseteq cb[OwnList].told
<1>1. TopIs("fire")
  BY DEF EndLoop
<1>2. OwnList \in DOMAIN cb /\ Top.pc \in OwnLoops(run)
  BY <1>1, OwnOne
<1>3. PICK o : o = cb[OwnList]
  OBVIOUS
<1>4. InOrder(o, "next") /\ ListOK(OwnList, o, DOMAIN cb)
  BY <1>2, <1>3 DEF OwnTold, OwnOK, Inv, ListsOK
<1>5. ~(o.firingIndex < o.firingLength)
  BY <1>3 DEF EndLoop, InLoop
<1>6. /\ Stack(o.list) /\ Len(o.list) \in Nat /\ o.firingIndex \in Int
      /\ o.firingLength = Len(o.list) /\ o.firingIndex <= Len(o.list)
      /\ \A j \in 1..o.firingIndex : o.list[j] \in o.told
  BY <1>3, <1>4, StackLen DEF ListOK, ListShape, InOrder, UpToTold
<1>7. o.firingIndex = Len(o.list)
  BY <1>5, <1>6
<1>8. DOMAIN o.list = 1..Len(o.list)
  BY <1>6, StackLen
<1> QED
  BY <1>3, <1>6, <1>7, <1>8 DEF ToSet

\* For every list, script and number of calls: whatever callbacks add, remove or
\* fire while the page's list is firing, a loop that nobody stopped or emptied
\* the list under ends with every callback on it called.
THEOREM NobodySkippedAlways == Spec => NobodySkipped
<1>1. Init => Inv /\ OwnTold(cb, run)
  BY InitOK, OwnAtFirst
<1>2. Inv /\ OwnTold(cb, run) /\ [Next]_vars => (Inv /\ OwnTold(cb, run))'
  BY StepOK, Stutter, OwnStep
<1>3. Inv /\ OwnTold(cb, run) =>
        [(EndLoop /\ Top.l = OwnList /\ Top.pc = "next" /\ Enabled(cb[OwnList]) /\ ~cb[OwnList].emptied)
           => ToSet(cb[OwnList].list) \subseteq cb[OwnList].told]_vars
  BY OwnEnd
<1> QED
  BY <1>1, <1>2, <1>3, PTL DEF Spec, NobodySkipped
=============================================================================
