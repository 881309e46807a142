----------------------------- MODULE PageLemmas -----------------------------
(***************************************************************************)
(* What the proofs about the page rest on, for any lists, Deferreds,       *)
(* requests, functions and scripts: an invariant of the lists, the call    *)
(* stack and the rest, and that the operations on one list keep it.        *)
(*                                                                         *)
(* Only the frame on top of the stack is at work: every loop below it      *)
(* waits for what it called, and no list has two loops.  A list with a     *)
(* loop says it is firing, and whatever is told of a Deferred is what its  *)
(* list remembers.  A Deferred settles once because the list of the other  *)
(* outcome is disabled as soon as one fires, or else the loop of that one  *)
(* is on top and at the first two callbacks of its three, which are the    *)
(* library's and call nobody.                                              *)
(***************************************************************************)
EXTENDS PageScripts, FiniteSetTheorems, SequenceTheorems, NaturalsInduction, WellFoundedInduction, TLAPS

-----------------------------------------------------------------------------
(***************************************************************************)
(* Sequences used as call stacks: what is left of one that is popped, cut, *)
(* pushed to or changed in place.  What frames are is left open.           *)
(***************************************************************************)

\* A sequence, of whatever it holds.
Stack(r) == r \in Seq({r[i] : i \in 1..Len(r)})

LEMMA SeqIsStack ==
  ASSUME NEW S, NEW r \in Seq(S)
  PROVE  Stack(r)
BY DEF Stack

LEMMA StackIsSeq ==
  ASSUME NEW r, Stack(r)
  PROVE  \E S : r \in Seq(S)
BY DEF Stack

LEMMA StackLen ==
  ASSUME NEW r, Stack(r)
  PROVE  /\ Len(r) \in Nat /\ DOMAIN r = 1..Len(r)
         /\ (r = <<>>) <=> (Len(r) = 0)
<1>1. PICK S : r \in Seq(S)
  BY StackIsSeq
<1> QED
  BY <1>1

\* Two stacks are equal if they are as long and hold the same.
LEMMA StackEqual ==
  ASSUME NEW r, Stack(r), NEW s, Stack(s), Len(r) = Len(s), \A i \in 1..Len(r) : r[i] = s[i]
  PROVE  r = s
<1>1. PICK R : r \in Seq(R)
  BY StackIsSeq
<1>2. PICK S : s \in Seq(S)
  BY StackIsSeq
<1> QED
  BY <1>1, <1>2

LEMMA StackEmpty == Stack(<<>>) /\ Len(<<>>) = 0
<1>1. <<>> \in Seq({})
  OBVIOUS
<1> QED
  BY <1>1, SeqIsStack

LEMMA StackOne ==
  ASSUME NEW x
  PROVE  Stack(<<x>>) /\ Len(<<x>>) = 1 /\ <<x>>[1] = x
<1>1. <<x>> \in Seq({x})
  OBVIOUS
<1>2. Stack(<<x>>)
  BY <1>1, SeqIsStack
<1> QED
  BY <1>2

LEMMA StackCut ==
  ASSUME NEW r, Stack(r), NEW n \in 0..Len(r)
  PROVE  /\ Stack(SubSeq(r, 1, n)) /\ Len(SubSeq(r, 1, n)) = n
         /\ \A i \in 1..n : SubSeq(r, 1, n)[i] = r[i]
<1>1. PICK S : r \in Seq(S)
  BY StackIsSeq
<1>2. SubSeq(r, 1, n) \in Seq(S) /\ Len(SubSeq(r, 1, n)) = n
  BY <1>1
<1>3. \A i \in 1..n : SubSeq(r, 1, n)[i] = r[i]
  BY <1>1
<1>4. Stack(SubSeq(r, 1, n))
  BY <1>2, SeqIsStack
<1> QED
  BY <1>2, <1>3, <1>4

LEMMA StackPop ==
  ASSUME NEW r, Stack(r), r # <<>>
  PROVE  /\ Len(r) \in Nat \ {0}
         /\ Stack(Front(r)) /\ Len(Front(r)) = Len(r) - 1
         /\ \A i \in 1..Len(r) - 1 : Front(r)[i] = r[i]
<1>1. Len(r) \in Nat \ {0}
  BY StackLen
<1>2. Len(r) - 1 \in 0..Len(r)
  BY <1>1
<1> QED
  BY <1>1, <1>2, StackCut DEF Front

LEMMA StackConcat ==
  ASSUME NEW r, Stack(r), NEW s, Stack(s)
  PROVE  /\ Stack(r \o s) /\ Len(r \o s) = Len(r) + Len(s)
         /\ \A i \in 1..Len(r) : (r \o s)[i] = r[i]
         /\ \A i \in 1..Len(s) : (r \o s)[Len(r) + i] = s[i]
         /\ \A i \in Len(r) + 1..Len(r) + Len(s) : (r \o s)[i] = s[i - Len(r)]
<1>1. PICK R : r \in Seq(R)
  BY StackIsSeq
<1>2. PICK S : s \in Seq(S)
  BY StackIsSeq
<1>3. r \in Seq(R \cup S) /\ s \in Seq(R \cup S)
  BY <1>1, <1>2
<1>4. r \o s \in Seq(R \cup S) /\ Len(r \o s) = Len(r) + Len(s)
  BY <1>3
<1>5. \A i \in 1..Len(r) + Len(s) : (r \o s)[i] = IF i <= Len(r) THEN r[i] ELSE s[i - Len(r)]
  BY <1>3, ConcatProperties
<1>6. Stack(r \o s)
  BY <1>4, SeqIsStack
<1>7. Len(r) \in Nat /\ Len(s) \in Nat
  BY StackLen
<1>8. \A i \in 1..Len(r) : (r \o s)[i] = r[i]
  BY <1>5, <1>7
<1>9. \A i \in 1..Len(s) : (r \o s)[Len(r) + i] = s[i]
  <2> SUFFICES ASSUME NEW i \in 1..Len(s)
               PROVE  (r \o s)[Len(r) + i] = s[i]
    OBVIOUS
  <2>1. PICK j : j = Len(r) + i
    OBVIOUS
  <2>2. j \in 1..Len(r) + Len(s) /\ ~(j <= Len(r)) /\ j - Len(r) = i
    BY <1>7, <2>1
  <2>3. (r \o s)[j] = s[j - Len(r)]
    BY <1>5, <2>2
  <2> QED
    BY <2>1, <2>2, <2>3
<1>10. \A i \in Len(r) + 1..Len(r) + Len(s) : (r \o s)[i] = s[i - Len(r)]
  BY <1>5, <1>7
<1> QED
  BY <1>4, <1>6, <1>8, <1>9, <1>10

LEMMA StackPush ==
  ASSUME NEW r, Stack(r), NEW x
  PROVE  /\ Stack(Append(r, x)) /\ Len(Append(r, x)) = Len(r) + 1
         /\ \A i \in 1..Len(r) : Append(r, x)[i] = r[i]
         /\ Append(r, x)[Len(r) + 1] = x
<1>1. PICK R : r \in Seq(R)
  BY StackIsSeq
<1>2. r \in Seq(R \cup {x}) /\ x \in R \cup {x}
  BY <1>1
<1>3. Append(r, x) \in Seq(R \cup {x}) /\ Len(Append(r, x)) = Len(r) + 1
  BY <1>2
<1>4. Stack(Append(r, x))
  BY <1>3, SeqIsStack
<1>5. /\ \A i \in 1..Len(r) : Append(r, x)[i] = r[i]
      /\ Append(r, x)[Len(r) + 1] = x
  BY <1>2, AppendProperties
<1> QED
  BY <1>3, <1>4, <1>5

LEMMA StackSetTop ==
  ASSUME NEW r, Stack(r), r # <<>>, NEW x
  PROVE  /\ Stack(Append(Front(r), x)) /\ Len(Append(Front(r), x)) = Len(r)
         /\ \A i \in 1..Len(r) - 1 : Append(Front(r), x)[i] = r[i]
         /\ Append(Front(r), x)[Len(r)] = x
<1>1. PICK q : q = Front(r)
  OBVIOUS
<1>2. PICK n : n = Len(r)
  OBVIOUS
<1>3. /\ Stack(q) /\ n \in Nat \ {0} /\ Len(q) = n - 1
      /\ \A i \in 1..n - 1 : q[i] = r[i]
  BY <1>1, <1>2, StackPop
<1>4. /\ Stack(Append(q, x)) /\ Len(Append(q, x)) = n - 1 + 1
      /\ \A i \in 1..n - 1 : Append(q, x)[i] = q[i]
      /\ Append(q, x)[n - 1 + 1] = x
  BY <1>3, StackPush
<1>5. n - 1 + 1 = n
  BY <1>3
<1> QED
  BY <1>1, <1>2, <1>3, <1>4, <1>5

LEMMA StackExcept ==
  ASSUME NEW r, Stack(r), NEW n, NEW x, NEW s, s = [r EXCEPT ![n] = x]
  PROVE  /\ Stack(s) /\ Len(s) = Len(r)
         /\ n \in 1..Len(r) => s[n] = x
         /\ \A i \in 1..Len(r) : i # n => s[i] = r[i]
<1>1. PICK R : r \in Seq(R)
  BY StackIsSeq
<1>2. r \in Seq(R \cup {x}) /\ x \in R \cup {x}
  BY <1>1
<1>3. CASE n \in 1..Len(r)
  <2>1. /\ s \in Seq(R \cup {x}) /\ Len(s) = Len(r)
        /\ \A i \in 1..Len(r) : s[i] = IF i = n THEN x ELSE r[i]
    BY <1>2, <1>3, ExceptSeq
  <2> QED
    BY <1>3, <2>1, SeqIsStack
<1>4. CASE n \notin 1..Len(r)
  <2>1. s = r
    BY <1>2, <1>4
  <2> QED
    BY <1>4, <2>1
<1> QED
  BY <1>3, <1>4

LEMMA StackTail ==
  ASSUME NEW r, Stack(r), r # <<>>
  PROVE  /\ Stack(Tail(r)) /\ Len(Tail(r)) = Len(r) - 1 /\ Len(r) \in Nat \ {0}
         /\ \A i \in 1..Len(r) - 1 : Tail(r)[i] = r[i + 1]
         /\ Head(r) = r[1]
<1>1. PICK R : r \in Seq(R)
  BY StackIsSeq
<1>2. /\ Tail(r) \in Seq(R) /\ Len(Tail(r)) = Len(r) - 1 /\ Len(r) \in Nat \ {0}
      /\ \A i \in 1..Len(r) - 1 : Tail(r)[i] = r[i + 1]
      /\ Head(r) = r[1]
  BY <1>1, HeadTailProperties
<1>3. Stack(Tail(r))
  BY <1>2, SeqIsStack
<1> QED
  BY <1>2, <1>3

-----------------------------------------------------------------------------
(***************************************************************************)
(* The first and the last of a set of numbers.                             *)
(***************************************************************************)

LEMMA HasFirst ==
  ASSUME NEW T \in SUBSET Nat, T # {}
  PROVE  \E t \in T : \A u \in T : t <= u
<1>1. PICK R : R = {ss \in Nat \X Nat : ss[1] < ss[2]}
  OBVIOUS
<1>2. IsWellFoundedOn({ss \in Nat \X Nat : ss[1] < ss[2]}, Nat)
  BY NatLessThanWellFounded DEF OpToRel
<1>3. IsWellFoundedOn(R, Nat)
  BY <1>1, <1>2
<1>4. PICK t \in T : \A u \in T : <<u, t>> \notin R
  BY <1>3, WFMin
<1>5. \A u \in T : ~(u < t)
  BY <1>1, <1>4
<1> QED
  BY <1>5

LEMMA HasLast ==
  ASSUME NEW n \in Nat, NEW S \in SUBSET (1..n), S # {}
  PROVE  \E m \in S : \A j \in S : j <= m
<1>1. PICK T : T = {n - i : i \in S}
  OBVIOUS
<1>2. T \in SUBSET Nat /\ T # {}
  <2>1. \A i \in S : i \in 1..n
    OBVIOUS
  <2>2. \A i \in S : n - i \in Nat
    BY <2>1
  <2> QED
    BY <1>1, <2>2
<1>3. PICK t \in T : \A u \in T : t <= u
  BY <1>2, HasFirst
<1>4. PICK m \in S : t = n - m
  BY <1>1
<1>5. ASSUME NEW j \in S
      PROVE  j <= m
  <2>1. n - j \in T /\ n - m <= n - j
    BY <1>1, <1>3, <1>4
  <2>2. j \in 1..n /\ m \in 1..n
    OBVIOUS
  <2> QED
    BY <2>1, <2>2
<1> QED
  BY <1>5

-----------------------------------------------------------------------------
(***************************************************************************)
(* The lists.                                                              *)
(***************************************************************************)

SettlingList == DefId \X Settling

Partner(l) == <<l[1], Other(l[2])>>

\* The Deferred was made, so that its three lists are in L, and is not that of
\* ready, which nobody but ready itself may settle.
Free(d, L) == d \in DefId \ {ReadyList} /\ {d} \X Action \subseteq L

\* The list is one of such a Deferred.
Ref(l, L) == l \in L \ {OwnList} /\ Free(l[1], L)

\* What may be added to a list.
Addable(c, L) ==
  \/ c.k = "fn"
  \/ c.k \in {"settle", "then"} /\ Ref(c.l, L)
  \/ c.k = "update" /\ Free(c.m, L)

\* One of the three callbacks a Deferred begins with.
OneOfFirst(l, i, c) == l \in SettlingList /\ i \in 1..3 /\ c = FirstCallbacks(l[1], l[2])[i]

HasFirstThree(l, s) == Len(s) >= 3 /\ \A i \in 1..3 : s[i] = FirstCallbacks(l[1], l[2])[i]

Fields(o) ==
  o = [options |-> o.options, list |-> o.list, stack |-> o.stack, memory |-> o.memory,
       fired |-> o.fired, firing |-> o.firing, firingStart |-> o.firingStart,
       firingIndex |-> o.firingIndex, firingLength |-> o.firingLength,
       told |-> o.told, emptied |-> o.emptied]

ListShape(o) ==
  /\ Fields(o)
  /\ o.fired \in BOOLEAN /\ o.firing \in BOOLEAN
  /\ o.firingStart = 0 /\ o.firingIndex \in Int /\ o.firingLength \in Int

ListOK(l, o, L) ==
  /\ ListShape(o)
  /\ Enabled(o) =>
       /\ Stack(o.list)
       /\ \A i \in 1..Len(o.list) : Addable(o.list[i], L) \/ OneOfFirst(l, i, o.list[i])
       /\ o.firing => o.firingLength <= Len(o.list)
  /\ o.firing => -1 <= o.firingIndex

SettlingOK(l, o) ==
  /\ o.options = OnceMemory /\ o.stack = Nothing
  /\ ~o.fired => /\ ~o.firing /\ o.memory = Nothing
                 /\ Enabled(o) => HasFirstThree(l, o.list)

ListsOK(c) ==
  \A l \in DOMAIN c : ListOK(l, c[l], DOMAIN c) /\ (l \in SettlingList => SettlingOK(l, c[l]))

-----------------------------------------------------------------------------
CallOK(x, L) ==
  \/ /\ x.op = "add" /\ x.l \in L \ {OwnList} /\ Addable(x.c, L)
     /\ x.l = <<ReadyList, "done">> => x.c \in {OfPage(fn) : fn \in Fn}
  \/ x.op = "fire" /\ x.l \in L \ {OwnList} /\ x.l # <<ReadyList, "fail">>
  \/ x.op \in {"leave", "waitless"} /\ Free(x.m, L)
  \/ x.op \in {"globals", "beforeSend", "install", "transport", "send", "inactive"}
       /\ x.q \in ReqId /\ {x.q} \X {"done", "fail", "complete"} \subseteq L
  \/ x.op \in {"trigger", "ready", "off"}

CallsOK(s, L) == Stack(s) /\ \A i \in 1..Len(s) : CallOK(s[i], L)

IsFire(x, L) == x.f = "fire" /\ x = [f |-> "fire", l |-> x.l, v |-> x.v, pc |-> x.pc] /\ x.l \in L
IsFn(x, L) ==
  /\ x.f = "fn" /\ x = [f |-> "fn", fn |-> x.fn, l |-> x.l, v |-> x.v, to |-> x.to]
  /\ x.l = Nothing \/ x.l \in L
  /\ x.to = Nothing \/ Ref(x.to, L)
IsTodo(x, L) == x.f = "todo" /\ x = [f |-> "todo", todo |-> x.todo] /\ x.todo # <<>> /\ CallsOK(x.todo, L)

Frames(r, L) ==
  Stack(r) /\ \A i \in 1..Len(r) : IsFire(r[i], L) \/ IsFn(r[i], L) \/ IsTodo(r[i], L)

\* The loops among the first n frames wait for what they called.
Paused(r, n) == \A i \in 1..n : r[i].f = "fire" => r[i].pc = "calling"

LoopAt(r, i, l) == r[i].f = "fire" /\ r[i].l = l
Looping(r, l) == \E i \in 1..Len(r) : LoopAt(r, i, l)
OneLoop(r) == \A i, j \in 1..Len(r) : r[i].f = "fire" /\ LoopAt(r, j, r[i].l) => i = j

\* Whoever is told of a Deferred ...
ToldRight(r, c) ==
  \A i \in 1..Len(r) : r[i].f \in {"fire", "fn"} /\ r[i].l \in SettlingList
    => r[i].l \in DOMAIN c /\ c[r[i].l].fired /\ r[i].v = c[r[i].l].memory

Early(c, r, l) ==
  /\ r # <<>> /\ LoopAt(r, Len(r), l)
  /\ Enabled(c[l]) /\ HasFirstThree(l, c[l].list) /\ c[l].firingLength >= 3
  /\ \/ r[Len(r)].pc = "next" /\ c[l].firingIndex \in {0, 1}
     \/ r[Len(r)].pc = "calling" /\ c[l].firingIndex = 0

Settled(c, r) ==
  \A l \in SettlingList : l \in DOMAIN c /\ c[l].fired =>
    ~c[Partner(l)].fired /\ (~Enabled(c[Partner(l)]) \/ Early(c, r, l))

StackOK(c, r, t) ==
  /\ Frames(r, DOMAIN c) /\ Paused(r, Len(r) - 1) /\ OneLoop(r) /\ ToldRight(r, c)
  /\ \A i \in 1..Len(r) : r[i].f = "fire" =>
       c[r[i].l].firing /\ (r[i].pc = "next" => c[r[i].l].firingIndex >= 0)
  /\ ~t => \A l \in DOMAIN c : c[l].firing => Looping(r, l)

\* The rest of the page.
RequestShape(r) ==
  r = [asked |-> r.asked, state |-> r.state, globals |-> r.globals, transport |-> r.transport,
       timer |-> r.timer, wire |-> r.wire, known |-> r.known, onStatus |-> r.onStatus, dones |-> r.dones]

RequestOK(q, r, L) ==
  /\ RequestShape(r)
  /\ CallsOK(r.onStatus, L)
  /\ r.timer \/ r.wire \/ r.known => {q} \X {"done", "fail", "complete"} \subseteq L

PageOK ==
  /\ state \in [DefId -> {"none", "pending", "resolved", "rejected"}]
  /\ \A d \in DefId, a \in Action : <<d, a>> \in DOMAIN cb <=> Made(d)
  /\ \A d \in own : d \in DefId \ {ReadyList} /\ Made(d)
  /\ calls \in [Kinds -> Nat] /\ (calls["list"] > 0 => OwnList \in DOMAIN cb)
  /\ DOMAIN req = ReqId /\ \A q \in ReqId : RequestOK(q, req[q], DOMAIN cb)

Inv == ListsOK(cb) /\ StackOK(cb, run, threw) /\ Settled(cb, run) /\ PageOK

-----------------------------------------------------------------------------
(***************************************************************************)
(* What is well formed stays so when there are more lists.                 *)
(***************************************************************************)

LEMMA AddableGrows ==
  ASSUME NEW L, NEW M, L \subseteq M, NEW x, Addable(x, L)
  PROVE  Addable(x, M)
BY DEF Addable, Ref, Free

LEMMA CallsGrow ==
  ASSUME NEW L, NEW M, L \subseteq M, NEW q, CallsOK(q, L)
  PROVE  CallsOK(q, M)
<1>1. ASSUME NEW x, CallOK(x, L)
      PROVE  CallOK(x, M)
  BY <1>1, AddableGrows DEF CallOK, Free
<1> QED
  BY <1>1 DEF CallsOK

LEMMA FramesGrow ==
  ASSUME NEW L, NEW M, L \subseteq M, NEW r, Frames(r, L)
  PROVE  Frames(r, M)
<1>1. ASSUME NEW x, IsFire(x, L)
      PROVE  IsFire(x, M)
  BY <1>1 DEF IsFire
<1>2. ASSUME NEW x, IsFn(x, L)
      PROVE  IsFn(x, M)
  BY <1>2 DEF IsFn, Ref, Free
<1>3. ASSUME NEW x, IsTodo(x, L)
      PROVE  IsTodo(x, M)
  BY <1>3, CallsGrow DEF IsTodo
<1> QED
  BY <1>1, <1>2, <1>3 DEF Frames

LEMMA ListGrows ==
  ASSUME NEW L, NEW M, L \subseteq M, NEW l, NEW o, ListOK(l, o, L)
  PROVE  ListOK(l, o, M)
BY AddableGrows DEF ListOK

-----------------------------------------------------------------------------
(***************************************************************************)
(* A stack `s' that may be fired or added from: its loops are those of the *)
(* call stack, and all of them wait.                                       *)
(***************************************************************************)
Rests(s, L) ==
  /\ Frames(s, L) /\ Paused(s, Len(s)) /\ OneLoop(s) /\ ToldRight(s, cb)
  /\ \A l : Looping(s, l) <=> Looping(run, l)

\* Nobody is told of a Deferred who was not before.
FromRun(s) ==
  \A i \in 1..Len(s) : s[i].f = "fn" /\ s[i].l \in SettlingList
    => \E j \in 1..Len(run) : run[j] = s[i]

LEMMA RestsGrow ==
  ASSUME NEW L, NEW M, L \subseteq M, NEW s, Rests(s, L)
  PROVE  Rests(s, M)
BY FramesGrow DEF Rests

\* Between events, and inside a function of the page.
LEMMA RestsRun ==
  ASSUME StackOK(cb, run, threw), PageRuns
  PROVE  Rests(run, DOMAIN cb) /\ FromRun(run)
<1>1. Stack(run) /\ Len(run) \in Nat /\ (run = <<>> <=> Len(run) = 0)
  BY StackLen DEF StackOK, Frames
<1>2. ASSUME NEW i \in 1..Len(run), run[i].f = "fire"
      PROVE  run[i].pc = "calling"
  <2>1. run # <<>>
    BY <1>1
  <2>2. i # Len(run)
    BY <2>1, <1>2 DEF PageRuns, Top
  <2>3. i \in 1..Len(run) - 1
    BY <1>1, <2>2
  <2> QED
    BY <1>2, <2>3 DEF StackOK, Paused
<1> QED
  BY <1>1, <1>2 DEF Rests, FromRun, StackOK, Paused

\* What is below a function or a row of calls.
LEMMA RestsBelow ==
  ASSUME StackOK(cb, run, threw), TopIs("fn") \/ TopIs("todo")
  PROVE  /\ Rests(Below, DOMAIN cb) /\ FromRun(Below)
         /\ Len(run) \in Nat \ {0} /\ Stack(Below) /\ Len(Below) = Len(run) - 1
<1>1. /\ Stack(run) /\ run # <<>> /\ Len(run) \in Nat \ {0}
      /\ Stack(Below) /\ Len(Below) = Len(run) - 1
      /\ \A i \in 1..Len(run) - 1 : Below[i] = run[i]
  BY StackPop DEF StackOK, Frames, TopIs, Below
<1>2. \A i \in 1..Len(Below) : i \in 1..Len(run) /\ i \in 1..Len(run) - 1 /\ Below[i] = run[i]
  BY <1>1
<1>3. Frames(Below, DOMAIN cb)
  BY <1>1, <1>2 DEF StackOK, Frames
<1>4. Paused(Below, Len(Below))
  BY <1>1, <1>2 DEF StackOK, Paused
<1>5. OneLoop(Below)
  BY <1>1, <1>2 DEF StackOK, OneLoop, LoopAt
<1>6. ToldRight(Below, cb)
  BY <1>1, <1>2 DEF StackOK, ToldRight
<1>7. ASSUME NEW l
      PROVE  Looping(Below, l) <=> Looping(run, l)
  <2>1. run[Len(run)].f # "fire"
    BY DEF TopIs, Top
  <2>2. \A i \in 1..Len(run) : i = Len(run) \/ i \in 1..Len(Below)
    BY <1>1
  <2> QED
    BY <1>1, <1>2, <2>1, <2>2 DEF Looping, LoopAt
<1> QED
  BY <1>1, <1>2, <1>3, <1>4, <1>5, <1>6, <1>7 DEF Rests, FromRun

\* A loop that calls one of its callbacks.
LEMMA RestsCalling ==
  ASSUME StackOK(cb, run, threw), TopIs("fire"), NEW pc
  PROVE  /\ Rests(Goto("calling"), DOMAIN cb) /\ FromRun(Goto("calling"))
         /\ Len(run) \in Nat \ {0} /\ IsFire(Top, DOMAIN cb)
         /\ Stack(Goto(pc)) /\ Len(Goto(pc)) = Len(run)
         /\ Goto(pc)[Len(run)] = [f |-> "fire", l |-> Top.l, v |-> Top.v, pc |-> pc]
         /\ \A i \in 1..Len(run) - 1 : Goto(pc)[i] = run[i]
<1>1. Stack(run) /\ run # <<>> /\ Len(run) \in Nat \ {0}
  BY StackPop DEF StackOK, Frames, TopIs
<1>2. IsFire(Top, DOMAIN cb)
  <2>1. Len(run) \in 1..Len(run)
    BY <1>1
  <2>2. IsFire(Top, DOMAIN cb) \/ IsFn(Top, DOMAIN cb) \/ IsTodo(Top, DOMAIN cb)
    BY <2>1 DEF StackOK, Frames, Top
  <2>3. Top.f = "fire"
    BY DEF TopIs
  <2> QED
    BY <2>2, <2>3 DEF IsFn, IsTodo
<1>3. ASSUME NEW p
      PROVE  /\ Stack(Goto(p)) /\ Len(Goto(p)) = Len(run)
             /\ Goto(p)[Len(run)] = [f |-> "fire", l |-> Top.l, v |-> Top.v, pc |-> p]
             /\ \A i \in 1..Len(run) - 1 : Goto(p)[i] = run[i]
  <2>1. PICK x : x = [Top EXCEPT !.pc = p]
    OBVIOUS
  <2>2. x = [f |-> "fire", l |-> Top.l, v |-> Top.v, pc |-> p]
    <3>1. PICK l0, v0, p0 : Top = [f |-> "fire", l |-> l0, v |-> v0, pc |-> p0]
      BY <1>2 DEF IsFire
    <3> QED
      BY <2>1, <3>1
  <2>3. PICK n : n = Len(run)
    OBVIOUS
  <2>4. PICK s : s = [run EXCEPT ![n] = x]
    OBVIOUS
  <2>5. s = Goto(p)
    BY <2>1, <2>3, <2>4 DEF Goto, Top
  <2>6. Stack(s) /\ Len(s) = Len(run)
    BY ZenonT(60), <1>1, <2>4, StackExcept
  <2>7. n \in 1..Len(run) => s[n] = x
    BY <1>1, <2>4, StackExcept
  <2>8. \A i \in 1..Len(run) : i # n => s[i] = run[i]
    BY <1>1, <2>4, StackExcept
  <2> QED
    BY <1>1, <2>2, <2>3, <2>5, <2>6, <2>7, <2>8
<1>4. PICK s : s = Goto("calling")
  OBVIOUS
<1>5. /\ Stack(s) /\ Len(s) = Len(run)
      /\ s[Len(run)] = [f |-> "fire", l |-> Top.l, v |-> Top.v, pc |-> "calling"]
      /\ \A i \in 1..Len(run) - 1 : s[i] = run[i]
  BY <1>3, <1>4
<1>6. \A i \in 1..Len(s) : i \in 1..Len(run) /\ (i = Len(run) \/ i \in 1..Len(run) - 1)
  BY <1>1, <1>5
<1>7. /\ Len(run) \in 1..Len(run)
      /\ run[Len(run)].f = "fire" /\ s[Len(run)].f = "fire" /\ s[Len(run)].l = run[Len(run)].l
      /\ s[Len(run)].v = run[Len(run)].v /\ s[Len(run)].pc = "calling"
  BY <1>1, <1>2, <1>5 DEF Top, IsFire
<1>8. Frames(s, DOMAIN cb)
  <2>1. IsFire(s[Len(run)], DOMAIN cb)
    BY <1>2, <1>5 DEF IsFire
  <2> QED
    BY <1>5, <1>6, <2>1 DEF StackOK, Frames
<1>9. Paused(s, Len(s))
  BY <1>5, <1>6, <1>7 DEF StackOK, Paused
<1>10. \A i \in 1..Len(s) : s[i].f = run[i].f /\ (s[i].f = "fire" => s[i].l = run[i].l /\ s[i].v = run[i].v)
  BY <1>5, <1>6, <1>7
<1>11. OneLoop(s)
  BY <1>5, <1>10 DEF StackOK, OneLoop, LoopAt
<1>12. \A i \in 1..Len(s) : s[i].f = "fn" => s[i] = run[i]
  BY <1>5, <1>6, <1>7
<1>13. ToldRight(s, cb)
  BY <1>5, <1>10, <1>12 DEF StackOK, ToldRight
<1>14. \A l : Looping(s, l) <=> Looping(run, l)
  BY <1>5, <1>10 DEF Looping, LoopAt
<1>15. Rests(s, DOMAIN cb) /\ FromRun(s)
  BY <1>5, <1>8, <1>9, <1>11, <1>12, <1>13, <1>14 DEF Rests, FromRun
<1> QED
  BY <1>1, <1>2, <1>3, <1>4, <1>15

-----------------------------------------------------------------------------
(***************************************************************************)
(* What is put on such a stack.                                            *)
(***************************************************************************)

LEMMA RestsPush ==
  ASSUME NEW L, NEW s, Rests(s, L), NEW t, Stack(t),
         \A i \in 1..Len(t) : IsTodo(t[i], L) \/ (IsFn(t[i], L) /\ t[i].l \notin SettlingList)
  PROVE  Rests(s \o t, L) /\ (FromRun(s) => FromRun(s \o t))
<1>1. PICK r : r = s \o t
  OBVIOUS
<1>2. Stack(s) /\ Len(s) \in Nat /\ Len(t) \in Nat
  BY StackLen DEF Rests, Frames
<1>3. /\ Stack(r) /\ Len(r) = Len(s) + Len(t)
      /\ \A i \in 1..Len(s) : r[i] = s[i]
      /\ \A i \in Len(s) + 1..Len(s) + Len(t) : r[i] = t[i - Len(s)]
  BY <1>1, <1>2, StackConcat
<1>4. \A i \in 1..Len(r) : \/ i \in 1..Len(s) /\ r[i] = s[i]
                           \/ i - Len(s) \in 1..Len(t) /\ r[i] = t[i - Len(s)]
  BY <1>2, <1>3
<1>5. \A i \in 1..Len(s) : i \in 1..Len(r)
  BY <1>2, <1>3
<1>6. ASSUME NEW x, IsTodo(x, L) \/ (IsFn(x, L) /\ x.l \notin SettlingList)
      PROVE  x.f \in {"fn", "todo"} /\ (x.f = "fn" => x.l \notin SettlingList)
  BY <1>6 DEF IsTodo, IsFn
<1>7. \A i \in 1..Len(r) : \/ i \in 1..Len(s) /\ r[i] = s[i]
                           \/ r[i].f \in {"fn", "todo"} /\ (r[i].f = "fn" => r[i].l \notin SettlingList)
  BY <1>4, <1>6
<1>8. Frames(r, L)
  BY <1>3, <1>4 DEF Rests, Frames
<1>9. Paused(r, Len(r))
  BY <1>7 DEF Rests, Paused
<1>10. OneLoop(r)
  BY <1>7 DEF Rests, OneLoop, LoopAt
<1>11. ToldRight(r, cb)
  BY <1>7 DEF Rests, ToldRight
<1>12. \A l : Looping(r, l) <=> Looping(s, l)
  BY <1>3, <1>5, <1>7 DEF Looping, LoopAt
<1>13. FromRun(s) => FromRun(r)
  BY <1>7 DEF FromRun
<1> QED
  BY <1>1, <1>8, <1>9, <1>10, <1>11, <1>12, <1>13 DEF Rests

LEMMA RestsTodo ==
  ASSUME NEW L, NEW s, Rests(s, L), NEW q, CallsOK(q, L)
  PROVE  Rests(s \o Todo(q), L) /\ (FromRun(s) => FromRun(s \o Todo(q)))
<1>1. PICK t : t = Todo(q)
  OBVIOUS
<1>2. CASE q = <<>>
  <2>1. t = <<>> /\ Stack(t) /\ Len(t) = 0
    BY <1>1, <1>2, StackEmpty DEF Todo
  <2>2. \A i \in 1..Len(t) : FALSE
    BY <2>1
  <2> QED
    BY <1>1, <2>1, <2>2, RestsPush
<1>3. CASE q # <<>>
  <2>1. PICK x : x = [f |-> "todo", todo |-> q]
    OBVIOUS
  <2>2. IsTodo(x, L)
    BY <1>3, <2>1 DEF IsTodo
  <2>3. t = <<x>> /\ Stack(t) /\ Len(t) = 1 /\ t[1] = x
    BY <1>1, <1>3, <2>1, StackOne DEF Todo
  <2>4. \A i \in 1..Len(t) : IsTodo(t[i], L)
    BY <2>2, <2>3
  <2> QED
    BY <1>1, <2>3, <2>4, RestsPush
<1> QED
  BY <1>2, <1>3

LEMMA NothingIsNoList == Nothing \notin ListId /\ Nothing \notin SettlingList
BY CallbacksAssumption, ScriptsAssumption DEF SettlingList, Settling, Action

LEMMA RestsHandler ==
  ASSUME NEW L, NEW s, Rests(s, L), NEW fn
  PROVE  Rests(s \o Handler(fn), L) /\ (FromRun(s) => FromRun(s \o Handler(fn)))
<1>1. PICK x : x = FnFrame(fn, Nothing, Nothing, Nothing)
  OBVIOUS
<1>2. IsFn(x, L) /\ x.l = Nothing
  BY <1>1 DEF IsFn, FnFrame
<1>3. Handler(fn) = <<x>> /\ Stack(<<x>>) /\ Len(<<x>>) = 1 /\ <<x>>[1] = x
  BY <1>1, StackOne DEF Handler
<1>4. PICK t : t = Handler(fn)
  OBVIOUS
<1>5. \A i \in 1..Len(t) : IsFn(t[i], L) /\ t[i].l \notin SettlingList
  BY <1>2, <1>3, <1>4, NothingIsNoList
<1> QED
  BY <1>3, <1>4, <1>5, RestsPush

LEMMA RestsSame ==
  ASSUME NEW L, NEW s, Rests(s, L)
  PROVE  Rests(s \o <<>>, L) /\ (FromRun(s) => FromRun(s \o <<>>))
<1>1. Stack(<<>>) /\ \A i \in 1..Len(<<>>) : FALSE
  BY StackEmpty
<1> QED
  BY <1>1, RestsPush

LEMMA RestsTriggered ==
  ASSUME NEW L, NEW s, Rests(s, L), NEW e
  PROVE  Rests(s \o Triggered(e), L) /\ (FromRun(s) => FromRun(s \o Triggered(e)))
BY RestsHandler, RestsSame DEF Triggered

-----------------------------------------------------------------------------
(***************************************************************************)
(* Steps that begin and end no loop.                                       *)
(***************************************************************************)
Keeps(c) ==
  /\ DOMAIN cb \subseteq DOMAIN c
  /\ \A l \in DOMAIN cb :
       /\ c[l].firing = cb[l].firing
       /\ l \in SettlingList =>
            /\ c[l].fired = cb[l].fired
            /\ c[l].memory = cb[l].memory
            /\ ~Enabled(cb[l]) => ~Enabled(c[l])
  /\ \A l \in DOMAIN c : l \notin DOMAIN cb => ~c[l].firing /\ ~c[l].fired

LEMMA KeptList ==
  ASSUME NEW c, Keeps(c)
  PROVE  /\ \A l \in DOMAIN cb : l \in DOMAIN c /\ c[l].firing = cb[l].firing
         /\ \A l \in DOMAIN cb : l \in SettlingList =>
              /\ c[l].fired = cb[l].fired
              /\ c[l].memory = cb[l].memory
              /\ ~Enabled(cb[l]) => ~Enabled(c[l])
         /\ \A l \in DOMAIN c : l \in DOMAIN cb \/ (~c[l].firing /\ ~c[l].fired)
BY DEF Keeps

\* Nobody new is told, and nothing settles.
Silent == TellingOf' \subseteq TellingOf /\ \A d \in DefId : OutcomeOf(d)' = OutcomeOf(d)

LEMMA PartnersMade ==
  ASSUME PageOK, NEW l \in SettlingList, l \in DOMAIN cb
  PROVE  Partner(l) \in DOMAIN cb /\ Partner(l) \in SettlingList /\ Partner(Partner(l)) = l
<1>1. PICK d \in DefId, a \in Settling : l = <<d, a>>
  BY DEF SettlingList
<1>2. Partner(l) = <<d, Other(a)>> /\ Other(a) \in Settling /\ Other(Other(a)) = a
  BY <1>1 DEF Partner, Other, Settling
<1>3. a \in Action /\ Other(a) \in Action
  BY <1>2 DEF Settling, Action
<1> QED
  BY <1>1, <1>2, <1>3 DEF PageOK, SettlingList, Partner

\* As a stack that rests, but the loop on top may be about to end.
Holds(s, L) ==
  /\ Frames(s, L) /\ Paused(s, Len(s) - 1) /\ OneLoop(s) /\ ToldRight(s, cb)
  /\ \A i \in 1..Len(s) : s[i].f = "fire" => s[i].pc # "next"
  /\ \A l : Looping(s, l) <=> Looping(run, l)

LEMMA RestsHolds ==
  ASSUME NEW L, NEW s, Rests(s, L)
  PROVE  Holds(s, L)
<1>1. Stack(s) /\ Len(s) \in Nat
  BY StackLen DEF Rests, Frames
<1>2. Paused(s, Len(s) - 1)
  BY <1>1 DEF Rests, Paused
<1>3. \A i \in 1..Len(s) : s[i].f = "fire" => s[i].pc # "next"
  BY DEF Rests, Paused
<1> QED
  BY <1>2, <1>3 DEF Rests, Holds

LEMMA CalmStack ==
  ASSUME StackOK(cb, run, threw), NEW c, NEW s, Holds(s, DOMAIN c), Keeps(c)
  PROVE  StackOK(c, s, threw)
<1>3. ToldRight(s, c)
  <2>1. ToldRight(s, cb)
    BY DEF Holds
  <2> SUFFICES ASSUME NEW i \in 1..Len(s), s[i].f \in {"fire", "fn"}, s[i].l \in SettlingList
               PROVE  s[i].l \in DOMAIN c /\ c[s[i].l].fired /\ s[i].v = c[s[i].l].memory
    BY DEF ToldRight
  <2>2. s[i].l \in DOMAIN cb /\ cb[s[i].l].fired /\ s[i].v = cb[s[i].l].memory
    BY <2>1 DEF ToldRight
  <2> QED
    BY <2>2, KeptList
<1>4. ASSUME NEW i \in 1..Len(s), s[i].f = "fire"
      PROVE  c[s[i].l].firing /\ s[i].pc # "next"
  <2>1. s[i].pc # "next"
    BY <1>4 DEF Holds
  <2>2. Looping(s, s[i].l)
    BY <1>4 DEF Looping, LoopAt
  <2>3. PICK j \in 1..Len(run) : LoopAt(run, j, s[i].l)
    BY <2>2 DEF Holds, Looping
  <2>4. run[j].f = "fire" /\ run[j].l = s[i].l
    BY <2>3 DEF LoopAt
  <2>5. s[i].l \in DOMAIN cb /\ cb[s[i].l].firing
    BY <2>4 DEF StackOK, Frames, IsFire, IsFn, IsTodo
  <2> QED
    BY <2>1, <2>5, KeptList
<1>5. ASSUME ~threw, NEW l \in DOMAIN c, c[l].firing
      PROVE  Looping(s, l)
  <2>1. l \in DOMAIN cb /\ cb[l].firing
    BY <1>5, KeptList
  <2>2. Looping(run, l)
    BY <1>5, <2>1 DEF StackOK
  <2> QED
    BY <2>2 DEF Holds
<1> QED
  BY <1>3, <1>4, <1>5 DEF StackOK, Holds

LEMMA CalmSettled ==
  ASSUME Settled(cb, run), PageOK, NEW c, NEW s, Keeps(c),
         \A l \in SettlingList : Early(cb, run, l) => ~Enabled(c[Partner(l)]) \/ Early(c, s, l)
  PROVE  Settled(c, s)
<1> SUFFICES ASSUME NEW l \in SettlingList, l \in DOMAIN c, c[l].fired
             PROVE  ~c[Partner(l)].fired /\ (~Enabled(c[Partner(l)]) \/ Early(c, s, l))
  BY DEF Settled
<1>1. l \in DOMAIN cb /\ cb[l].fired
  BY KeptList
<1>2. Partner(l) \in DOMAIN cb /\ Partner(l) \in SettlingList
  BY <1>1, PartnersMade
<1>3. ~cb[Partner(l)].fired /\ (~Enabled(cb[Partner(l)]) \/ Early(cb, run, l))
  BY <1>1 DEF Settled
<1> QED
  BY <1>2, <1>3, KeptList

\* What the page sees of a Deferred depends on two fields of its lists.
LEMMA OutcomeByLists ==
  ASSUME PageOK, PageOK', NEW d \in DefId,
         \A l \in DOMAIN cb : l \in SettlingList /\ l[1] = d =>
           l \in DOMAIN cb' /\ cb'[l].fired = cb[l].fired /\ cb'[l].memory = cb[l].memory,
         \A l \in DOMAIN cb' : l \in SettlingList /\ l[1] = d => l \in DOMAIN cb \/ ~cb'[l].fired
  PROVE  OutcomeOf(d)' = OutcomeOf(d)
<1>1. \A l \in {<<d, "done">>, <<d, "fail">>} : l \in SettlingList /\ l[1] = d
  BY DEF SettlingList, Settling
<1>2. /\ <<d, "done">> \in DOMAIN cb <=> Made(d)
      /\ <<d, "fail">> \in DOMAIN cb <=> Made(d)
  BY DEF PageOK, Action
<1>3. /\ <<d, "done">> \in DOMAIN cb' <=> Made(d)'
      /\ <<d, "fail">> \in DOMAIN cb' <=> Made(d)'
  BY DEF PageOK, Action
<1>4. CASE Made(d)
  <2>1. Made(d)' /\ \A l \in {<<d, "done">>, <<d, "fail">>} :
                      cb'[l].fired = cb[l].fired /\ cb'[l].memory = cb[l].memory
    BY <1>1, <1>2, <1>3, <1>4
  <2> QED
    BY <1>4, <2>1 DEF OutcomeOf
<1>5. CASE ~Made(d)
  <2>1. Made(d)' => ~cb'[<<d, "done">>].fired /\ ~cb'[<<d, "fail">>].fired
    BY <1>1, <1>2, <1>3, <1>5
  <2> QED
    BY <1>5, <2>1 DEF OutcomeOf
<1> QED
  BY <1>4, <1>5

LEMMA SameOutcome ==
  ASSUME PageOK, PageOK', Keeps(cb'), NEW d \in DefId
  PROVE  OutcomeOf(d)' = OutcomeOf(d)
BY OutcomeByLists, KeptList

LEMMA TellsNobodyNew ==
  ASSUME FromRun(run'), Stack(run), Stack(run')
  PROVE  TellingOf' \subseteq TellingOf
<1>1. DOMAIN run = 1..Len(run) /\ DOMAIN run' = 1..Len(run')
  BY StackLen
<1> SUFFICES ASSUME NEW x \in TellingOf' PROVE x \in TellingOf
  OBVIOUS
<1>2. PICK i \in 1..Len(run') :
        /\ run'[i].f = "fn" /\ run'[i].l \in DefId \X Settling
        /\ x = [of |-> run'[i].l[1], how |-> StateOf(run'[i].l[2]), with |-> run'[i].v]
  BY <1>1 DEF TellingOf
<1>3. PICK j \in 1..Len(run) : run[j] = run'[i]
  BY <1>2 DEF FromRun, SettlingList
<1> QED
  BY <1>1, <1>2, <1>3 DEF TellingOf

LEMMA HoldStep ==
  ASSUME Inv, PageOK', ListsOK(cb'), Keeps(cb'), Holds(run', DOMAIN cb'), threw' = threw,
         \A l \in SettlingList :
           Early(cb, run, l) => ~Enabled(cb'[Partner(l)]) \/ Early(cb', run', l)
  PROVE  Inv' /\ (FromRun(run') => Silent)
<1>1. StackOK(cb', run', threw')
  BY CalmStack DEF Inv
<1>2. Settled(cb', run')
  BY CalmSettled DEF Inv
<1>3. ASSUME FromRun(run') PROVE Silent
  <2>1. Stack(run) /\ Stack(run')
    BY DEF Inv, StackOK, Frames, Holds
  <2> QED
    BY <1>3, <2>1, TellsNobodyNew, SameOutcome DEF Silent, Inv
<1> QED
  BY <1>1, <1>2, <1>3 DEF Inv

LEMMA CalmStep ==
  ASSUME Inv, PageOK', ListsOK(cb'), Keeps(cb'), Rests(run', DOMAIN cb'), threw' = threw,
         \A l \in SettlingList :
           Early(cb, run, l) => ~Enabled(cb'[Partner(l)]) \/ Early(cb', run', l)
  PROVE  Inv' /\ (FromRun(run') => Silent)
BY HoldStep, RestsHolds

-----------------------------------------------------------------------------
(***************************************************************************)
(* A list without one of its callbacks.                                    *)
(***************************************************************************)
KeptBy(g, s, x) ==
  [n \in 0..Len(s) |->
     IF n = 0 THEN <<>> ELSE IF s[n] = x THEN g[n - 1] ELSE Append(g[n - 1], s[n])]

LEMMA HasKept ==
  ASSUME NEW s, Stack(s), NEW x
  PROVE  \E g : g = KeptBy(g, s, x)
<1> DEFINE UpTo(g, m) ==
             g = [n \in 0..m |->
                    IF n = 0 THEN <<>> ELSE IF s[n] = x THEN g[n - 1] ELSE Append(g[n - 1], s[n])]
           Fails == {m \in Nat : ~\E g : UpTo(g, m)}
<1>1. Len(s) \in Nat
  BY StackLen
<1>2. SUFFICES ASSUME Fails # {} PROVE FALSE
  BY <1>1 DEF KeptBy
<1>3. PICK m \in Fails : \A u \in Fails : m <= u
  <2>1. Fails \in SUBSET Nat
    OBVIOUS
  <2>2. PICK F : F = Fails
    OBVIOUS
  <2>3. \E m \in F : \A u \in F : m <= u
    BY <1>2, <2>1, <2>2, HasFirst
  <2> QED
    BY <2>2, <2>3
<1>4. CASE m = 0
  <2>1. UpTo([n \in 0..0 |-> <<>>], 0)
    OBVIOUS
  <2> QED
    BY <1>4, <2>1
<1>5. CASE m # 0
  <2>0. m \in Nat /\ m - 1 \in Nat /\ ~(m <= m - 1)
    BY <1>5
  <2>1. m \in Nat /\ m - 1 \in Nat /\ m - 1 \notin Fails
    BY <1>3, <2>0
  <2>2. PICK g : UpTo(g, m - 1)
    BY <2>1
  <2>3. PICK h : h = [n \in 0..m |->
                       IF n = m THEN IF s[m] = x THEN g[m - 1] ELSE Append(g[m - 1], s[m]) ELSE g[n]]
    OBVIOUS
  <2>4. \A n \in 0..m : h[n] = IF n = 0 THEN <<>> ELSE IF s[n] = x THEN h[n - 1] ELSE Append(h[n - 1], s[n])
    <3> SUFFICES ASSUME NEW n \in 0..m
                 PROVE  h[n] = IF n = 0 THEN <<>> ELSE IF s[n] = x THEN h[n - 1] ELSE Append(h[n - 1], s[n])
      OBVIOUS
    <3>1. CASE n = m
      <4>1. h[n] = (IF s[n] = x THEN g[n - 1] ELSE Append(g[n - 1], s[n])) /\ h[n - 1] = g[n - 1] /\ n # 0
        BY <1>5, <2>1, <2>3, <3>1
      <4> QED
        BY <4>1
    <3>2. CASE n # m
      <4>1. n \in 0..m - 1 /\ (n # 0 => n - 1 \in 0..m - 1)
        BY <2>1, <3>2
      <4>2. h[n] = g[n] /\ (n # 0 => h[n - 1] = g[n - 1])
        BY <2>1, <2>3, <3>2, <4>1
      <4>3. g[n] = IF n = 0 THEN <<>> ELSE IF s[n] = x THEN g[n - 1] ELSE Append(g[n - 1], s[n])
        BY <2>2, <4>1
      <4> QED
        BY <4>2, <4>3
    <3> QED
      BY <3>1, <3>2
  <2>5. UpTo(h, m)
    <3>1. h = [n \in 0..m |-> h[n]]
      BY <2>3
    <3> QED
      BY <2>4, <3>1
  <2> QED
    BY <1>3, <2>5
<1> QED
  BY <1>4, <1>5

\* The function Without is written with.
LEMMA WithoutIsKept ==
  ASSUME NEW s, Stack(s), NEW x
  PROVE  \E kept : kept = KeptBy(kept, s, x) /\ Without(s, x) = kept[Len(s)]
<1> DEFINE K == CHOOSE g : g = KeptBy(g, s, x)
<1>1. \E g : g = KeptBy(g, s, x)
  BY HasKept
<1>2. Without(s, x) = K[Len(s)]
  BY Zenon DEF Without, KeptBy
<1>3. K = KeptBy(K, s, x)
  BY <1>1, Zenon
<1> QED
  BY <1>2, <1>3, Zenon

OccursUpTo(s, n, x) == {i \in 1..n : s[i] = x}
Occurs(s, x) == {i \in 1..Len(s) : s[i] = x}

\* The list without a callback: every callback but that one, as far ahead as it
\* was of those taken out before it, and nothing else.
LEMMA WithoutKeeps ==
  ASSUME NEW s, Stack(s), NEW x
  PROVE  /\ Stack(Without(s, x))
         /\ \A i \in 1..Len(Without(s, x)) : \E j \in 1..Len(s) :
              Without(s, x)[i] = s[j] /\ s[j] # x /\ i = j - Cardinality(OccursUpTo(s, j, x))
         /\ Len(Without(s, x)) = Len(s) - Cardinality(Occurs(s, x))
<1>0. PICK kept : kept = KeptBy(kept, s, x) /\ Without(s, x) = kept[Len(s)]
  BY WithoutIsKept
<1>1. /\ kept = [n \in 0..Len(s) |->
                  IF n = 0 THEN <<>> ELSE IF s[n] = x THEN kept[n - 1] ELSE Append(kept[n - 1], s[n])]
      /\ Without(s, x) = kept[Len(s)]
  BY <1>0 DEF KeptBy
<1>2. Len(s) \in Nat
  BY StackLen
<1> DEFINE Gone(n) == {i \in 1..n : s[i] = x}
           Place(i, j) == i = j - Cardinality(Gone(j))
           Right(n) == /\ Stack(kept[n])
                       /\ \A i \in 1..Len(kept[n]) :
                            \E j \in 1..Len(s) : kept[n][i] = s[j] /\ s[j] # x /\ Place(i, j)
                       /\ Len(kept[n]) = n - Cardinality(Gone(n))
           Wrong == {n \in 0..Len(s) : ~Right(n)}
<1>3. ASSUME NEW n \in Nat PROVE IsFiniteSet(Gone(n)) /\ Cardinality(Gone(n)) \in Nat
  <2>1. IsFiniteSet(1..n)
    BY FS_Interval
  <2>2. Gone(n) \subseteq 1..n
    OBVIOUS
  <2> QED
    BY <2>1, <2>2, FS_Subset, FS_CardinalityType
<1>4. SUFFICES ASSUME Wrong # {} PROVE FALSE
  <2>1. Wrong = {} => Right(Len(s))
    <3> HIDE DEF Right
    <3> QED
      BY <1>2
  <2>2. Gone(Len(s)) = Occurs(s, x)
    BY DEF Occurs
  <2>3. Right(Len(s))
    BY <2>1
  <2>4. PICK w : w = Without(s, x) /\ w = kept[Len(s)]
    BY <1>1
  <2>5. Stack(w) /\ \A i \in 1..Len(w) : \E j \in 1..Len(s) : w[i] = s[j] /\ s[j] # x /\ Place(i, j)
    <3> HIDE DEF Place
    <3> QED
      BY <2>3, <2>4
  <2>6. Len(w) = Len(s) - Cardinality(Occurs(s, x))
    BY <2>2, <2>3, <2>4
  <2>7. \A j : Gone(j) = OccursUpTo(s, j, x)
    BY DEF OccursUpTo
  <2>8. \A i \in 1..Len(w) : \E j \in 1..Len(s) :
          w[i] = s[j] /\ s[j] # x /\ i = j - Cardinality(OccursUpTo(s, j, x))
    BY <2>5, <2>7
  <2> QED
    BY <2>4, <2>5, <2>6, <2>8
<1>5. PICK m \in Wrong : \A u \in Wrong : m <= u
  <2>1. Wrong \in SUBSET Nat
    BY <1>2
  <2>2. PICK W : W = Wrong
    OBVIOUS
  <2>3. \E n \in W : \A u \in W : n <= u
    BY <1>4, <2>1, <2>2, HasFirst
  <2> QED
    BY <2>2, <2>3
<1>6. CASE m = 0
  <2>1. kept[0] = <<>> /\ Gone(0) = {} /\ Cardinality({}) = 0
    BY <1>1, <1>2, FS_EmptySet
  <2>2. Right(0)
    BY <2>1, StackEmpty
  <2> QED
    BY <1>5, <1>6, <2>2
<1>7. CASE m # 0
  <2>0. m \in 1..Len(s) /\ m - 1 \in 0..Len(s) /\ m - 1 \in Nat /\ m \in Nat /\ ~(m <= m - 1)
    BY <1>2, <1>5, <1>7
  <2>1. m \in 1..Len(s) /\ m - 1 \in 0..Len(s) /\ m - 1 \in Nat /\ m \in Nat /\ Right(m - 1)
    <3> HIDE DEF Right
    <3> QED
      BY <1>5, <2>0
  <2>2. kept[m] = IF s[m] = x THEN kept[m - 1] ELSE Append(kept[m - 1], s[m])
    BY <1>1, <1>7, <2>1
  <2>3. CASE s[m] = x
    <3>1. Gone(m) = Gone(m - 1) \union {m} /\ m \notin Gone(m - 1)
      BY <2>1, <2>3
    <3>2. Cardinality(Gone(m)) = Cardinality(Gone(m - 1)) + 1
      BY <1>3, <2>1, <3>1, FS_AddElement
    <3>3. PICK a, b : a = Cardinality(Gone(m)) /\ b = Cardinality(Gone(m - 1))
      OBVIOUS
    <3>4. a = b + 1 /\ a \in Nat /\ b \in Nat
      BY <1>3, <2>1, <3>2, <3>3
    <3>5. kept[m] = kept[m - 1]
      BY <2>2, <2>3
    <3>6. Len(kept[m]) = m - a
      BY <2>1, <3>3, <3>4, <3>5
    <3>7. Right(m)
      BY <2>1, <3>3, <3>5, <3>6
    <3> QED
      BY <1>5, <3>7
  <2>4. CASE s[m] # x
    <3>1. Gone(m) = Gone(m - 1)
      BY <2>1, <2>4
    <3>2. PICK k : k = kept[m - 1] /\ Stack(k) /\ Len(k) \in Nat
      BY <2>1, StackLen
    <3>3. PICK a : a = Append(k, s[m])
      OBVIOUS
    <3>4. /\ Stack(a) /\ Len(a) = Len(k) + 1
          /\ \A i \in 1..Len(k) : a[i] = k[i]
          /\ a[Len(k) + 1] = s[m]
      BY <3>2, <3>3, StackPush
    <3>5. kept[m] = a
      BY <2>2, <2>4, <3>2, <3>3
    <3>9. PICK b : b = Cardinality(Gone(m)) /\ b \in Nat
      BY <1>3, <2>1
    <3>10. Len(k) = m - 1 - b
      BY <2>1, <3>1, <3>2, <3>9
    <3>6. \A i \in 1..Len(a) : \E j \in 1..Len(s) : a[i] = s[j] /\ s[j] # x /\ Place(i, j)
      <4> SUFFICES ASSUME NEW i \in 1..Len(a)
                   PROVE  \E j \in 1..Len(s) : a[i] = s[j] /\ s[j] # x /\ Place(i, j)
        OBVIOUS
      <4>1. CASE i = Len(k) + 1
        <5>1. i = m - b
          BY <2>1, <3>2, <3>9, <3>10, <4>1
        <5>2. Place(i, m)
          BY <3>9, <5>1
        <5> HIDE DEF Place
        <5> QED
          BY <2>1, <2>4, <3>4, <4>1, <5>2
      <4>2. CASE i # Len(k) + 1
        <5>1. i \in 1..Len(k)
          BY <3>2, <3>4, <4>2
        <5> HIDE DEF Place
        <5> QED
          BY SMTT(30), <2>1, <3>2, <3>4, <5>1
      <4> QED
        BY <4>1, <4>2
    <3>7. Len(a) = m - Cardinality(Gone(m))
      BY <2>1, <3>4, <3>9, <3>10
    <3>8. Right(m)
      BY <3>4, <3>5, <3>6, <3>7
    <3> QED
      BY <1>5, <3>8
  <2> QED
    BY <2>3, <2>4
<1> QED
  BY <1>6, <1>7

\* Of two prefixes, the longer holds no more of it than the rest has room for.
LEMMA OccursFarther ==
  ASSUME NEW s, NEW x, NEW m \in Nat, NEW n \in Nat, m <= n
  PROVE  /\ Cardinality(OccursUpTo(s, m, x)) \in Nat /\ Cardinality(OccursUpTo(s, n, x)) \in Nat
         /\ Cardinality(OccursUpTo(s, n, x)) <= Cardinality(OccursUpTo(s, m, x)) + (n - m)
<1>1. PICK A, B, C : A = OccursUpTo(s, m, x) /\ B = m + 1..n /\ C = OccursUpTo(s, n, x)
  OBVIOUS
<1>2. C \subseteq A \union B
  BY <1>1 DEF OccursUpTo
<1>3. ASSUME NEW k \in Nat
      PROVE  IsFiniteSet(OccursUpTo(s, k, x)) /\ Cardinality(OccursUpTo(s, k, x)) \in Nat
  <2>1. IsFiniteSet(1..k)
    BY FS_Interval
  <2>2. OccursUpTo(s, k, x) \subseteq 1..k
    BY DEF OccursUpTo
  <2> QED
    BY <2>1, <2>2, FS_Subset, FS_CardinalityType
<1>4. IsFiniteSet(B) /\ Cardinality(B) = n - m
  <2>1. IsFiniteSet(B) /\ Cardinality(B) = IF m + 1 > n THEN 0 ELSE n - (m + 1) + 1
    <3>1. m + 1 \in Int /\ n \in Int
      OBVIOUS
    <3> QED
      BY <1>1, <3>1, FS_Interval
  <2> QED
    BY <2>1
<1>5. IsFiniteSet(A) /\ IsFiniteSet(C)
  BY <1>1, <1>3
<1>6. IsFiniteSet(A \union B)
      /\ Cardinality(A \union B) = Cardinality(A) + Cardinality(B) - Cardinality(A \intersect B)
  BY <1>4, <1>5, FS_Union
<1>7. Cardinality(A \intersect B) \in Nat
  <2>1. IsFiniteSet(A \intersect B)
    BY <1>5, FS_Subset
  <2> QED
    BY <2>1, FS_CardinalityType
<1>8. Cardinality(C) <= Cardinality(A \union B)
  BY <1>2, <1>6, FS_Subset
<1>9. Cardinality(A) \in Nat /\ Cardinality(C) \in Nat
  BY <1>1, <1>3
<1>10. Cardinality(C) <= Cardinality(A) + (n - m)
  BY <1>4, <1>6, <1>7, <1>8, <1>9
<1> QED
  BY <1>1, <1>9, <1>10

\* The callbacks up to the n-th, without the one taken out, come first again.
LEMMA WithoutPrefix ==
  ASSUME NEW s, Stack(s), NEW x, NEW n \in Nat, n <= Len(s),
         NEW m, m = n - Cardinality(OccursUpTo(s, n, x))
  PROVE  /\ m <= Len(Without(s, x))
         /\ \A i \in 1..m : \E j \in 1..n : Without(s, x)[i] = s[j]
<1>1. PICK w, l : w = Without(s, x) /\ l = Len(s) /\ l \in Nat
  BY StackLen
<1>2. /\ Stack(w)
      /\ \A i \in 1..Len(w) : \E j \in 1..l : w[i] = s[j] /\ s[j] # x /\ i = j - Cardinality(OccursUpTo(s, j, x))
      /\ Len(w) = l - Cardinality(OccursUpTo(s, l, x))
  <2>1. OccursUpTo(s, l, x) = Occurs(s, x)
    BY <1>1 DEF Occurs, OccursUpTo
  <2>2. Stack(w) /\ Len(w) = l - Cardinality(Occurs(s, x))
    BY <1>1, WithoutKeeps
  <2>3. \A i \in 1..Len(w) : \E j \in 1..l : w[i] = s[j] /\ s[j] # x /\ i = j - Cardinality(OccursUpTo(s, j, x))
    BY <1>1, WithoutKeeps
  <2> QED
    BY <2>1, <2>2, <2>3
<1>3. m <= Len(w)
  <2>1. PICK a, b : a = Cardinality(OccursUpTo(s, n, x)) /\ b = Cardinality(OccursUpTo(s, l, x))
    OBVIOUS
  <2>2. a \in Nat /\ b \in Nat /\ b <= a + (l - n)
    BY <1>1, <2>1, OccursFarther
  <2> QED
    BY <1>1, <1>2, <2>1, <2>2
<1>4. ASSUME NEW i \in 1..m PROVE \E j \in 1..n : w[i] = s[j]
  <2>1. PICK a : a = Cardinality(OccursUpTo(s, n, x)) /\ a \in Nat
    BY OccursFarther
  <2>2. i \in 1..Len(w)
    <3>1. Len(w) \in Nat
      BY <1>2, StackLen
    <3> QED
      BY <1>3, <2>1, <3>1
  <2>3. PICK j \in 1..l : w[i] = s[j] /\ s[j] # x /\ i = j - Cardinality(OccursUpTo(s, j, x))
    BY <1>2, <2>2
  <2>4. ASSUME j > n PROVE FALSE
    <3>1. j - 1 \in Nat /\ n <= j - 1 /\ j \in Nat
      BY <1>1, <2>4
    <3>2. OccursUpTo(s, j, x) = OccursUpTo(s, j - 1, x)
      BY <2>3, <3>1 DEF OccursUpTo
    <3>3. PICK k, b : k = j - 1 /\ b = Cardinality(OccursUpTo(s, k, x))
      OBVIOUS
    <3>4. b \in Nat /\ b <= a + (k - n)
      BY <2>1, <3>1, <3>3, OccursFarther
    <3>5. i = j - b
      BY <2>3, <3>2, <3>3
    <3> QED
      BY <2>1, <3>1, <3>3, <3>4, <3>5
  <2> QED
    BY <1>1, <2>3, <2>4
<1> QED
  BY <1>1, <1>3, <1>4

-----------------------------------------------------------------------------
(***************************************************************************)
(* What the operations make of a list.                                     *)
(***************************************************************************)

LEMMA ListFields ==
  ASSUME NEW o, ListShape(o)
  PROVE  \E op, ls, st, me, fd, fg, fi, fl, to, em :
           /\ o = [options |-> op, list |-> ls, stack |-> st, memory |-> me, fired |-> fd, firing |-> fg,
                   firingStart |-> 0, firingIndex |-> fi, firingLength |-> fl, told |-> to, emptied |-> em]
           /\ fd \in BOOLEAN /\ fg \in BOOLEAN /\ fi \in Int /\ fl \in Int
BY DEF ListShape, Fields

\* A fire from the start, or from the callback just added.
LEMMA Begun ==
  ASSUME NEW o, Fields(o), NEW v
  PROVE  /\ BeginFire(o, v) =
              [options |-> o.options, list |-> o.list, stack |-> o.stack,
               memory |-> IF o.options.memory THEN v ELSE Nothing, fired |-> TRUE, firing |-> TRUE,
               firingStart |-> 0, firingIndex |-> o.firingStart, firingLength |-> Len(o.list),
               told |-> BeginFire(o, v).told, emptied |-> FALSE]
         /\ BeginFire(o, v).told = ToSet(SubSeq(o.list, 1, o.firingStart))
<1>1. PICK op, ls, st, me, fd, fg, fs, fi, fl, to, em :
        o = [options |-> op, list |-> ls, stack |-> st, memory |-> me, fired |-> fd, firing |-> fg,
             firingStart |-> fs, firingIndex |-> fi, firingLength |-> fl, told |-> to, emptied |-> em]
  BY DEF Fields
<1>2. PICK t : t = ToSet(SubSeq(ls, 1, fs))
  OBVIOUS
<1>3. PICK m : m = IF op.memory THEN v ELSE Nothing
  OBVIOUS
<1>4. PICK k : k = Len(ls)
  OBVIOUS
<1>5. BeginFire(o, v) = [o EXCEPT !.memory = m, !.fired = TRUE, !.firingIndex = fs, !.firingStart = 0,
                           !.firingLength = k, !.firing = TRUE, !.emptied = FALSE, !.told = t]
  BY <1>1, <1>2, <1>3, <1>4 DEF BeginFire
<1>6. BeginFire(o, v) =
        [options |-> op, list |-> ls, stack |-> st, memory |-> m, fired |-> TRUE, firing |-> TRUE,
         firingStart |-> 0, firingIndex |-> fs, firingLength |-> k, told |-> t, emptied |-> FALSE]
  BY ZenonT(60), <1>1, <1>5
<1>7. o.options = op /\ o.list = ls /\ o.stack = st /\ o.firingStart = fs
  BY <1>1
<1>8. BeginFire(o, v).told = t
  BY <1>6
<1> QED
  BY <1>2, <1>3, <1>4, <1>6, <1>7, <1>8

\* A list that is fired from the start.
LEMMA BegunOK ==
  ASSUME NEW L, NEW l, NEW o, ListOK(l, o, L), l \in SettlingList => SettlingOK(l, o),
         NEW v, Fires(o), ~Waits(o)
  PROVE  LET p == BeginFire(o, v)
         IN  /\ ListOK(l, p, L)
             /\ p.firing /\ p.firingIndex = 0
             /\ l \in SettlingList =>
                  /\ SettlingOK(l, p) /\ ~o.fired /\ p.fired /\ p.memory = v
                  /\ Enabled(p) /\ HasFirstThree(l, p.list) /\ p.firingLength >= 3
<1>1. PICK p : p = BeginFire(o, v)
  OBVIOUS
<1>2. ListShape(o)
  BY DEF ListOK
<1>3. p = [options |-> o.options, list |-> o.list, stack |-> o.stack,
           memory |-> IF o.options.memory THEN v ELSE Nothing, fired |-> TRUE, firing |-> TRUE,
           firingStart |-> 0, firingIndex |-> 0, firingLength |-> Len(o.list),
           told |-> p.told, emptied |-> FALSE]
  <2>1. Fields(o) /\ o.firingStart = 0
    BY <1>2 DEF ListShape
  <2> QED
    BY <1>1, <2>1, Begun
<1>4. Enabled(o) /\ Stack(o.list) /\ Len(o.list) \in Nat
  BY StackLen DEF Fires, ListOK
<1>5. /\ p.options = o.options /\ p.list = o.list /\ p.stack = o.stack /\ p.fired = TRUE /\ p.firing = TRUE
      /\ p.firingStart = 0 /\ p.firingIndex = 0 /\ p.firingLength = Len(o.list)
      /\ p.memory = IF o.options.memory THEN v ELSE Nothing
  BY <1>3
<1>6. ListShape(p)
  <2>1. p = [options |-> p.options, list |-> p.list, stack |-> p.stack, memory |-> p.memory,
             fired |-> p.fired, firing |-> p.firing, firingStart |-> p.firingStart,
             firingIndex |-> p.firingIndex, firingLength |-> p.firingLength,
             told |-> p.told, emptied |-> p.emptied]
    BY <1>3
  <2>2. p.fired \in BOOLEAN /\ p.firing \in BOOLEAN
    BY <1>5
  <2>3. p.firingStart = 0 /\ p.firingIndex \in Int /\ p.firingLength \in Int
    BY <1>4, <1>5
  <2> QED
    BY <2>1, <2>2, <2>3 DEF ListShape, Fields
<1>7. ListOK(l, p, L)
  BY <1>4, <1>5, <1>6 DEF ListOK, Enabled
<1>8. ASSUME l \in SettlingList
      PROVE  /\ SettlingOK(l, p) /\ ~o.fired /\ p.memory = v
             /\ Enabled(p) /\ HasFirstThree(l, p.list) /\ p.firingLength >= 3
  <2>1. o.options = OnceMemory /\ o.stack = Nothing /\ OnceMemory.memory = TRUE
    BY <1>8 DEF SettlingOK, OnceMemory
  <2>2. ~o.fired /\ HasFirstThree(l, o.list)
    BY <1>4, <1>8, <2>1 DEF Fires, SettlingOK
  <2>3. SettlingOK(l, p)
    BY <1>5, <2>1 DEF SettlingOK
  <2>4. p.memory = v
    BY <1>5, <2>1
  <2> QED
    BY <1>4, <1>5, <2>2, <2>3, <2>4 DEF Enabled, HasFirstThree
<1> QED
  BY <1>1, <1>5, <1>7, <1>8

LEMMA ChangeList ==
  ASSUME ListsOK(cb), NEW l \in DOMAIN cb, NEW p, ListOK(l, p, DOMAIN cb),
         l \in SettlingList => SettlingOK(l, p), NEW c, c = [cb EXCEPT ![l] = p]
  PROVE  /\ ListsOK(c) /\ DOMAIN c = DOMAIN cb /\ c[l] = p
         /\ \A m \in DOMAIN cb : m # l => c[m] = cb[m]
<1>1. DOMAIN c = DOMAIN cb /\ c[l] = p /\ \A m \in DOMAIN cb : m # l => c[m] = cb[m]
  OBVIOUS
<1>2. ListsOK(c)
  <2> SUFFICES ASSUME NEW m \in DOMAIN cb
               PROVE  ListOK(m, c[m], DOMAIN cb) /\ (m \in SettlingList => SettlingOK(m, c[m]))
    BY <1>1 DEF ListsOK
  <2>1. CASE m = l
    BY <1>1, <2>1
  <2>2. CASE m # l
    BY <1>1, <2>2 DEF ListsOK
  <2> QED
    BY <2>1, <2>2
<1> QED
  BY <1>1, <1>2

\* The list with the callback, if it is added at all.
LEMMA Pushed ==
  ASSUME NEW L, NEW l, NEW o, ListOK(l, o, L), Enabled(o), NEW x, Addable(x, L)
  PROVE  \E ls : /\ Push(o, x) = [o EXCEPT !.list = ls]
                 /\ Stack(ls) /\ Len(ls) >= Len(o.list)
                 /\ \A i \in 1..Len(o.list) : ls[i] = o.list[i]
                 /\ \A i \in 1..Len(ls) : Addable(ls[i], L) \/ OneOfFirst(l, i, ls[i])
<1>1. PICK op, l0, st, me, fd, fg, fi, fl, to, em :
        o = [options |-> op, list |-> l0, stack |-> st, memory |-> me, fired |-> fd, firing |-> fg,
             firingStart |-> 0, firingIndex |-> fi, firingLength |-> fl, told |-> to, emptied |-> em]
  BY ListFields DEF ListOK
<1>2. o.list = l0 /\ Stack(l0) /\ Len(l0) \in Nat
      /\ \A i \in 1..Len(l0) : Addable(l0[i], L) \/ OneOfFirst(l, i, l0[i])
  BY <1>1, StackLen DEF ListOK
<1>3. CASE o.options.unique /\ Contains(o.list, x)
  <2>1. Push(o, x) = o
    BY <1>3 DEF Push
  <2>2. o = [o EXCEPT !.list = l0]
    BY <1>1
  <2> QED
    BY <1>2, <2>1, <2>2
<1>4. CASE ~(o.options.unique /\ Contains(o.list, x))
  <2>1. PICK ls : ls = Append(l0, x)
    OBVIOUS
  <2>2. Push(o, x) = [o EXCEPT !.list = ls]
    <3>1. Push(o, x) = [o EXCEPT !.list = Append(@, x)]
      BY <1>4 DEF Push
    <3>2. [o EXCEPT !.list = Append(@, x)] = [o EXCEPT !.list = ls]
      BY <1>2, <2>1
    <3> QED
      BY <3>1, <3>2
  <2>3. /\ Stack(ls) /\ Len(ls) = Len(l0) + 1
        /\ \A i \in 1..Len(l0) : ls[i] = l0[i]
        /\ ls[Len(l0) + 1] = x
    BY <1>2, <2>1, StackPush
  <2>4. \A i \in 1..Len(ls) : i \in 1..Len(l0) \/ i = Len(l0) + 1
    BY <1>2, <2>3
  <2>5. \A i \in 1..Len(ls) : Addable(ls[i], L) \/ OneOfFirst(l, i, ls[i])
    BY <1>2, <2>3, <2>4
  <2>6. Len(ls) >= Len(o.list) /\ \A i \in 1..Len(o.list) : ls[i] = o.list[i]
    BY <1>2, <2>3
  <2> QED
    BY <2>2, <2>3, <2>5, <2>6
<1> QED
  BY <1>3, <1>4

LEMMA AddedOK ==
  ASSUME NEW L, NEW l, NEW o, ListOK(l, o, L), l \in SettlingList => SettlingOK(l, o),
         NEW x, Addable(x, L), NEW q, q = Added(o, x)
  PROVE  /\ ListOK(l, q, L)
         /\ l \in SettlingList =>
              /\ SettlingOK(l, q) /\ q.fired = o.fired /\ q.memory = o.memory
              /\ ~Enabled(o) => ~Enabled(q)
         /\ IF Refires(o) THEN ~o.firing /\ q.firing /\ q.firingIndex >= 0 ELSE q.firing = o.firing
<1>1. CASE ~Enabled(o)
  <2>1. q = o /\ ~Refires(o)
    BY <1>1 DEF Added, Refires
  <2> QED
    BY <2>1
<1>2. CASE Enabled(o)
  <2>1. PICK op, l0, st, me, fd, fg, fi, fl, to, em :
          /\ o = [options |-> op, list |-> l0, stack |-> st, memory |-> me, fired |-> fd, firing |-> fg,
                  firingStart |-> 0, firingIndex |-> fi, firingLength |-> fl, told |-> to, emptied |-> em]
          /\ fd \in BOOLEAN /\ fg \in BOOLEAN /\ fi \in Int /\ fl \in Int
    BY ListFields DEF ListOK
  <2>2. PICK ls : /\ Push(o, x) = [o EXCEPT !.list = ls]
                  /\ Stack(ls) /\ Len(ls) >= Len(o.list)
                  /\ \A i \in 1..Len(o.list) : ls[i] = o.list[i]
                  /\ \A i \in 1..Len(ls) : Addable(ls[i], L) \/ OneOfFirst(l, i, ls[i])
    BY <1>2, Pushed
  <2>3. PICK p : p = [o EXCEPT !.list = ls]
    OBVIOUS
  <2>4. p = [options |-> op, list |-> ls, stack |-> st, memory |-> me, fired |-> fd, firing |-> fg,
             firingStart |-> 0, firingIndex |-> fi, firingLength |-> fl, told |-> to, emptied |-> em]
    BY <2>1, <2>3
  <2>5. Len(ls) \in Nat /\ Len(l0) \in Nat /\ o.list = l0 /\ o.firing = fg /\ o.fired = fd /\ o.memory = me
        /\ o.firingIndex = fi /\ o.firingLength = fl /\ o.options = op /\ o.stack = st
        /\ (fg => -1 <= fi /\ fl <= Len(l0))
    BY <1>2, <2>1, <2>2, StackLen DEF ListOK
  <2>6. l \in SettlingList => op = OnceMemory /\ st = Nothing /\ op.memory = TRUE
          /\ (~fd => ~fg /\ me = Nothing /\ HasFirstThree(l, l0))
    BY <1>2, <2>5 DEF SettlingOK, OnceMemory
  <2>7. HasFirstThree(l, l0) => HasFirstThree(l, ls)
    <3>1. ASSUME HasFirstThree(l, l0) PROVE Len(ls) >= 3 /\ \A i \in 1..3 : ls[i] = l0[i]
      BY <2>2, <2>5, <3>1 DEF HasFirstThree
    <3> QED
      BY <3>1 DEF HasFirstThree
  <2>8. CASE o.firing
    <3>1. q = [p EXCEPT !.firingLength = Len(p.list)]
      BY <1>2, <2>2, <2>3, <2>8 DEF Added
    <3>2. PICK n : n = Len(ls)
      OBVIOUS
    <3>3. q = [options |-> op, list |-> ls, stack |-> st, memory |-> me, fired |-> fd, firing |-> fg,
               firingStart |-> 0, firingIndex |-> fi, firingLength |-> n, told |-> to, emptied |-> em]
      BY <2>4, <3>1, <3>2
    <3>4. ListOK(l, q, L)
      BY <2>1, <2>2, <2>5, <3>2, <3>3 DEF ListOK, ListShape, Fields
    <3>5. l \in SettlingList => SettlingOK(l, q)
      BY <2>5, <2>6, <2>8, <3>3 DEF SettlingOK
    <3>6. q.fired = fd /\ q.memory = me /\ q.firing = fg
      BY <3>3
    <3>7. ~Refires(o)
      BY <2>8 DEF Refires
    <3> QED
      BY <1>2, <2>5, <3>4, <3>5, <3>6, <3>7
  <2>9. CASE Refires(o)
    <3>1. ~o.firing /\ me # Nothing
      BY <2>5, <2>9 DEF Refires
    <3>2. q = BeginFire([p EXCEPT !.firingStart = Len(o.list)], o.memory)
      BY <1>2, <2>2, <2>3, <2>9, <3>1 DEF Added
    <3>3. PICK n : n = Len(o.list)
      OBVIOUS
    <3>4. q = [options |-> o.options, list |-> ls, stack |-> o.stack,
               memory |-> IF o.options.memory THEN o.memory ELSE Nothing, fired |-> TRUE, firing |-> TRUE,
               firingStart |-> 0, firingIndex |-> n, firingLength |-> Len(ls),
               told |-> q.told, emptied |-> FALSE]
      <4>1. PICK r : r = [p EXCEPT !.firingStart = n]
        OBVIOUS
      <4>2. r = [options |-> op, list |-> ls, stack |-> st, memory |-> me, fired |-> fd, firing |-> fg,
                 firingStart |-> n, firingIndex |-> fi, firingLength |-> fl, told |-> to, emptied |-> em]
        BY <2>4, <4>1
      <4>3. Fields(r) /\ r.options = op /\ r.list = ls /\ r.stack = st /\ r.firingStart = n
        BY <4>2 DEF Fields
      <4>4. q = BeginFire(r, o.memory)
        BY <3>2, <3>3, <4>1
      <4> QED
        BY <2>5, <4>3, <4>4, Begun
    <3>5. /\ q.options = op /\ q.list = ls /\ q.stack = st /\ q.fired = TRUE /\ q.firing = TRUE
          /\ q.firingStart = 0 /\ q.firingIndex = n /\ q.firingLength = Len(ls)
          /\ q.memory = (IF op.memory THEN me ELSE Nothing)
      BY <2>5, <3>4
    <3>6. ListShape(q)
      <4>1. q = [options |-> q.options, list |-> q.list, stack |-> q.stack, memory |-> q.memory,
                 fired |-> q.fired, firing |-> q.firing, firingStart |-> q.firingStart,
                 firingIndex |-> q.firingIndex, firingLength |-> q.firingLength,
                 told |-> q.told, emptied |-> q.emptied]
        BY <3>4
      <4>2. q.fired \in BOOLEAN /\ q.firing \in BOOLEAN
        BY <3>5
      <4>3. q.firingStart = 0 /\ q.firingIndex \in Int /\ q.firingLength \in Int
        BY <2>5, <3>3, <3>5
      <4> QED
        BY <4>1, <4>2, <4>3 DEF ListShape, Fields
    <3>7. ListOK(l, q, L)
      BY <2>2, <2>5, <3>3, <3>5, <3>6 DEF ListOK
    <3>8. l \in SettlingList => SettlingOK(l, q) /\ q.fired = o.fired /\ q.memory = o.memory
      BY <2>1, <2>5, <2>6, <3>1, <3>5 DEF SettlingOK
    <3> QED
      BY <1>2, <2>5, <2>9, <3>1, <3>3, <3>5, <3>7, <3>8
  <2>10. CASE ~o.firing /\ ~Refires(o)
    <3>1. q = p
      BY <1>2, <2>2, <2>3, <2>10 DEF Added
    <3>2. ListOK(l, q, L)
      BY <2>1, <2>2, <2>4, <2>5, <2>10, <3>1 DEF ListOK, ListShape, Fields
    <3>3. l \in SettlingList => SettlingOK(l, q)
      BY <2>4, <2>5, <2>6, <2>7, <3>1 DEF SettlingOK
    <3> QED
      BY <1>2, <2>4, <2>5, <2>10, <3>1, <3>2, <3>3
  <2> QED
    BY <2>8, <2>9, <2>10
<1> QED
  BY <1>1, <1>2

-----------------------------------------------------------------------------
(***************************************************************************)
(* Steps that begin a loop, from a stack that rests.                       *)
(***************************************************************************)

LEMMA PushFire ==
  ASSUME StackOK(cb, run, threw), NEW s, Rests(s, DOMAIN cb),
         NEW l \in DOMAIN cb, ~cb[l].firing, NEW v,
         NEW c, DOMAIN c = DOMAIN cb, \A m \in DOMAIN cb : m # l => c[m] = cb[m],
         c[l].firing, c[l].firingIndex >= 0,
         l \in SettlingList => c[l].fired /\ v = c[l].memory /\ (cb[l].fired => c[l].memory = cb[l].memory)
  PROVE  /\ StackOK(c, Append(s, FireFrame(l, v)), threw)
         /\ FromRun(s) => FromRun(Append(s, FireFrame(l, v)))
         /\ Append(s, FireFrame(l, v)) # <<>>
         /\ Len(Append(s, FireFrame(l, v))) \in Nat \ {0}
         /\ Append(s, FireFrame(l, v))[Len(Append(s, FireFrame(l, v)))] = FireFrame(l, v)
<1>1. PICK x : x = FireFrame(l, v)
  OBVIOUS
<1>2. /\ x = [f |-> "fire", l |-> l, v |-> v, pc |-> "next"]
      /\ x.f = "fire" /\ x.l = l /\ x.v = v /\ x.pc = "next"
  BY <1>1 DEF FireFrame
<1>3. PICK r : r = Append(s, x)
  OBVIOUS
<1>4. Stack(s) /\ Len(s) \in Nat
  BY StackLen DEF Rests, Frames
<1>5. /\ Stack(r) /\ Len(r) = Len(s) + 1 /\ r # <<>>
      /\ \A i \in 1..Len(s) : r[i] = s[i]
      /\ r[Len(r)] = x
  BY <1>3, <1>4, StackPush, StackLen
<1>6. \A i \in 1..Len(r) : i = Len(r) \/ (i \in 1..Len(s) /\ i \in 1..Len(r) - 1 /\ r[i] = s[i])
  BY <1>4, <1>5
<1>7. \A i \in 1..Len(s) : i \in 1..Len(r) /\ i # Len(r)
  BY <1>4, <1>5
<1>8. ~Looping(run, l)
  <2> SUFFICES ASSUME NEW i \in 1..Len(run), run[i].f = "fire", run[i].l = l PROVE FALSE
    BY DEF Looping, LoopAt
  <2> QED
    BY DEF StackOK
<1>9. \A i \in 1..Len(s) : s[i].f = "fire" => s[i].l # l
  BY <1>8 DEF Rests, Looping, LoopAt
<1>10. Frames(r, DOMAIN c)
  <2>1. IsFire(x, DOMAIN c)
    BY <1>2 DEF IsFire
  <2> QED
    BY <1>5, <1>6, <2>1 DEF Frames, Rests
<1>11. Paused(r, Len(r) - 1)
  <2>1. \A i \in 1..Len(r) - 1 : i \in 1..Len(s) /\ r[i] = s[i]
    BY <1>4, <1>5
  <2> QED
    BY <2>1 DEF Paused, Rests
<1>12. OneLoop(r)
  <2> SUFFICES ASSUME NEW i \in 1..Len(r), NEW j \in 1..Len(r), r[i].f = "fire", r[j].f = "fire", r[j].l = r[i].l
               PROVE  i = j
    BY DEF OneLoop, LoopAt
  <2>1. CASE i \in 1..Len(s) /\ j \in 1..Len(s)
    BY <1>6, <1>7, <2>1 DEF Rests, OneLoop, LoopAt
  <2>2. CASE i = Len(r) \/ j = Len(r)
    BY <1>2, <1>5, <1>6, <1>9, <2>2
  <2> QED
    BY <1>6, <2>1, <2>2
<1>13. ToldRight(r, c)
  <2> SUFFICES ASSUME NEW i \in 1..Len(r), r[i].f \in {"fire", "fn"}, r[i].l \in SettlingList
               PROVE  r[i].l \in DOMAIN c /\ c[r[i].l].fired /\ r[i].v = c[r[i].l].memory
    BY DEF ToldRight
  <2>1. CASE i = Len(r)
    BY <1>2, <1>5, <2>1
  <2>2. CASE i \in 1..Len(s) /\ r[i] = s[i]
    <3>1. s[i].l \in DOMAIN cb /\ cb[s[i].l].fired /\ s[i].v = cb[s[i].l].memory
      BY <2>2 DEF Rests, ToldRight
    <3> QED
      BY <2>2, <3>1
  <2> QED
    BY <1>6, <2>1, <2>2
<1>14. ASSUME NEW i \in 1..Len(r), r[i].f = "fire"
       PROVE  c[r[i].l].firing /\ (r[i].pc = "next" => c[r[i].l].firingIndex >= 0)
  <2>1. CASE i = Len(r)
    BY <1>2, <1>5, <2>1
  <2>2. CASE i \in 1..Len(s) /\ r[i] = s[i]
    <3>1. s[i].pc = "calling" /\ s[i].l # l
      BY <1>9, <1>14, <2>2 DEF Rests, Paused
    <3>2. Looping(run, s[i].l)
      BY ZenonT(40), <1>14, <2>2 DEF Rests, Looping, LoopAt
    <3>3. PICK j \in 1..Len(run) : run[j].f = "fire" /\ run[j].l = s[i].l
      BY <3>2 DEF Looping, LoopAt
    <3>4. s[i].l \in DOMAIN cb /\ cb[s[i].l].firing
      BY <3>3 DEF StackOK, Frames, IsFire, IsFn, IsTodo
    <3> QED
      BY <2>2, <3>1, <3>4
  <2> QED
    BY <1>6, <2>1, <2>2
<1>15. ASSUME ~threw, NEW m \in DOMAIN c, c[m].firing
       PROVE  Looping(r, m)
  <2>1. CASE m = l
    <3>1. Len(r) \in 1..Len(r)
      BY <1>4, <1>5
    <3> QED
      BY <1>2, <1>5, <2>1, <3>1 DEF Looping, LoopAt
  <2>2. CASE m # l
    <3>1. Looping(run, m)
      BY <1>15, <2>2 DEF StackOK
    <3>2. Looping(s, m)
      BY <3>1 DEF Rests
    <3> QED
      BY <1>5, <1>7, <3>2 DEF Looping, LoopAt
  <2> QED
    BY <2>1, <2>2
<1>16. StackOK(c, r, threw)
  BY <1>10, <1>11, <1>12, <1>13, <1>14, <1>15 DEF StackOK
<1>17. FromRun(s) => FromRun(r)
  BY <1>2, <1>5, <1>6 DEF FromRun
<1>18. Len(r) \in Nat \ {0}
  BY <1>4, <1>5
<1> QED
  BY <1>1, <1>3, <1>5, <1>16, <1>17, <1>18

\* A Deferred settles, while the functions told of others are left.
Settles(d) ==
  /\ OutcomeOf(d).how = "pending" /\ OutcomeOf(d) = [how |-> "pending", with |-> <<>>]
  /\ OutcomeOf(d)'.how \in {"resolved", "rejected"}
  /\ \A e \in DefId : e # d => OutcomeOf(e)' = OutcomeOf(e)
  /\ TellingOf' \subseteq TellingOf

NothingEarly == \A l \in SettlingList : ~Early(cb, run, l)

LEMMA AddStep ==
  ASSUME Inv, PageOK', NothingEarly, threw' = threw,
         NEW s, Rests(s, DOMAIN cb), NEW l \in DOMAIN cb, NEW x, Addable(x, DOMAIN cb), AddThen(l, x, s)
  PROVE  Inv' /\ (FromRun(s) => Silent)
<1>1. PICK o, q : o = cb[l] /\ q = Added(o, x)
  OBVIOUS
<1>2. cb' = [cb EXCEPT ![l] = q]
  BY <1>1 DEF AddThen
<1>3. ListOK(l, o, DOMAIN cb) /\ (l \in SettlingList => SettlingOK(l, o))
  BY <1>1 DEF Inv, ListsOK
<1>4. /\ ListOK(l, q, DOMAIN cb)
      /\ l \in SettlingList =>
           /\ SettlingOK(l, q) /\ q.fired = o.fired /\ q.memory = o.memory
           /\ ~Enabled(o) => ~Enabled(q)
      /\ IF Refires(o) THEN ~o.firing /\ q.firing /\ q.firingIndex >= 0 ELSE q.firing = o.firing
  BY <1>1, <1>3, AddedOK
<1>5. /\ ListsOK(cb') /\ DOMAIN cb' = DOMAIN cb /\ cb'[l] = q
      /\ \A m \in DOMAIN cb : m # l => cb'[m] = cb[m]
  BY <1>2, <1>4, ChangeList DEF Inv
<1>6. CASE ~Refires(o)
  <2>1. run' = s
    BY <1>1, <1>6 DEF AddThen
  <2>2. Keeps(cb')
    BY <1>1, <1>4, <1>5, <1>6 DEF Keeps
  <2>3. Rests(run', DOMAIN cb')
    BY <1>5, <2>1
  <2> QED
    BY <1>5, <2>1, <2>2, <2>3, CalmStep DEF NothingEarly
<1>7. CASE Refires(o)
  <2>1. run' = Append(s, FireFrame(l, o.memory))
    BY <1>1, <1>7 DEF AddThen
  <2>2. l \in SettlingList => o.fired
    BY <1>3, <1>7 DEF Refires, SettlingOK
  <2>3. StackOK(cb', run', threw') /\ (FromRun(s) => FromRun(run'))
    BY <1>1, <1>4, <1>5, <1>7, <2>1, <2>2, PushFire DEF Inv
  <2>4. Settled(cb', run')
    <3> SUFFICES ASSUME NEW m \in SettlingList, m \in DOMAIN cb, cb'[m].fired
                 PROVE  ~cb'[Partner(m)].fired /\ (~Enabled(cb'[Partner(m)]) \/ Early(cb', run', m))
      BY <1>5 DEF Settled
    <3>1. cb[m].fired
      BY <1>1, <1>4, <1>5
    <3>2. Partner(m) \in DOMAIN cb /\ Partner(m) \in SettlingList
      BY PartnersMade DEF Inv
    <3>3. ~cb[Partner(m)].fired /\ ~Enabled(cb[Partner(m)])
      BY <3>1 DEF Inv, Settled, NothingEarly
    <3> QED
      BY <1>1, <1>4, <1>5, <3>2, <3>3
  <2>5. ASSUME FromRun(s) PROVE Silent
    <3>1. Stack(run) /\ Stack(run')
      BY <2>3 DEF Inv, StackOK, Frames
    <3>2. TellingOf' \subseteq TellingOf
      BY <2>3, <2>5, <3>1, TellsNobodyNew
    <3>3. ASSUME NEW d \in DefId PROVE OutcomeOf(d)' = OutcomeOf(d)
      BY <1>1, <1>4, <1>5, OutcomeByLists DEF Inv
    <3> QED
      BY <3>2, <3>3 DEF Silent
  <2> QED
    BY <1>5, <2>3, <2>4, <2>5 DEF Inv
<1> QED
  BY <1>6, <1>7

LEMMA FireStep ==
  ASSUME Inv, PageOK', NothingEarly, threw' = threw,
         NEW s, Rests(s, DOMAIN cb), NEW l \in DOMAIN cb, NEW v, FireThen(l, v, s)
  PROVE  Inv' /\ (FromRun(s) => Silent \/ \E d \in DefId : Settles(d))
<1>1. PICK o, p : o = cb[l] /\ p = FiredWith(o, v)
  OBVIOUS
<1>2. cb' = [cb EXCEPT ![l] = p]
  BY <1>1 DEF FireThen
<1>3. ListOK(l, o, DOMAIN cb) /\ (l \in SettlingList => SettlingOK(l, o))
  BY <1>1 DEF Inv, ListsOK
<1>4. ASSUME ListOK(l, p, DOMAIN cb), l \in SettlingList => SettlingOK(l, p)
      PROVE  /\ ListsOK(cb') /\ DOMAIN cb' = DOMAIN cb /\ cb'[l] = p
             /\ \A m \in DOMAIN cb : m # l => cb'[m] = cb[m]
  BY <1>2, <1>4, ChangeList DEF Inv
<1>5. CASE ~Fires(o) \/ Waits(o)
  <2>1. run' = s
    BY <1>1, <1>5 DEF FireThen
  <2>2. /\ ListOK(l, p, DOMAIN cb) /\ p.firing = o.firing
        /\ l \in SettlingList => p = o
    <3>1. CASE ~Fires(o)
      BY <1>1, <1>3, <3>1 DEF FiredWith
    <3>2. CASE Fires(o) /\ Waits(o)
      <4>1. p = [o EXCEPT !.stack = Append(@, v)]
        BY <1>1, <3>2 DEF FiredWith
      <4>2. PICK st : st = Append(o.stack, v)
        OBVIOUS
      <4>3. PICK op, ls, s0, me, fd, fg, fi, fl, to, em :
              /\ o = [options |-> op, list |-> ls, stack |-> s0, memory |-> me, fired |-> fd, firing |-> fg,
                      firingStart |-> 0, firingIndex |-> fi, firingLength |-> fl, told |-> to, emptied |-> em]
              /\ fd \in BOOLEAN /\ fg \in BOOLEAN /\ fi \in Int /\ fl \in Int
        BY <1>3, ListFields DEF ListOK
      <4>4. p = [options |-> op, list |-> ls, stack |-> st, memory |-> me, fired |-> fd, firing |-> fg,
                 firingStart |-> 0, firingIndex |-> fi, firingLength |-> fl, told |-> to, emptied |-> em]
        BY <4>1, <4>2, <4>3
      <4>5. ListOK(l, p, DOMAIN cb) /\ p.firing = o.firing
        BY <1>3, <4>3, <4>4 DEF ListOK, ListShape, Fields, Enabled
      <4>6. l \notin SettlingList
        BY <1>3, <3>2 DEF SettlingOK, Fires, Waits
      <4> QED
        BY <4>5, <4>6
    <3> QED
      BY <1>5, <3>1, <3>2
  <2>3. /\ ListsOK(cb') /\ DOMAIN cb' = DOMAIN cb /\ cb'[l] = p
        /\ \A m \in DOMAIN cb : m # l => cb'[m] = cb[m]
    BY <1>3, <1>4, <2>2
  <2>4. Keeps(cb')
    BY <1>1, <2>2, <2>3 DEF Keeps
  <2>5. Rests(run', DOMAIN cb')
    BY <2>1, <2>3
  <2> QED
    BY <2>1, <2>3, <2>4, <2>5, CalmStep DEF NothingEarly
<1>6. CASE Fires(o) /\ ~Waits(o)
  <2>1. p = BeginFire(o, v) /\ ~o.firing
    BY <1>1, <1>6 DEF FiredWith, Waits
  <2>2. run' = Append(s, FireFrame(l, v))
    BY <1>1, <1>6 DEF FireThen
  <2>3. /\ ListOK(l, p, DOMAIN cb)
        /\ p.firing /\ p.firingIndex = 0
        /\ l \in SettlingList =>
             /\ SettlingOK(l, p) /\ ~o.fired /\ p.fired /\ p.memory = v
             /\ Enabled(p) /\ HasFirstThree(l, p.list) /\ p.firingLength >= 3
    BY <1>3, <1>6, <2>1, BegunOK
  <2>4. /\ ListsOK(cb') /\ DOMAIN cb' = DOMAIN cb /\ cb'[l] = p
        /\ \A m \in DOMAIN cb : m # l => cb'[m] = cb[m]
    BY <1>4, <2>3
  <2>5. /\ StackOK(cb', run', threw') /\ (FromRun(s) => FromRun(run'))
        /\ run' # <<>> /\ Len(run') \in Nat \ {0} /\ run'[Len(run')] = FireFrame(l, v)
    BY SMTT(30), <1>1, <2>1, <2>2, <2>3, <2>4, PushFire DEF Inv
  <2>6. \A m \in SettlingList : m \in DOMAIN cb /\ cb[m].fired =>
          ~cb[Partner(m)].fired /\ ~Enabled(cb[Partner(m)]) /\ Partner(m) \in DOMAIN cb
    BY PartnersMade DEF Inv, Settled, NothingEarly
  <2>7. l \in SettlingList => Partner(l) \in DOMAIN cb /\ Partner(l) \in SettlingList /\ Partner(Partner(l)) = l
    BY PartnersMade DEF Inv
  <2>8. l \in SettlingList => ~cb[Partner(l)].fired /\ Partner(l) # l
    <3>1. l \in SettlingList => Partner(l) # l
      BY DEF SettlingList, Settling, Partner, Other
    <3>2. Enabled(cb[l])
      BY <1>1, <1>6 DEF Fires
    <3> QED
      BY <2>6, <2>7, <3>1, <3>2
  <2>9. Settled(cb', run')
    <3> SUFFICES ASSUME NEW m \in SettlingList, m \in DOMAIN cb, cb'[m].fired
                 PROVE  ~cb'[Partner(m)].fired /\ (~Enabled(cb'[Partner(m)]) \/ Early(cb', run', m))
      BY <2>4 DEF Settled
    <3>1. CASE m = l
      <4>1. cb'[Partner(l)] = cb[Partner(l)] /\ ~cb[Partner(l)].fired
        BY <2>4, <2>7, <2>8, <3>1
      <4>2. LoopAt(run', Len(run'), l) /\ run'[Len(run')].pc = "next"
        BY <2>5 DEF LoopAt, FireFrame
      <4>3. Early(cb', run', l)
        BY <2>3, <2>4, <2>5, <3>1, <4>2 DEF Early
      <4> QED
        BY <3>1, <4>1, <4>3
    <3>2. CASE m # l
      <4>1. cb[m].fired
        BY <2>4, <3>2
      <4>2. ~cb[Partner(m)].fired /\ ~Enabled(cb[Partner(m)]) /\ Partner(m) \in DOMAIN cb
        BY <2>6, <4>1
      <4>3. Partner(m) # l
        BY <1>1, <1>6, <4>2 DEF Fires
      <4> QED
        BY <2>4, <4>2, <4>3
    <3> QED
      BY <3>1, <3>2
  <2>10. Inv'
    BY <2>4, <2>5, <2>9 DEF Inv
  <2>11. ASSUME FromRun(s) PROVE Silent \/ \E d \in DefId : Settles(d)
    <3>1. Stack(run) /\ Stack(run')
      BY <2>5 DEF Inv, StackOK, Frames
    <3>2. TellingOf' \subseteq TellingOf
      BY <2>5, <2>11, <3>1, TellsNobodyNew
    <3>3. ASSUME NEW e \in DefId, l \notin SettlingList \/ l[1] # e
          PROVE  OutcomeOf(e)' = OutcomeOf(e)
      <4>1. \A m \in DOMAIN cb : m \in SettlingList /\ m[1] = e => cb'[m] = cb[m]
        BY <2>4, <3>3
      <4> QED
        BY <2>4, <4>1, OutcomeByLists DEF Inv
    <3>4. CASE l \notin SettlingList
      BY <3>2, <3>3, <3>4 DEF Silent
    <3>5. CASE l \in SettlingList
      <4>1. PICK d \in DefId, a \in Settling : l = <<d, a>>
        BY <3>5 DEF SettlingList
      <4>2. l[1] = d /\ Partner(l) = <<d, Other(a)>>
        BY <4>1 DEF Partner
      <4>3. ~cb[<<d, "done">>].fired /\ ~cb[<<d, "fail">>].fired
        <5>1. ~cb[l].fired /\ ~cb[Partner(l)].fired
          BY <1>1, <2>3, <2>8, <3>5
        <5>2. a = "done" \/ a = "fail"
          BY DEF Settling
        <5> QED
          BY <4>1, <4>2, <5>1, <5>2 DEF Other
      <4>4. OutcomeOf(d) = [how |-> "pending", with |-> <<>>] /\ OutcomeOf(d).how = "pending"
        BY <4>3 DEF OutcomeOf
      <4>5. OutcomeOf(d)'.how \in {"resolved", "rejected"}
        <5>1. cb'[<<d, a>>].fired /\ Made(d)'
          <6>1. <<d, a>> \in DOMAIN cb' /\ a \in Action
            BY <2>4, <4>1 DEF Settling, Action
          <6>2. Made(d)'
            BY <6>1 DEF PageOK
          <6> QED
            BY <2>3, <2>4, <3>5, <4>1, <6>2
        <5>2. a = "done" \/ a = "fail"
          BY DEF Settling
        <5> QED
          BY <5>1, <5>2 DEF OutcomeOf
      <4> QED
        BY <3>2, <3>3, <4>2, <4>4, <4>5 DEF Settles
    <3> QED
      BY <3>4, <3>5
  <2> QED
    BY <2>10, <2>11
<1> QED
  BY <1>5, <1>6

-----------------------------------------------------------------------------
(***************************************************************************)
(* The rest of the page.                                                   *)
(***************************************************************************)

CallsLeft == calls' \in [Kinds -> Nat] /\ (calls'["list"] > 0 => calls["list"] > 0)

LEMMA SpendLeaves ==
  ASSUME PageOK, NEW kind \in Kinds, Spend(kind)
  PROVE  CallsLeft /\ threw' = threw /\ PageRuns
<1>1. calls \in [Kinds -> Nat] /\ calls[kind] > 0 /\ calls' = [calls EXCEPT ![kind] = @ - 1]
  BY DEF PageOK, Spend
<1>2. calls' \in [Kinds -> Nat] /\ \A k \in Kinds : calls'[k] <= calls[k]
  BY <1>1
<1>3. calls["list"] \in Nat /\ calls'["list"] \in Nat /\ calls'["list"] <= calls["list"]
  BY <1>1, <1>2 DEF Kinds
<1> QED
  BY <1>2, <1>3 DEF CallsLeft, Spend

LEMMA SameCalls ==
  ASSUME PageOK, calls' = calls
  PROVE  CallsLeft
BY DEF PageOK, CallsLeft

LEMMA RequestGrows ==
  ASSUME NEW L, NEW M, L \subseteq M, NEW q, NEW r, RequestOK(q, r, L)
  PROVE  RequestOK(q, r, M)
BY CallsGrow DEF RequestOK

LEMMA SamePage ==
  ASSUME PageOK, CallsLeft, DOMAIN cb' = DOMAIN cb, UNCHANGED <<state, own, req>>
  PROVE  PageOK'
BY DEF PageOK, CallsLeft, Made

-----------------------------------------------------------------------------
(***************************************************************************)
(* No loop of a Deferred is at its first two callbacks ...                 *)
(***************************************************************************)

\* ... outside a loop ...
LEMMA OutsideLoops ==
  ASSUME run = <<>> \/ TopIs("fn") \/ TopIs("todo")
  PROVE  NothingEarly
BY DEF NothingEarly, Early, LoopAt, TopIs, Top

LEMMA InPage ==
  ASSUME PageRuns
  PROVE  NothingEarly
BY OutsideLoops DEF PageRuns, TopIs

\* The callback a loop is about to call.
LEMMA CallbackOK ==
  ASSUME Inv, NEW k, Calling(k)
  PROVE  /\ IsFire(Top, DOMAIN cb) /\ Top.l \in DOMAIN cb /\ Top.pc = "next"
         /\ Enabled(cb[Top.l]) /\ cb[Top.l].firing
         /\ cb[Top.l].firingIndex + 1 \in 1..Len(cb[Top.l].list)
         /\ Callback.k = k
         /\ \/ Addable(Callback, DOMAIN cb)
            \/ OneOfFirst(Top.l, cb[Top.l].firingIndex + 1, Callback)
         /\ Top.l \in SettlingList => cb[Top.l].fired /\ Top.v = cb[Top.l].memory
<1>1. TopIs("fire") /\ Top.pc = "next" /\ InLoop(cb[Top.l]) /\ Callback.k = k
  BY DEF Calling
<1>2. IsFire(Top, DOMAIN cb) /\ Len(run) \in Nat \ {0}
  BY <1>1, RestsCalling DEF Inv
<1>3. PICK n : n = Len(run) /\ n \in 1..Len(run) /\ Top = run[n]
  BY <1>2 DEF Top
<1>4. Top.f = "fire" /\ Top.l \in DOMAIN cb
  BY <1>2 DEF IsFire
<1>5. cb[Top.l].firing /\ cb[Top.l].firingIndex >= 0
  BY <1>1, <1>3, <1>4 DEF Inv, StackOK
<1>6. PICK o : o = cb[Top.l]
  OBVIOUS
<1>7. ListOK(Top.l, o, DOMAIN cb)
  BY <1>4, <1>6 DEF Inv, ListsOK
<1>8. Enabled(o) /\ o.firingIndex < o.firingLength
  BY <1>1, <1>6 DEF InLoop
<1>9. o.firingIndex \in Int /\ o.firingLength \in Int /\ o.firingLength <= Len(o.list)
      /\ Stack(o.list) /\ Len(o.list) \in Nat
  BY <1>5, <1>6, <1>7, <1>8, StackLen DEF ListOK, ListShape
<1>10. o.firingIndex + 1 \in 1..Len(o.list)
  BY <1>5, <1>6, <1>8, <1>9
<1>11. Callback = o.list[o.firingIndex + 1]
  BY <1>6 DEF Callback
<1>12. \/ Addable(Callback, DOMAIN cb)
       \/ OneOfFirst(Top.l, o.firingIndex + 1, Callback)
  BY <1>7, <1>8, <1>10, <1>11 DEF ListOK
<1>13. Top.l \in SettlingList => cb[Top.l].fired /\ Top.v = cb[Top.l].memory
  BY <1>3, <1>4 DEF Inv, StackOK, ToldRight
<1> QED
  BY <1>1, <1>2, <1>4, <1>5, <1>6, <1>8, <1>10, <1>12, <1>13

\* ... or at any other callback.
LEMMA LaterCallback ==
  ASSUME NEW k, Calling(k), k \notin {"state", "disable"}
  PROVE  NothingEarly
<1> SUFFICES ASSUME NEW l \in SettlingList, Early(cb, run, l) PROVE FALSE
  BY DEF NothingEarly
<1>1. Top.l = l /\ Top.pc = "next" /\ Callback.k = k
  BY DEF Calling, Early, LoopAt, Top
<1>2. PICK i \in {0, 1} : cb[l].firingIndex = i
  BY <1>1 DEF Early, Top
<1>3. Callback = FirstCallbacks(l[1], l[2])[i + 1]
  BY <1>1, <1>2 DEF Early, HasFirstThree, Callback
<1>4. Callback.k \in {"state", "disable"}
  BY <1>2, <1>3 DEF FirstCallbacks, SetState, DisableList
<1> QED
  BY <1>1, <1>4

\* Disabling a list that settled nothing.
LEMMA DisabledOK ==
  ASSUME NEW L, NEW l, NEW o, ListOK(l, o, L), l \in SettlingList => SettlingOK(l, o),
         NEW q, q = Disabled(o)
  PROVE  /\ ListOK(l, q, L) /\ (l \in SettlingList => SettlingOK(l, q))
         /\ q.firing = o.firing /\ q.fired = o.fired /\ q.memory = Nothing /\ ~Enabled(q)
<1>1. PICK op, l0, st, me, fd, fg, fi, fl, to, em :
        /\ o = [options |-> op, list |-> l0, stack |-> st, memory |-> me, fired |-> fd, firing |-> fg,
                firingStart |-> 0, firingIndex |-> fi, firingLength |-> fl, told |-> to, emptied |-> em]
        /\ fd \in BOOLEAN /\ fg \in BOOLEAN /\ fi \in Int /\ fl \in Int
  BY ListFields DEF ListOK
<1>2. q = [options |-> op, list |-> Nothing, stack |-> Nothing, memory |-> Nothing, fired |-> fd, firing |-> fg,
           firingStart |-> 0, firingIndex |-> fi, firingLength |-> fl, told |-> to, emptied |-> em]
  BY <1>1 DEF Disabled
<1>3. ListOK(l, q, L) /\ ~Enabled(q)
  BY <1>1, <1>2 DEF ListOK, ListShape, Fields, Enabled
<1>4. l \in SettlingList => SettlingOK(l, q)
  BY <1>1, <1>2 DEF SettlingOK, Enabled
<1> QED
  BY <1>1, <1>2, <1>3, <1>4

LEMMA LockedOK ==
  ASSUME NEW L, NEW l, NEW o, ListOK(l, o, L), l \notin SettlingList,
         NEW q, q = Locked(o)
  PROVE  ListOK(l, q, L) /\ q.firing = o.firing
<1>1. PICK op, l0, st, me, fd, fg, fi, fl, to, em :
        /\ o = [options |-> op, list |-> l0, stack |-> st, memory |-> me, fired |-> fd, firing |-> fg,
                firingStart |-> 0, firingIndex |-> fi, firingLength |-> fl, told |-> to, emptied |-> em]
        /\ fd \in BOOLEAN /\ fg \in BOOLEAN /\ fi \in Int /\ fl \in Int
  BY ListFields DEF ListOK
<1>2. PICK p : p = [o EXCEPT !.stack = Nothing]
  OBVIOUS
<1>3. p = [options |-> op, list |-> l0, stack |-> Nothing, memory |-> me, fired |-> fd, firing |-> fg,
           firingStart |-> 0, firingIndex |-> fi, firingLength |-> fl, told |-> to, emptied |-> em]
  BY <1>1, <1>2
<1>4. ListOK(l, p, L) /\ p.firing = o.firing
  BY <1>1, <1>3 DEF ListOK, ListShape, Fields, Enabled
<1>5. q = (IF o.memory = Nothing THEN Disabled(p) ELSE p)
  BY <1>2 DEF Locked
<1>6. CASE o.memory = Nothing
  BY <1>4, <1>5, <1>6, DisabledOK
<1>7. CASE o.memory # Nothing
  BY <1>4, <1>5, <1>7
<1> QED
  BY <1>6, <1>7

LEMMA EmptiedOK ==
  ASSUME NEW L, NEW l, NEW o, ListOK(l, o, L), l \notin SettlingList,
         NEW q, q = Emptied(o)
  PROVE  ListOK(l, q, L) /\ q.firing = o.firing
<1>1. PICK op, l0, st, me, fd, fg, fi, fl, to, em :
        /\ o = [options |-> op, list |-> l0, stack |-> st, memory |-> me, fired |-> fd, firing |-> fg,
                firingStart |-> 0, firingIndex |-> fi, firingLength |-> fl, told |-> to, emptied |-> em]
        /\ fd \in BOOLEAN /\ fg \in BOOLEAN /\ fi \in Int /\ fl \in Int
  BY ListFields DEF ListOK
<1>2. q = [options |-> op, list |-> <<>>, stack |-> st, memory |-> me, fired |-> fd, firing |-> fg,
           firingStart |-> 0, firingIndex |-> fi, firingLength |-> 0, told |-> to, emptied |-> TRUE]
  BY <1>1 DEF Emptied
<1>3. ListOK(l, q, L)
  <2>1. ListShape(q)
    BY <1>1, <1>2 DEF ListShape, Fields
  <2>2. Stack(q.list) /\ Len(q.list) = 0 /\ q.firingLength = 0
    BY <1>2, StackEmpty
  <2>3. \A i \in 1..Len(q.list) : FALSE
    BY <2>2
  <2>4. q.firing => -1 <= q.firingIndex
    BY <1>1, <1>2 DEF ListOK
  <2> QED
    BY <2>1, <2>2, <2>3, <2>4 DEF ListOK
<1> QED
  BY <1>1, <1>2, <1>3

\* The indexes of a firing list go down with the callbacks before them.
LEMMA RemovedOK ==
  ASSUME NEW L, NEW l, NEW o, ListOK(l, o, L), l \notin SettlingList,
         NEW x, NEW q, q = Removed(o, x)
  PROVE  ListOK(l, q, L) /\ q.firing = o.firing
<1>1. CASE ~Enabled(o)
  BY <1>1 DEF Removed
<1>2. CASE Enabled(o)
  <2>1. PICK op, l0, st, me, fd, fg, fi, fl, to, em :
          /\ o = [options |-> op, list |-> l0, stack |-> st, memory |-> me, fired |-> fd, firing |-> fg,
                  firingStart |-> 0, firingIndex |-> fi, firingLength |-> fl, told |-> to, emptied |-> em]
          /\ fd \in BOOLEAN /\ fg \in BOOLEAN /\ fi \in Int /\ fl \in Int
    BY ListFields DEF ListOK
  <2>2. /\ Stack(l0) /\ Len(l0) \in Nat /\ o.list = l0 /\ o.firing = fg /\ o.firingIndex = fi
        /\ o.firingLength = fl
        /\ \A i \in 1..Len(l0) : Addable(l0[i], L) \/ OneOfFirst(l, i, l0[i])
        /\ fg => fl <= Len(l0) /\ -1 <= fi
    BY <1>2, <2>1, StackLen DEF ListOK
  <2>3. PICK ls : ls = Without(l0, x)
    OBVIOUS
  <2>4. PICK gl, gi : gl = GoneUpTo(o, x, fl) /\ gi = GoneUpTo(o, x, fi)
    OBVIOUS
  <2>5. q = [options |-> op, list |-> ls, stack |-> st, memory |-> me, fired |-> fd, firing |-> fg,
             firingStart |-> 0, firingIndex |-> IF fg THEN fi - gi ELSE fi,
             firingLength |-> IF fg THEN fl - gl ELSE fl, told |-> to, emptied |-> em]
    <3>1. q = [o EXCEPT !.list = ls, !.firingLength = IF fg THEN fl - gl ELSE fl,
                        !.firingIndex = IF fg THEN fi - gi ELSE fi]
      BY <1>2, <2>1, <2>3, <2>4 DEF Removed
    <3> QED
      BY <2>1, <3>1
  <2> DEFINE All == {i \in 1..Len(l0) : l0[i] = x}
             UpTo(n) == {i \in 1..Len(l0) : l0[i] = x /\ i - 1 <= n}
             Rest == {i \in 1..Len(l0) : l0[i] = x /\ ~(i - 1 <= fl)}
  <2>6. /\ Stack(ls) /\ Len(ls) = Len(l0) - Cardinality(All)
        /\ \A i \in 1..Len(ls) : \E j \in 1..Len(l0) : ls[i] = l0[j] /\ l0[j] # x
    <3>1. Stack(l0)
      BY <2>2
    <3>2. /\ Stack(ls) /\ Len(ls) = Len(l0) - Cardinality(Occurs(l0, x))
          /\ \A i \in 1..Len(ls) : \E j \in 1..Len(l0) :
               ls[i] = l0[j] /\ l0[j] # x /\ i = j - Cardinality(OccursUpTo(l0, j, x))
      BY <2>3, <3>1, WithoutKeeps
    <3> QED
      BY <3>2 DEF Occurs
  <2>7. gl = Cardinality(UpTo(fl)) /\ gi = Cardinality(UpTo(fi))
    <3>1. DOMAIN o.list = 1..Len(l0)
      BY <2>2, StackLen
    <3> QED
      BY <2>2, <2>4, <3>1 DEF GoneUpTo
  <2>8. \A S \in SUBSET (1..Len(l0)) : IsFiniteSet(S) /\ Cardinality(S) \in Nat
    <3>1. IsFiniteSet(1..Len(l0))
      BY <2>2, FS_Interval
    <3> QED
      BY <3>1, FS_Subset, FS_CardinalityType
  <2>9. ASSUME fg PROVE fi - gi >= -1 /\ gi \in Nat
    <3>1. UpTo(fi) \subseteq 1..fi + 1
      BY <2>1
    <3>2. IsFiniteSet(1..fi + 1) /\ Cardinality(1..fi + 1) = fi + 1
      <4>1. fi + 1 \in Nat
        BY <2>1, <2>2, <2>9
      <4> QED
        BY <2>1, <4>1, FS_Interval
    <3>3. Cardinality(UpTo(fi)) <= fi + 1
      <4>1. PICK S, T : S = UpTo(fi) /\ T = 1..fi + 1
        OBVIOUS
      <4>2. Cardinality(S) <= Cardinality(T)
        BY <3>1, <3>2, <4>1, FS_Subset
      <4> QED
        BY <3>2, <4>1, <4>2
    <3>4. gi \in Nat
      BY <2>7, <2>8
    <3> QED
      BY <2>1, <2>7, <3>3, <3>4
  <2>10. ASSUME fg PROVE fl - gl <= Len(ls) /\ gl \in Nat
    <3>1. All = UpTo(fl) \union Rest /\ UpTo(fl) \intersect Rest = {}
      OBVIOUS
    <3>2. /\ IsFiniteSet(UpTo(fl)) /\ Cardinality(UpTo(fl)) \in Nat
          /\ IsFiniteSet(Rest) /\ Cardinality(Rest) \in Nat
      BY <2>8
    <3>3. Cardinality(All) = Cardinality(UpTo(fl)) + Cardinality(Rest)
      <4>1. Cardinality({}) = 0
        BY FS_EmptySet
      <4>2. Cardinality(All) = Cardinality(UpTo(fl)) + Cardinality(Rest) - Cardinality(UpTo(fl) \intersect Rest)
        <5>1. PICK S, T : S = UpTo(fl) /\ T = Rest
          OBVIOUS
        <5>3. S \union T = All /\ S \intersect T = {}
          BY <3>1, <5>1
        <5>2. Cardinality(S \union T) = Cardinality(S) + Cardinality(T) - Cardinality(S \intersect T)
          BY <3>2, <5>1, FS_Union
        <5> QED
          BY <5>1, <5>2, <5>3
      <4> HIDE DEF All, UpTo, Rest
      <4>3. Cardinality(UpTo(fl) \intersect Rest) = 0
        BY <3>1, <4>1
      <4> QED
        BY <3>2, <4>2, <4>3
    <3>4. fl < 0 \/ Cardinality(Rest) <= Len(l0) - fl
      <4>1. CASE fl >= 0
        <5>1. Rest \subseteq fl + 1..Len(l0)
          BY <2>1
        <5>2. IsFiniteSet(fl + 1..Len(l0)) /\ Cardinality(fl + 1..Len(l0)) = Len(l0) - fl
          <6>1. IsFiniteSet(fl + 1..Len(l0))
                /\ Cardinality(fl + 1..Len(l0)) = IF fl + 1 > Len(l0) THEN 0 ELSE Len(l0) - (fl + 1) + 1
            <7>1. fl + 1 \in Int /\ Len(l0) \in Int
              BY <2>1, <2>2
            <7> QED
              BY <7>1, FS_Interval
          <6> QED
            BY <2>1, <2>2, <2>10, <6>1
        <5>3. Cardinality(Rest) <= Len(l0) - fl
          BY ZenonT(40), <5>1, <5>2, FS_Subset
        <5> QED
          BY <5>3
      <4> QED
        BY <2>1, <4>1
    <3>5. Len(ls) = Len(l0) - Cardinality(All)
      BY <2>6
    <3>6. fl < 0 => Len(ls) \in Nat
      BY <2>6, StackLen
    <3> QED
      BY <2>1, <2>2, <2>7, <3>2, <3>3, <3>4, <3>5, <3>6
  <2> HIDE DEF All, UpTo, Rest
  <2>11. ListShape(q)
    <3>1. q.firingStart = 0 /\ q.firingIndex \in Int /\ q.firingLength \in Int
      BY <2>1, <2>5, <2>9, <2>10
    <3> QED
      BY <2>1, <2>5, <3>1 DEF ListShape, Fields
  <2>12. \A i \in 1..Len(ls) : Addable(ls[i], L) \/ OneOfFirst(l, i, ls[i])
    BY <2>2, <2>6 DEF OneOfFirst
  <2>13. q.list = ls /\ q.firing = fg /\ (fg => q.firingLength = fl - gl /\ q.firingIndex = fi - gi)
    BY <2>5
  <2> QED
    BY <2>2, <2>6, <2>9, <2>10, <2>11, <2>12, <2>13 DEF ListOK
<1> QED
  BY <1>1, <1>2

\* After the loop: another fire, from the start, or none.
LEMMA LoopOverOK ==
  ASSUME NEW L, NEW l, NEW o, ListOK(l, o, L), l \in SettlingList => SettlingOK(l, o), o.firing,
         NEW q, q = LoopOver(o)
  PROVE  /\ ListOK(l, q, L)
         /\ l \in SettlingList =>
              /\ SettlingOK(l, q) /\ q.fired = o.fired /\ q.memory = o.memory /\ ~q.firing
              /\ ~Enabled(o) => ~Enabled(q)
         /\ q.firing => q.firingIndex = 0
<1>1. PICK op, l0, st, me, fd, fg, fi, fl, to, em :
        /\ o = [options |-> op, list |-> l0, stack |-> st, memory |-> me, fired |-> fd, firing |-> fg,
                firingStart |-> 0, firingIndex |-> fi, firingLength |-> fl, told |-> to, emptied |-> em]
        /\ fd \in BOOLEAN /\ fg \in BOOLEAN /\ fi \in Int /\ fl \in Int
  BY ListFields DEF ListOK
<1>2. PICK p : p = [o EXCEPT !.firing = FALSE]
  OBVIOUS
<1>3. p = [options |-> op, list |-> l0, stack |-> st, memory |-> me, fired |-> fd, firing |-> FALSE,
           firingStart |-> 0, firingIndex |-> fi, firingLength |-> fl, told |-> to, emptied |-> em]
  BY <1>1, <1>2
<1>4. l \in SettlingList => o.fired /\ o.options = OnceMemory /\ o.stack = Nothing
  BY DEF SettlingOK
<1>5. ListOK(l, p, L) /\ ~p.firing /\ p.fired = o.fired /\ p.memory = o.memory /\ (Enabled(p) <=> Enabled(o))
  BY <1>1, <1>3 DEF ListOK, ListShape, Fields, Enabled
<1>6. l \in SettlingList => SettlingOK(l, p)
  BY <1>1, <1>3, <1>4 DEF SettlingOK
<1>7. CASE ~Enabled(o)
  <2>1. q = p
    BY <1>2, <1>7 DEF LoopOver
  <2> QED
    BY <1>5, <1>6, <1>7, <2>1
<1>8. CASE Enabled(o) /\ o.stack # Nothing /\ o.stack = <<>>
  <2>1. q = p
    BY <1>2, <1>8 DEF LoopOver
  <2> QED
    BY <1>5, <1>6, <1>8, <2>1
<1>9. CASE Enabled(o) /\ o.stack # Nothing /\ o.stack # <<>>
  <2>1. l \notin SettlingList
    BY <1>4, <1>9
  <2>2. PICK ta : ta = Tail(o.stack)
    OBVIOUS
  <2>3. PICK r : r = [p EXCEPT !.stack = ta]
    OBVIOUS
  <2>4. r = [options |-> op, list |-> l0, stack |-> ta, memory |-> me, fired |-> fd, firing |-> FALSE,
             firingStart |-> 0, firingIndex |-> fi, firingLength |-> fl, told |-> to, emptied |-> em]
    BY <1>3, <2>3
  <2>5. q = BeginFire(r, Head(o.stack))
    <3>1. [p EXCEPT !.stack = Tail(@)] = r
      BY <1>1, <1>3, <2>2, <2>3
    <3>2. q = BeginFire([p EXCEPT !.stack = Tail(@)], Head(o.stack))
      BY <1>2, <1>9 DEF LoopOver
    <3> QED
      BY <3>1, <3>2
  <2>6. /\ r.options = op /\ r.list = l0 /\ r.stack = ta /\ r.firingStart = 0 /\ Fields(r)
        /\ Stack(l0) /\ Len(l0) \in Nat
        /\ \A i \in 1..Len(l0) : Addable(l0[i], L) \/ OneOfFirst(l, i, l0[i])
    <3>1. Enabled(o) /\ o.list = l0
      BY <1>1, <1>9
    <3>2. Stack(l0) /\ \A i \in 1..Len(l0) : Addable(l0[i], L) \/ OneOfFirst(l, i, l0[i])
      BY <3>1 DEF ListOK
    <3> QED
      BY <2>4, <3>2, StackLen DEF Fields
  <2>7. PICK m : m = IF op.memory THEN Head(o.stack) ELSE Nothing
    OBVIOUS
  <2>8. q = [options |-> op, list |-> l0, stack |-> ta, memory |-> m, fired |-> TRUE, firing |-> TRUE,
             firingStart |-> 0, firingIndex |-> 0, firingLength |-> Len(l0), told |-> q.told, emptied |-> FALSE]
    BY <2>5, <2>6, <2>7, Begun
  <2>9. /\ q.list = l0 /\ q.firing = TRUE /\ q.fired = TRUE /\ q.firingStart = 0 /\ q.firingIndex = 0
        /\ q.firingLength = Len(l0)
    BY <2>8
  <2>10. ListShape(q)
    <3>1. q = [options |-> q.options, list |-> q.list, stack |-> q.stack, memory |-> q.memory,
               fired |-> q.fired, firing |-> q.firing, firingStart |-> q.firingStart,
               firingIndex |-> q.firingIndex, firingLength |-> q.firingLength,
               told |-> q.told, emptied |-> q.emptied]
      BY <2>8
    <3>2. q.fired \in BOOLEAN /\ q.firing \in BOOLEAN
      BY <2>9
    <3>3. q.firingStart = 0 /\ q.firingIndex \in Int /\ q.firingLength \in Int
      BY <2>6, <2>9
    <3> QED
      BY <3>1, <3>2, <3>3 DEF ListShape, Fields
  <2>11. ListOK(l, q, L)
    BY <2>6, <2>9, <2>10 DEF ListOK
  <2> QED
    BY <2>1, <2>9, <2>11
<1>10. CASE Enabled(o) /\ o.stack = Nothing /\ o.memory # Nothing
  <2>1. q = [p EXCEPT !.list = <<>>]
    BY <1>2, <1>10 DEF LoopOver
  <2>2. q = [options |-> op, list |-> <<>>, stack |-> st, memory |-> me, fired |-> fd, firing |-> FALSE,
             firingStart |-> 0, firingIndex |-> fi, firingLength |-> fl, told |-> to, emptied |-> em]
    BY <1>3, <2>1
  <2>3. ListShape(q) /\ ~q.firing /\ q.list = <<>>
    <3>1. q = [options |-> q.options, list |-> q.list, stack |-> q.stack, memory |-> q.memory,
               fired |-> q.fired, firing |-> q.firing, firingStart |-> q.firingStart,
               firingIndex |-> q.firingIndex, firingLength |-> q.firingLength,
               told |-> q.told, emptied |-> q.emptied]
      BY <2>2
    <3>2. q.fired \in BOOLEAN /\ q.firing \in BOOLEAN
      <4>1. q.fired = fd /\ q.firing = FALSE
        BY <2>2
      <4>2. fd \in BOOLEAN
        BY <1>1
      <4> QED
        BY <4>1, <4>2
    <3>3. q.firingStart = 0 /\ q.firingIndex \in Int /\ q.firingLength \in Int
      BY <1>1, <2>2
    <3>4. ~q.firing /\ q.list = <<>>
      BY <2>2
    <3> QED
      BY <3>1, <3>2, <3>3, <3>4 DEF ListShape, Fields
  <2>4. Stack(q.list) /\ \A i \in 1..Len(q.list) : FALSE
    BY <2>3, StackEmpty
  <2>5. ListOK(l, q, L)
    BY <2>3, <2>4 DEF ListOK
  <2>6. q.fired = o.fired /\ q.memory = o.memory /\ q.options = o.options /\ q.stack = o.stack
    BY <1>1, <2>2
  <2>7. l \in SettlingList => SettlingOK(l, q)
    BY <1>4, <2>6 DEF SettlingOK
  <2> QED
    BY <1>10, <2>3, <2>5, <2>6, <2>7
<1>11. CASE Enabled(o) /\ o.stack = Nothing /\ o.memory = Nothing
  <2>1. q = Disabled(p)
    BY <1>2, <1>11 DEF LoopOver
  <2>2. /\ ListOK(l, q, L) /\ (l \in SettlingList => SettlingOK(l, q))
        /\ q.firing = p.firing /\ q.fired = p.fired /\ q.memory = Nothing /\ ~Enabled(q)
    BY <1>5, <1>6, <2>1, DisabledOK
  <2> QED
    BY <1>5, <1>11, <2>2
<1> QED
  BY <1>7, <1>8, <1>9, <1>10, <1>11

-----------------------------------------------------------------------------
(***************************************************************************)
(* The steps of a loop.                                                    *)
(***************************************************************************)

LEMMA KeepsSame == ASSUME UNCHANGED cb PROVE Keeps(cb') /\ (ListsOK(cb) => ListsOK(cb'))
BY DEF Keeps

\* No list is about to be disabled: the settled ones stay so.
LEMMA SettledStays ==
  ASSUME Settled(cb, run), NothingEarly, PageOK, NEW c, NEW s, DOMAIN c = DOMAIN cb,
         \A m \in DOMAIN cb : m \in SettlingList =>
           c[m].fired = cb[m].fired /\ (~Enabled(cb[m]) => ~Enabled(c[m]))
  PROVE  Settled(c, s)
<1> SUFFICES ASSUME NEW m \in SettlingList, m \in DOMAIN cb, c[m].fired
             PROVE  ~c[Partner(m)].fired /\ (~Enabled(c[Partner(m)]) \/ Early(c, s, m))
  BY DEF Settled
<1>1. cb[m].fired /\ Partner(m) \in DOMAIN cb /\ Partner(m) \in SettlingList
  BY PartnersMade
<1>2. ~cb[Partner(m)].fired /\ ~Enabled(cb[Partner(m)])
  BY <1>1 DEF Settled, NothingEarly
<1> QED
  BY <1>1, <1>2

\* A callback throws, or what is called is undefined.
LEMMA ThrowStep ==
  ASSUME Inv, PageOK', NothingEarly, UNCHANGED cb, run' = <<>>, threw' = TRUE
  PROVE  Inv' /\ Silent
<1>1. Stack(run') /\ Len(run') = 0
  BY StackEmpty
<1>2. \A i \in 1..Len(run') : FALSE
  BY <1>1
<1>3. StackOK(cb', run', threw')
  <2>1. Frames(run', DOMAIN cb') /\ OneLoop(run') /\ ToldRight(run', cb')
    BY <1>1, <1>2 DEF Frames, OneLoop, ToldRight
  <2>2. Paused(run', Len(run') - 1)
    BY <1>1 DEF Paused
  <2> QED
    BY <1>2, <2>1, <2>2 DEF StackOK
<1>4. Settled(cb', run')
  BY SettledStays DEF Inv
<1>5. ListsOK(cb')
  BY DEF Inv
<1>6. Silent
  <2>1. FromRun(run') /\ Stack(run)
    BY <1>2 DEF FromRun, Inv, StackOK, Frames
  <2>2. TellingOf' \subseteq TellingOf
    BY <1>1, <2>1, TellsNobodyNew
  <2> QED
    BY <2>2, KeepsSame, SameOutcome DEF Silent, Inv
<1> QED
  BY <1>3, <1>4, <1>5, <1>6 DEF Inv

LEMMA ThrowOK ==
  ASSUME Inv, PageOK', Throw
  PROVE  Inv' /\ Silent
<1>1. NothingEarly
  BY OutsideLoops DEF Throw
<1> QED
  BY <1>1, ThrowStep DEF Throw

LEMMA ReturnOK ==
  ASSUME Inv, PageOK', Return
  PROVE  Inv' /\ Silent
<1>1. NothingEarly
  BY OutsideLoops DEF Return
<1>2. Rests(Below, DOMAIN cb) /\ FromRun(Below)
  BY RestsBelow DEF Return, Inv
<1>3. run' = Below /\ cb' = cb /\ threw' = threw
  BY DEF Return
<1>4. Rests(run', DOMAIN cb') /\ FromRun(run')
  BY <1>2, <1>3
<1>5. Keeps(cb') /\ ListsOK(cb')
  BY <1>3, KeepsSame DEF Inv
<1> QED
  BY <1>1, <1>3, <1>4, <1>5, CalmStep DEF NothingEarly

LEMMA NextInLoopOK ==
  ASSUME Inv, PageOK', NextInLoop
  PROVE  Inv' /\ Silent
<1>1. TopIs("fire") /\ Top.pc = "calling" /\ threw' = threw
  BY DEF NextInLoop
<1>2. PICK s : s = Goto("next") /\ run' = s
  BY DEF NextInLoop
<1>3. /\ Rests(Goto("calling"), DOMAIN cb) /\ FromRun(Goto("calling"))
      /\ Len(run) \in Nat \ {0} /\ IsFire(Top, DOMAIN cb)
      /\ Stack(s) /\ Len(s) = Len(run)
      /\ s[Len(run)] = [f |-> "fire", l |-> Top.l, v |-> Top.v, pc |-> "next"]
      /\ \A i \in 1..Len(run) - 1 : s[i] = run[i]
  BY <1>1, <1>2, RestsCalling DEF Inv
<1>4. PICK l, o : l = Top.l /\ o = cb[l]
  OBVIOUS
<1>5. l \in DOMAIN cb /\ o.firing
  <2>1. Len(run) \in 1..Len(run)
    BY <1>3
  <2> QED
    BY <1>3, <1>4, <2>1 DEF IsFire, Inv, StackOK, Top
<1>6. ListOK(l, o, DOMAIN cb) /\ (l \in SettlingList => SettlingOK(l, o))
  BY <1>4, <1>5 DEF Inv, ListsOK
<1>7. PICK op, l0, st, me, fd, fg, fi, fl, to, em :
        /\ o = [options |-> op, list |-> l0, stack |-> st, memory |-> me, fired |-> fd, firing |-> fg,
                firingStart |-> 0, firingIndex |-> fi, firingLength |-> fl, told |-> to, emptied |-> em]
        /\ fd \in BOOLEAN /\ fg \in BOOLEAN /\ fi \in Int /\ fl \in Int
  BY <1>6, ListFields DEF ListOK
<1>8. PICK q : q = [o EXCEPT !.firingIndex = fi + 1]
  OBVIOUS
<1>9. q = [options |-> op, list |-> l0, stack |-> st, memory |-> me, fired |-> fd, firing |-> fg,
           firingStart |-> 0, firingIndex |-> fi + 1, firingLength |-> fl, told |-> to, emptied |-> em]
  BY <1>7, <1>8
<1>10. /\ q.list = o.list /\ q.fired = o.fired /\ q.firing = o.firing /\ q.memory = o.memory
       /\ q.firingLength = o.firingLength /\ q.firingIndex = o.firingIndex + 1
       /\ (Enabled(q) <=> Enabled(o))
  BY <1>7, <1>9 DEF Enabled
<1>11. -1 <= fi
  BY <1>5, <1>6, <1>7 DEF ListOK
<1>12. ListOK(l, q, DOMAIN cb) /\ q.firingIndex >= 0
  BY <1>6, <1>7, <1>9, <1>11 DEF ListOK, ListShape, Fields, Enabled
<1>13. l \in SettlingList => SettlingOK(l, q)
  BY <1>6, <1>7, <1>9 DEF SettlingOK, Enabled
<1>14. cb' = [cb EXCEPT ![l] = q]
  <2>1. cb' = [cb EXCEPT ![l].firingIndex = @ + 1]
    BY <1>4 DEF NextInLoop
  <2>2. cb' = [cb EXCEPT ![l] = [cb[l] EXCEPT !.firingIndex = cb[l].firingIndex + 1]]
    BY <2>1
  <2>3. cb[l].firingIndex = fi
    BY <1>4, <1>7
  <2> QED
    BY <1>4, <1>8, <2>2, <2>3
<1>15. /\ ListsOK(cb') /\ DOMAIN cb' = DOMAIN cb /\ cb'[l] = q
       /\ \A m \in DOMAIN cb : m # l => cb'[m] = cb[m]
  BY <1>5, <1>12, <1>13, <1>14, ChangeList DEF Inv
<1>16. Keeps(cb')
  BY <1>4, <1>10, <1>15 DEF Keeps
<1>17. \A i \in 1..Len(s) : s[i].f = run[i].f /\ (s[i].f = "fire" => s[i].l = run[i].l /\ s[i].v = run[i].v)
  <2>1. \A i \in 1..Len(s) : i = Len(run) \/ i \in 1..Len(run) - 1
    BY <1>3
  <2>2. run[Len(run)].f = "fire" /\ run[Len(run)] = [f |-> "fire", l |-> Top.l, v |-> Top.v, pc |-> "calling"]
    BY <1>1, <1>3 DEF IsFire, Top
  <2> QED
    BY <1>3, <2>1, <2>2
<1>18. \A i \in 1..Len(s) : i = Len(run) \/ (i \in 1..Len(run) - 1 /\ s[i] = run[i])
  BY <1>3
<1>19. StackOK(cb', run', threw')
  <2>1. Frames(s, DOMAIN cb')
    <3>1. IsFire(s[Len(run)], DOMAIN cb')
      BY <1>3, <1>15 DEF IsFire
    <3>2. \A i \in 1..Len(run) - 1 : IsFire(run[i], DOMAIN cb) \/ IsFn(run[i], DOMAIN cb) \/ IsTodo(run[i], DOMAIN cb)
      BY <1>3 DEF Inv, StackOK, Frames
    <3> QED
      BY <1>3, <1>15, <1>18, <3>1, <3>2 DEF Frames
  <2>2. Paused(s, Len(s) - 1)
    BY <1>3 DEF Paused, Inv, StackOK
  <2>3. OneLoop(s)
    BY <1>3, <1>17 DEF OneLoop, LoopAt, Inv, StackOK
  <2>4. ToldRight(s, cb')
    <3>1. ToldRight(run, cb)
      BY DEF Inv, StackOK
    <3>2. \A i \in 1..Len(s) : s[i].f = "fn" => s[i] = run[i]
      BY <1>3, <1>18
    <3>3. ToldRight(s, cb)
      BY <1>3, <1>17, <3>1, <3>2 DEF ToldRight
    <3> QED
      BY <1>16, <3>3, KeptList DEF ToldRight
  <2>5. \A i \in 1..Len(s) : s[i].f = "fire" =>
          cb'[s[i].l].firing /\ (s[i].pc = "next" => cb'[s[i].l].firingIndex >= 0)
    <3> SUFFICES ASSUME NEW i \in 1..Len(s), s[i].f = "fire"
                 PROVE  cb'[s[i].l].firing /\ (s[i].pc = "next" => cb'[s[i].l].firingIndex >= 0)
      OBVIOUS
    <3>1. CASE i = Len(run)
      <4>1. s[i].l = l
        BY <1>3, <1>4, <3>1
      <4>2. q.firing /\ q.firingIndex >= 0
        BY <1>5, <1>10, <1>12
      <4> QED
        BY <1>15, <4>1, <4>2
    <3>2. CASE i \in 1..Len(run) - 1 /\ s[i] = run[i]
      <4>1. run[i].pc = "calling"
        BY <3>2 DEF Inv, StackOK, Paused
      <4>2. cb[run[i].l].firing /\ run[i].l \in DOMAIN cb
        BY <1>3, <3>2 DEF Inv, StackOK, Frames, IsFire, IsFn, IsTodo
      <4> QED
        BY <1>16, <3>2, <4>1, <4>2, KeptList
    <3> QED
      BY <1>18, <3>1, <3>2
  <2>6. ~threw => \A m \in DOMAIN cb' : cb'[m].firing => Looping(s, m)
    <3> SUFFICES ASSUME ~threw, NEW m \in DOMAIN cb', cb'[m].firing PROVE Looping(s, m)
      OBVIOUS
    <3>1. m \in DOMAIN cb /\ cb[m].firing
      BY <1>16, <1>15, KeptList
    <3>2. Looping(run, m)
      BY <3>1 DEF Inv, StackOK
    <3> QED
      BY <1>3, <1>17, <3>2 DEF Looping, LoopAt
  <2> QED
    BY <1>1, <1>2, <2>1, <2>2, <2>3, <2>4, <2>5, <2>6 DEF StackOK
<1>20. Settled(cb', run')
  <2>1. ASSUME NEW m \in SettlingList, Early(cb, run, m)
        PROVE  Early(cb', run', m)
    <3>1. m = l /\ o.firingIndex = 0 /\ Enabled(o) /\ HasFirstThree(l, o.list) /\ o.firingLength >= 3
      BY <1>1, <1>4, <2>1 DEF Early, LoopAt, Top
    <3>2. s # <<>>
      BY <1>3, StackLen
    <3>3. LoopAt(s, Len(s), l) /\ s[Len(s)].pc = "next"
      BY <1>3, <1>4 DEF LoopAt
    <3> QED
      BY <1>2, <1>10, <1>15, <3>1, <3>2, <3>3 DEF Early
  <2> QED
    BY <1>16, <2>1, CalmSettled DEF Inv
<1>21. Silent
  <2>1. FromRun(run')
    <3>1. \A i \in 1..Len(s) : s[i].f = "fn" => s[i] = run[i]
      BY <1>3, <1>18
    <3> QED
      BY <1>2, <1>3, <3>1 DEF FromRun
  <2>2. TellingOf' \subseteq TellingOf
    BY <1>2, <1>3, <2>1, TellsNobodyNew DEF Inv, StackOK, Frames
  <2> QED
    BY <1>16, <2>2, SameOutcome DEF Silent, Inv
<1> QED
  BY <1>15, <1>19, <1>20, <1>21 DEF Inv

LEMMA EndLoopOK ==
  ASSUME Inv, PageOK', EndLoop
  PROVE  Inv' /\ Silent
<1>1. TopIs("fire") /\ threw' = threw /\ (Top.pc = "stop" \/ (Top.pc = "next" /\ ~InLoop(cb[Top.l])))
  BY DEF EndLoop
<1>2. /\ Len(run) \in Nat \ {0} /\ IsFire(Top, DOMAIN cb)
  BY <1>1, RestsCalling DEF Inv
<1>3. PICK l, o, s : l = Top.l /\ o = cb[l] /\ s = Below
  OBVIOUS
<1>4. /\ Stack(s) /\ Len(s) = Len(run) - 1
      /\ \A i \in 1..Len(s) : s[i] = run[i] /\ i \in 1..Len(run) /\ i \in 1..Len(run) - 1
  <2>1. /\ Stack(Front(run)) /\ Len(Front(run)) = Len(run) - 1
        /\ \A i \in 1..Len(run) - 1 : Front(run)[i] = run[i]
    <3>1. Stack(run) /\ run # <<>>
      BY <1>1 DEF Inv, StackOK, Frames, TopIs
    <3> QED
      BY <3>1, StackPop
  <2> QED
    BY <1>2, <1>3, <2>1 DEF Below
<1>5. PICK n : n = Len(run) /\ n \in 1..Len(run) /\ Top = run[n]
  BY <1>2 DEF Top
<1>6. l \in DOMAIN cb /\ o.firing /\ LoopAt(run, n, l)
  BY <1>2, <1>3, <1>5 DEF IsFire, Inv, StackOK, LoopAt
<1>7. ListOK(l, o, DOMAIN cb) /\ (l \in SettlingList => SettlingOK(l, o))
  BY <1>3, <1>6 DEF Inv, ListsOK
<1>8. PICK q : q = LoopOver(o)
  OBVIOUS
<1>9. /\ ListOK(l, q, DOMAIN cb)
      /\ l \in SettlingList =>
           /\ SettlingOK(l, q) /\ q.fired = o.fired /\ q.memory = o.memory /\ ~q.firing
           /\ ~Enabled(o) => ~Enabled(q)
      /\ q.firing => q.firingIndex = 0
  BY <1>6, <1>7, <1>8, LoopOverOK
<1>10. cb' = [cb EXCEPT ![l] = q]
  BY <1>3, <1>8 DEF EndLoop
<1>11. /\ ListsOK(cb') /\ DOMAIN cb' = DOMAIN cb /\ cb'[l] = q
       /\ \A m \in DOMAIN cb : m # l => cb'[m] = cb[m]
  BY <1>6, <1>9, <1>10, ChangeList DEF Inv
<1>12. \A i \in 1..Len(s) : s[i].f = "fire" => s[i].l # l
  <2>1. \A i, j \in 1..Len(run) : run[i].f = "fire" /\ LoopAt(run, j, run[i].l) => i = j
    BY DEF Inv, StackOK, OneLoop
  <2> SUFFICES ASSUME NEW i \in 1..Len(s), s[i].f = "fire", s[i].l = l PROVE FALSE
    OBVIOUS
  <2>2. run[i].f = "fire" /\ LoopAt(run, n, run[i].l)
    BY <1>4, <1>6
  <2>3. i = n
    BY <1>4, <1>5, <2>1, <2>2
  <2> QED
    BY <1>2, <1>4, <1>5, <2>3
<1>13. ASSUME NEW m, m # l, Looping(run, m)
       PROVE  Looping(s, m)
  <2>1. PICK i \in 1..Len(run) : run[i].f = "fire" /\ run[i].l = m
    BY <1>13 DEF Looping, LoopAt
  <2>2. i # n
    BY <1>3, <1>5, <1>13, <2>1
  <2>3. i \in 1..Len(s)
    BY <1>2, <1>4, <1>5, <2>2
  <2> QED
    BY <1>4, <2>1, <2>3 DEF Looping, LoopAt
<1>14. Frames(s, DOMAIN cb)
  BY <1>4 DEF Inv, StackOK, Frames
<1>15. \A i \in 1..Len(s) : s[i].f = "fire" => s[i].pc = "calling"
  BY <1>4 DEF Inv, StackOK, Paused
<1>16. OneLoop(s)
  BY <1>4 DEF Inv, StackOK, OneLoop, LoopAt
<1>17. ToldRight(s, cb)
  BY <1>4 DEF Inv, StackOK, ToldRight
<1>18. ToldRight(s, cb')
  <2> SUFFICES ASSUME NEW i \in 1..Len(s), s[i].f \in {"fire", "fn"}, s[i].l \in SettlingList
               PROVE  s[i].l \in DOMAIN cb' /\ cb'[s[i].l].fired /\ s[i].v = cb'[s[i].l].memory
    BY DEF ToldRight
  <2>1. s[i].l \in DOMAIN cb /\ cb[s[i].l].fired /\ s[i].v = cb[s[i].l].memory
    BY <1>17 DEF ToldRight
  <2> QED
    BY <1>3, <1>9, <1>11, <2>1
<1>19. \A i \in 1..Len(s) : s[i].f = "fire" => cb'[s[i].l].firing
  <2> SUFFICES ASSUME NEW i \in 1..Len(s), s[i].f = "fire" PROVE cb'[s[i].l].firing
    OBVIOUS
  <2>1. s[i].l # l
    BY <1>12
  <2>2. s[i].l \in DOMAIN cb /\ cb[s[i].l].firing
    BY <1>4, <1>14 DEF Frames, IsFire, IsFn, IsTodo, Inv, StackOK
  <2> QED
    BY <1>11, <2>1, <2>2
<1>20. NothingEarly
  <2> SUFFICES ASSUME NEW m \in SettlingList, Early(cb, run, m) PROVE FALSE
    BY DEF NothingEarly
  <2>1. m = l /\ Top.pc = "next" /\ o.firingIndex \in {0, 1} /\ Enabled(o) /\ o.firingLength >= 3
    BY <1>1, <1>3 DEF Early, LoopAt, Top
  <2>2. o.firingLength \in Int
    BY <1>7 DEF ListOK, ListShape
  <2> QED
    BY <1>1, <1>3, <2>1, <2>2 DEF InLoop
<1>21. Settled(cb', run')
  BY <1>3, <1>9, <1>11, <1>20, SettledStays DEF Inv
<1>22. ASSUME NEW d \in DefId PROVE OutcomeOf(d)' = OutcomeOf(d)
  BY <1>3, <1>9, <1>11, OutcomeByLists DEF Inv
<1>23. CASE ~q.firing
  <2>1. run' = s
    BY <1>3, <1>8, <1>23 DEF EndLoop
  <2>2. Paused(run', Len(run') - 1)
    BY <1>2, <1>4, <1>15, <2>1 DEF Paused
  <2>3. ASSUME ~threw, NEW m \in DOMAIN cb', cb'[m].firing PROVE Looping(s, m)
    BY <1>11, <1>13, <1>23, <2>3 DEF Inv, StackOK
  <2>4. StackOK(cb', run', threw')
    BY <1>1, <1>11, <1>14, <1>15, <1>16, <1>18, <1>19, <2>1, <2>2, <2>3 DEF StackOK
  <2>5. FromRun(run')
    BY <1>4, <2>1 DEF FromRun
  <2>6. TellingOf' \subseteq TellingOf
    BY <1>4, <2>1, <2>5, TellsNobodyNew DEF Inv, StackOK, Frames
  <2> QED
    BY <1>11, <1>21, <1>22, <2>4, <2>6 DEF Inv, Silent
<1>24. CASE q.firing
  <2>1. PICK x : x = FireFrame(l, Head(o.stack))
    OBVIOUS
  <2>2. x.f = "fire" /\ x.l = l /\ x.pc = "next" /\ IsFire(x, DOMAIN cb')
    BY <1>6, <1>11, <2>1 DEF FireFrame, IsFire
  <2>3. PICK r : r = Append(s, x) /\ run' = r
    BY <1>3, <1>8, <1>24, <2>1 DEF EndLoop
  <2>4. /\ Stack(r) /\ Len(r) = Len(run)
        /\ \A i \in 1..Len(s) : r[i] = s[i]
        /\ r[n] = x
    <3>1. /\ Stack(r) /\ Len(r) = Len(s) + 1
          /\ \A i \in 1..Len(s) : r[i] = s[i]
          /\ r[Len(s) + 1] = x
      BY <1>4, <2>3, StackPush
    <3>2. Len(s) + 1 = n
      BY <1>2, <1>4, <1>5
    <3> QED
      BY <1>5, <3>1, <3>2
  <2>5. \A i \in 1..Len(r) : i = n \/ (i \in 1..Len(s) /\ r[i] = s[i])
    BY <1>2, <1>4, <1>5, <2>4
  <2>6. \A i \in 1..Len(s) : i \in 1..Len(r) /\ i # n
    BY <1>2, <1>4, <1>5, <2>4
  <2>7. l \notin SettlingList
    BY <1>9, <1>24
  <2>8. Frames(r, DOMAIN cb')
    BY <1>11, <1>14, <2>2, <2>4, <2>5 DEF Frames
  <2>9. Paused(r, Len(r) - 1)
    <3>1. \A i \in 1..Len(r) - 1 : i \in 1..Len(s) /\ r[i] = s[i]
      BY <1>4, <2>4
    <3> QED
      BY <1>15, <3>1 DEF Paused
  <2>10. OneLoop(r)
    <3> SUFFICES ASSUME NEW i \in 1..Len(r), NEW j \in 1..Len(r), r[i].f = "fire", r[j].f = "fire", r[j].l = r[i].l
                 PROVE  i = j
      BY DEF OneLoop, LoopAt
    <3>1. CASE i \in 1..Len(s) /\ j \in 1..Len(s)
      BY <1>16, <2>4, <3>1 DEF OneLoop, LoopAt
    <3>2. CASE i = n \/ j = n
      BY <1>12, <2>2, <2>4, <2>5, <3>2
    <3> QED
      BY <2>5, <3>1, <3>2
  <2>11. ToldRight(r, cb')
    <3> SUFFICES ASSUME NEW i \in 1..Len(r), r[i].f \in {"fire", "fn"}, r[i].l \in SettlingList
                 PROVE  i \in 1..Len(s) /\ r[i] = s[i]
      BY <1>18 DEF ToldRight
    <3> QED
      BY <2>2, <2>4, <2>5, <2>7
  <2>12. ASSUME NEW i \in 1..Len(r), r[i].f = "fire"
         PROVE  cb'[r[i].l].firing /\ (r[i].pc = "next" => cb'[r[i].l].firingIndex >= 0)
    <3>1. CASE i = n
      BY <1>9, <1>11, <1>24, <2>2, <2>4, <3>1
    <3>2. CASE i \in 1..Len(s) /\ r[i] = s[i]
      BY <1>15, <1>19, <2>12, <3>2
    <3> QED
      BY <2>5, <3>1, <3>2
  <2>13. ASSUME ~threw, NEW m \in DOMAIN cb', cb'[m].firing PROVE Looping(r, m)
    <3>1. CASE m = l
      BY <1>5, <2>2, <2>4, <3>1 DEF Looping, LoopAt
    <3>2. CASE m # l
      <4>1. Looping(run, m)
        BY <1>11, <2>13, <3>2 DEF Inv, StackOK
      <4>2. Looping(s, m)
        BY <1>13, <3>2, <4>1
      <4> QED
        BY <2>4, <2>6, <4>2 DEF Looping, LoopAt
    <3> QED
      BY <3>1, <3>2
  <2>14. StackOK(cb', run', threw')
    BY <1>1, <2>3, <2>8, <2>9, <2>10, <2>11, <2>12, <2>13 DEF StackOK
  <2>15. FromRun(run')
    <3> SUFFICES ASSUME NEW i \in 1..Len(r), r[i].f = "fn"
                 PROVE  \E j \in 1..Len(run) : run[j] = r[i]
      BY <2>3 DEF FromRun
    <3>1. i \in 1..Len(s) /\ r[i] = s[i]
      BY <2>2, <2>4, <2>5
    <3> QED
      BY <1>4, <3>1
  <2>16. TellingOf' \subseteq TellingOf
    BY <2>3, <2>4, <2>15, TellsNobodyNew DEF Inv, StackOK, Frames
  <2> QED
    BY <1>11, <1>21, <1>22, <2>14, <2>16 DEF Inv, Silent
<1> QED
  BY <1>23, <1>24

\* The loop below is stopped, or there is none.
LEMMA ReturnFalseOK ==
  ASSUME Inv, PageOK', ReturnFalse
  PROVE  Inv' /\ Silent
<1>1. /\ TopIs("fn") /\ Top.l \in ListId /\ threw' = threw
      /\ cb[Top.l].options.stopOnFalse
      /\ cb' = [cb EXCEPT ![Top.l].memory = Nothing]
      /\ run' = [Below EXCEPT ![Len(Below)].pc = "stop"]
  BY DEF ReturnFalse
<1>2. NothingEarly
  BY <1>1, OutsideLoops
<1>3. PICK b : b = Below
  OBVIOUS
<1>4. /\ Rests(b, DOMAIN cb) /\ FromRun(b)
      /\ Len(run) \in Nat \ {0} /\ Stack(b) /\ Len(b) = Len(run) - 1
  BY <1>1, <1>3, RestsBelow DEF Inv
<1>5. PICK l, o : l = Top.l /\ o = cb[l]
  OBVIOUS
<1>6. l \in DOMAIN cb
  <2>1. PICK n \in 1..Len(run) : Top = run[n]
    BY <1>4 DEF Top
  <2>2. IsFire(Top, DOMAIN cb) \/ IsFn(Top, DOMAIN cb) \/ IsTodo(Top, DOMAIN cb)
    BY <2>1 DEF Inv, StackOK, Frames
  <2>3. IsFn(Top, DOMAIN cb)
    BY <1>1, <2>2 DEF IsFire, IsTodo, TopIs
  <2> QED
    BY <1>1, <1>5, <2>3, NothingIsNoList DEF IsFn
<1>7. ListOK(l, o, DOMAIN cb) /\ (l \in SettlingList => SettlingOK(l, o))
  BY <1>5, <1>6 DEF Inv, ListsOK
<1>8. l \notin SettlingList
  <2>1. ~OnceMemory.stopOnFalse
    BY DEF OnceMemory
  <2> QED
    BY <1>1, <1>5, <1>7, <2>1 DEF SettlingOK
<1>9. PICK op, l0, st, me, fd, fg, fi, fl, to, em :
        /\ o = [options |-> op, list |-> l0, stack |-> st, memory |-> me, fired |-> fd, firing |-> fg,
                firingStart |-> 0, firingIndex |-> fi, firingLength |-> fl, told |-> to, emptied |-> em]
        /\ fd \in BOOLEAN /\ fg \in BOOLEAN /\ fi \in Int /\ fl \in Int
  BY <1>7, ListFields DEF ListOK
<1>10. PICK q : q = [o EXCEPT !.memory = Nothing]
  OBVIOUS
<1>11. q = [options |-> op, list |-> l0, stack |-> st, memory |-> Nothing, fired |-> fd, firing |-> fg,
            firingStart |-> 0, firingIndex |-> fi, firingLength |-> fl, told |-> to, emptied |-> em]
  BY <1>9, <1>10
<1>12. ListOK(l, q, DOMAIN cb) /\ q.firing = o.firing
  BY <1>7, <1>9, <1>11 DEF ListOK, ListShape, Fields, Enabled
<1>13. cb' = [cb EXCEPT ![l] = q]
  BY <1>1, <1>5, <1>10
<1>14. /\ ListsOK(cb') /\ DOMAIN cb' = DOMAIN cb /\ cb'[l] = q
       /\ \A m \in DOMAIN cb : m # l => cb'[m] = cb[m]
  BY <1>6, <1>8, <1>12, <1>13, ChangeList DEF Inv
<1>15. Keeps(cb')
  BY <1>5, <1>8, <1>12, <1>14 DEF Keeps
<1>16. PICK s : s = [b EXCEPT ![Len(b)] = [b[Len(b)] EXCEPT !.pc = "stop"]] /\ run' = s
  BY <1>1, <1>3
<1>17. /\ Stack(s) /\ Len(s) = Len(b)
       /\ \A i \in 1..Len(b) : i # Len(b) => s[i] = b[i]
       /\ Len(b) \in 1..Len(b) => s[Len(b)] = [b[Len(b)] EXCEPT !.pc = "stop"]
  <2>1. PICK x, n : x = [b[Len(b)] EXCEPT !.pc = "stop"] /\ n = Len(b)
    OBVIOUS
  <2>2. s = [b EXCEPT ![n] = x]
    BY <1>16, <2>1
  <2>3. Stack(s)
    BY <1>4, <2>2, StackExcept
  <2>6. Len(s) = Len(b)
    BY <1>4, <2>2, StackExcept
  <2>4. \A i \in 1..Len(b) : i # n => s[i] = b[i]
    BY <1>4, <2>2, StackExcept
  <2>5. n \in 1..Len(b) => s[n] = x
    BY <1>4, <2>2, StackExcept
  <2> QED
    BY <2>1, <2>3, <2>4, <2>5, <2>6
\* Frames but those of loops have no pc.
<1>18. ASSUME NEW i \in 1..Len(s)
       PROVE  /\ s[i].f = b[i].f
              /\ s[i].f = "fire" => s[i].l = b[i].l /\ s[i].v = b[i].v /\ s[i].pc # "next" /\ IsFire(s[i], DOMAIN cb)
              /\ s[i].f # "fire" => s[i] = b[i]
              /\ i # Len(s) => s[i] = b[i]
  <2>1. IsFire(b[i], DOMAIN cb) \/ IsFn(b[i], DOMAIN cb) \/ IsTodo(b[i], DOMAIN cb)
    BY <1>4, <1>17 DEF Rests, Frames, IsFire, IsFn, IsTodo
  <2>2. b[i].f = "fire" => b[i].pc = "calling"
    BY <1>4, <1>17 DEF Rests, Paused
  <2>3. CASE i # Len(b)
    BY <1>17, <2>1, <2>2, <2>3 DEF IsFire, IsFn, IsTodo
  <2>4. CASE i = Len(b)
    <3>1. s[i] = [b[i] EXCEPT !.pc = "stop"]
      BY <1>17, <2>4
    <3>2. CASE IsFire(b[i], DOMAIN cb)
      <4>1. PICK x, y, z : b[i] = [f |-> "fire", l |-> x, v |-> y, pc |-> z] /\ x \in DOMAIN cb
        BY <3>2 DEF IsFire
      <4>2. s[i] = [f |-> "fire", l |-> x, v |-> y, pc |-> "stop"]
        BY <3>1, <4>1
      <4>3. IsFire(s[i], DOMAIN cb)
        BY <4>1, <4>2 DEF IsFire
      <4> QED
        BY <1>17, <2>4, <4>1, <4>2, <4>3
    <3>3. CASE IsFn(b[i], DOMAIN cb)
      <4>1. PICK w, x, y, z : b[i] = [f |-> "fn", fn |-> w, l |-> x, v |-> y, to |-> z]
        BY <3>3 DEF IsFn
      <4>2. s[i] = b[i] /\ b[i].f = "fn"
        BY <3>1, <4>1
      <4> QED
        BY <4>2
    <3>4. CASE IsTodo(b[i], DOMAIN cb)
      <4>1. PICK x : b[i] = [f |-> "todo", todo |-> x]
        BY <3>4 DEF IsTodo
      <4>2. s[i] = b[i] /\ b[i].f = "todo"
        BY <3>1, <4>1
      <4> QED
        BY <4>2
    <3> QED
      BY <2>1, <3>2, <3>3, <3>4
  <2> QED
    BY <2>3, <2>4
<1>19. Holds(s, DOMAIN cb')
  <2>1. Frames(s, DOMAIN cb')
    BY <1>4, <1>14, <1>17, <1>18 DEF Rests, Frames
  <2>2. Paused(s, Len(s) - 1)
    <3>1. \A i \in 1..Len(s) - 1 : i \in 1..Len(s) /\ i \in 1..Len(b) /\ i # Len(s)
      BY <1>4, <1>17
    <3> QED
      BY <1>4, <1>18, <3>1 DEF Rests, Paused
  <2>3. OneLoop(s)
    BY <1>4, <1>17, <1>18 DEF Rests, OneLoop, LoopAt
  <2>4. ToldRight(s, cb)
    <3> SUFFICES ASSUME NEW i \in 1..Len(s), s[i].f \in {"fire", "fn"}, s[i].l \in SettlingList
                 PROVE  s[i].l \in DOMAIN cb /\ cb[s[i].l].fired /\ s[i].v = cb[s[i].l].memory
      BY DEF ToldRight
    <3>1. b[i].f \in {"fire", "fn"} /\ b[i].l = s[i].l /\ b[i].v = s[i].v
      BY <1>18
    <3> QED
      BY <1>4, <1>17, <3>1 DEF Rests, ToldRight
  <2>5. \A i \in 1..Len(s) : s[i].f = "fire" => s[i].pc # "next"
    BY <1>18
  <2>6. \A m : Looping(s, m) <=> Looping(run, m)
    <3>1. \A m : Looping(b, m) <=> Looping(run, m)
      BY <1>4 DEF Rests
    <3>2. \A m : Looping(s, m) <=> Looping(b, m)
      BY <1>17, <1>18 DEF Looping, LoopAt
    <3> QED
      BY <3>1, <3>2
  <2> QED
    BY <2>1, <2>2, <2>3, <2>4, <2>5, <2>6 DEF Holds
<1>20. FromRun(s)
  BY <1>4, <1>17, <1>18 DEF FromRun
<1>21. \A m \in SettlingList : ~Early(cb, run, m)
  BY <1>2 DEF NothingEarly
<1> QED
  BY <1>1, <1>14, <1>15, <1>16, <1>19, <1>20, <1>21, HoldStep

\* What the page does to its own list without a fire.
LEMMA ChangeOK ==
  ASSUME Inv, PageOK', NEW l \in DOMAIN cb, l \notin SettlingList, NEW q, Change(l, q),
         ListOK(l, q, DOMAIN cb), q.firing = cb[l].firing
  PROVE  Inv' /\ Silent
<1>1. PageRuns /\ run' = run /\ cb' = [cb EXCEPT ![l] = q] /\ threw' = threw
  BY DEF Change, Spend
<1>2. /\ ListsOK(cb') /\ DOMAIN cb' = DOMAIN cb /\ cb'[l] = q
      /\ \A m \in DOMAIN cb : m # l => cb'[m] = cb[m]
  BY <1>1, ChangeList DEF Inv
<1>3. Keeps(cb')
  BY <1>2 DEF Keeps
<1>4. Rests(run', DOMAIN cb') /\ FromRun(run')
  BY <1>1, <1>2, RestsRun DEF Inv, FromRun
<1>5. NothingEarly
  BY <1>1, InPage
<1> QED
  BY <1>1, <1>2, <1>3, <1>4, <1>5, CalmStep DEF NothingEarly

\* A callback is told of a Deferred that has settled.
Tells(d) ==
  /\ OutcomeOf(d).how \in {"resolved", "rejected"}
  /\ \A e \in DefId : OutcomeOf(e)' = OutcomeOf(e)
  /\ TellingOf' = TellingOf \union {[of |-> d, how |-> OutcomeOf(d).how, with |-> OutcomeOf(d).with]}

Kept == Silent \/ \E d \in DefId : Settles(d) \/ Tells(d)

LEMMA OwnListKept ==
  /\ OwnList \notin SettlingList
  /\ PageOK /\ calls["list"] > 0 => OwnList \in DOMAIN cb
<1>1. OwnList \notin SettlingList
  BY ScriptsAssumption DEF SettlingList, Settling, Action
<1> QED
  BY <1>1 DEF PageOK

LEMMA ListCallsOK ==
  ASSUME Inv, ListCalls(OwnList), UNCHANGED <<state, own, req>>
  PROVE  Inv' /\ Kept
<1>1. PICK l : l = OwnList
  OBVIOUS
<1>2. /\ Spend("list")
      /\ \/ \E fn \in Fn : AddThen(l, OfPage(fn), run)
         \/ \E v \in Value : FireThen(l, v, run)
         \/ \E fn \in Fn : Change(l, Removed(cb[l], OfPage(fn)))
         \/ Change(l, Emptied(cb[l])) \/ Change(l, Disabled(cb[l])) \/ Change(l, Locked(cb[l]))
  BY <1>1 DEF ListCalls, Add, Fire, RemoveFn, Empty, Disable, Lock, Change
<1>3. PageOK /\ "list" \in Kinds
  BY DEF Inv, Kinds
<1>4. l \in DOMAIN cb /\ l \notin SettlingList
  BY <1>1, <1>2, <1>3, OwnListKept DEF Spend
<1>5. CallsLeft /\ threw' = threw /\ PageRuns
  BY <1>2, <1>3, SpendLeaves
<1>6. DOMAIN cb' = DOMAIN cb
  BY <1>2 DEF AddThen, FireThen, Change
<1>7. PageOK'
  BY <1>3, <1>5, <1>6, SamePage
<1>8. ListOK(l, cb[l], DOMAIN cb)
  BY <1>4 DEF Inv, ListsOK
<1>9. NothingEarly /\ Rests(run, DOMAIN cb) /\ FromRun(run)
  BY <1>5, InPage, RestsRun DEF Inv
<1>10. ASSUME NEW fn \in Fn, AddThen(l, OfPage(fn), run) PROVE Inv' /\ Kept
  <2>1. Addable(OfPage(fn), DOMAIN cb)
    BY DEF Addable, OfPage
  <2> QED
    BY <1>4, <1>5, <1>7, <1>9, <1>10, <2>1, AddStep DEF Kept
<1>11. ASSUME NEW v \in Value, FireThen(l, v, run) PROVE Inv' /\ Kept
  BY <1>4, <1>5, <1>7, <1>9, <1>11, FireStep DEF Kept
<1>12. ASSUME NEW q, Change(l, q),
              \/ \E fn \in Fn : q = Removed(cb[l], OfPage(fn))
              \/ q = Emptied(cb[l]) \/ q = Disabled(cb[l]) \/ q = Locked(cb[l])
       PROVE  Inv' /\ Kept
  <2>1. ListOK(l, q, DOMAIN cb) /\ q.firing = cb[l].firing
    <3>1. PICK o : o = cb[l] /\ ListOK(l, o, DOMAIN cb)
      BY <1>8
    <3>2. CASE \E fn \in Fn : q = Removed(o, OfPage(fn))
      BY <1>4, <3>1, <3>2, RemovedOK
    <3>3. CASE q = Emptied(o)
      BY <1>4, <3>1, <3>3, EmptiedOK
    <3>4. CASE q = Disabled(o)
      BY <1>4, <3>1, <3>4, DisabledOK
    <3>5. CASE q = Locked(o)
      BY <1>4, <3>1, <3>5, LockedOK
    <3> QED
      BY <1>12, <3>1, <3>2, <3>3, <3>4, <3>5
  <2> QED
    BY <1>4, <1>7, <1>12, <2>1, ChangeOK DEF Kept
<1> QED
  BY <1>2, <1>10, <1>11, <1>12

LEMMA ListStepOK ==
  ASSUME Inv, ListStep
  PROVE  Inv' /\ Kept
<1>1. PageOK
  BY DEF Inv
<1>2. UNCHANGED <<state, own, req>>
  BY DEF ListStep
<1>3. ASSUME UNCHANGED calls, DOMAIN cb' = DOMAIN cb PROVE PageOK'
  BY <1>1, <1>2, <1>3, SameCalls, SamePage
<1>4. CASE ReturnFalse
  BY <1>3, <1>4, ReturnFalseOK DEF Kept, ReturnFalse
<1>5. CASE Return
  BY <1>3, <1>5, ReturnOK DEF Kept, Return
<1>6. CASE NextInLoop
  BY <1>3, <1>6, NextInLoopOK DEF Kept, NextInLoop
<1>7. CASE EndLoop
  BY <1>3, <1>7, EndLoopOK DEF Kept, EndLoop
<1>8. CASE Throw
  <2>1. calls' = [k \in Kinds |-> 0] /\ UNCHANGED cb
    BY <1>8 DEF Throw
  <2>2. CallsLeft
    <3>1. "list" \in Kinds
      BY DEF Kinds
    <3> QED
      BY <2>1, <3>1 DEF CallsLeft
  <2>3. PageOK'
    BY <1>1, <1>2, <2>1, <2>2, SamePage
  <2> QED
    BY <1>8, <2>3, ThrowOK DEF Kept
<1>9. CASE ListCalls(OwnList)
  BY <1>2, <1>9, ListCallsOK
<1> QED
  BY <1>4, <1>5, <1>6, <1>7, <1>8, <1>9 DEF ListStep
=============================================================================
