---------------------------- MODULE EventsProofs ----------------------------
(***************************************************************************)
(* Proofs about the events of a page, for any document, bindings and       *)
(* bounds.                                                                 *)
(***************************************************************************)
EXTENDS PageEvents, FiniteSetTheorems, SequenceTheorems, NaturalsInduction, WellFoundedInduction, TLAPS

-----------------------------------------------------------------------------
(***************************************************************************)
(* Sequences used as call stacks.                                          *)
(***************************************************************************)

Stack(r) == r \in Seq({r[i] : i \in 1..Len(r)})

LEMMA SeqIsStack ==
  ASSUME NEW S, NEW r \in Seq(S)
  PROVE  Stack(r)
BY DEF Stack

LEMMA StackIsSeq ==
  ASSUME NEW r, Stack(r)
  PROVE  \E S : r \in Seq(S)
BY DEF Stack

LEMMA StackLen ==
  ASSUME NEW r, Stack(r)
  PROVE  /\ Len(r) \in Nat /\ DOMAIN r = 1..Len(r)
         /\ (r = <<>>) <=> (Len(r) = 0)
<1>1. PICK S : r \in Seq(S)
  BY StackIsSeq
<1> QED
  BY <1>1

LEMMA StackEmpty == Stack(<<>>) /\ Len(<<>>) = 0
<1>1. <<>> \in Seq({})
  OBVIOUS
<1> QED
  BY <1>1, SeqIsStack

LEMMA StackOne ==
  ASSUME NEW x
  PROVE  Stack(<<x>>) /\ Len(<<x>>) = 1 /\ <<x>>[1] = x
<1>1. <<x>> \in Seq({x})
  OBVIOUS
<1>2. Stack(<<x>>)
  BY <1>1, SeqIsStack
<1> QED
  BY <1>2

LEMMA StackCut ==
  ASSUME NEW r, Stack(r), NEW n \in 0..Len(r)
  PROVE  /\ Stack(SubSeq(r, 1, n)) /\ Len(SubSeq(r, 1, n)) = n
         /\ \A i \in 1..n : SubSeq(r, 1, n)[i] = r[i]
<1>1. PICK S : r \in Seq(S)
  BY StackIsSeq
<1>2. SubSeq(r, 1, n) \in Seq(S) /\ Len(SubSeq(r, 1, n)) = n
  BY <1>1
<1>3. \A i \in 1..n : SubSeq(r, 1, n)[i] = r[i]
  BY <1>1
<1>4. Stack(SubSeq(r, 1, n))
  BY <1>2, SeqIsStack
<1> QED
  BY <1>2, <1>3, <1>4

LEMMA StackPop ==
  ASSUME NEW r, Stack(r), r # <<>>
  PROVE  /\ Len(r) \in Nat \ {0}
         /\ Stack(Front(r)) /\ Len(Front(r)) = Len(r) - 1
         /\ \A i \in 1..Len(r) - 1 : Front(r)[i] = r[i]
<1>1. Len(r) \in Nat \ {0}
  BY StackLen
<1>2. Len(r) - 1 \in 0..Len(r)
  BY <1>1
<1> QED
  BY <1>1, <1>2, StackCut DEF Front

LEMMA StackConcat ==
  ASSUME NEW r, Stack(r), NEW s, Stack(s)
  PROVE  /\ Stack(r \o s) /\ Len(r \o s) = Len(r) + Len(s)
         /\ \A i \in 1..Len(r) : (r \o s)[i] = r[i]
         /\ \A i \in 1..Len(s) : (r \o s)[Len(r) + i] = s[i]
         /\ \A i \in Len(r) + 1..Len(r) + Len(s) : (r \o s)[i] = s[i - Len(r)]
<1>1. PICK R : r \in Seq(R)
  BY StackIsSeq
<1>2. PICK S : s \in Seq(S)
  BY StackIsSeq
<1>3. r \in Seq(R \cup S) /\ s \in Seq(R \cup S)
  BY <1>1, <1>2
<1>4. r \o s \in Seq(R \cup S) /\ Len(r \o s) = Len(r) + Len(s)
  BY <1>3
<1>5. \A i \in 1..Len(r) + Len(s) : (r \o s)[i] = IF i <= Len(r) THEN r[i] ELSE s[i - Len(r)]
  BY <1>3, ConcatProperties
<1>6. Stack(r \o s)
  BY <1>4, SeqIsStack
<1>7. Len(r) \in Nat /\ Len(s) \in Nat
  BY StackLen
<1>8. \A i \in 1..Len(r) : (r \o s)[i] = r[i]
  BY <1>5, <1>7
<1>9. \A i \in 1..Len(s) : (r \o s)[Len(r) + i] = s[i]
  <2> SUFFICES ASSUME NEW i \in 1..Len(s)
               PROVE  (r \o s)[Len(r) + i] = s[i]
    OBVIOUS
  <2>1. PICK j : j = Len(r) + i
    OBVIOUS
  <2>2. j \in 1..Len(r) + Len(s) /\ ~(j <= Len(r)) /\ j - Len(r) = i
    BY <1>7, <2>1
  <2>3. (r \o s)[j] = s[j - Len(r)]
    BY <1>5, <2>2
  <2> QED
    BY <2>1, <2>2, <2>3
<1>10. \A i \in Len(r) + 1..Len(r) + Len(s) : (r \o s)[i] = s[i - Len(r)]
  BY <1>5, <1>7
<1> QED
  BY <1>4, <1>6, <1>8, <1>9, <1>10

LEMMA StackPush ==
  ASSUME NEW r, Stack(r), NEW x
  PROVE  /\ Stack(Append(r, x)) /\ Len(Append(r, x)) = Len(r) + 1
         /\ \A i \in 1..Len(r) : Append(r, x)[i] = r[i]
         /\ Append(r, x)[Len(r) + 1] = x
<1>1. PICK R : r \in Seq(R)
  BY StackIsSeq
<1>2. r \in Seq(R \cup {x}) /\ x \in R \cup {x}
  BY <1>1
<1>3. Append(r, x) \in Seq(R \cup {x}) /\ Len(Append(r, x)) = Len(r) + 1
  BY <1>2
<1>4. Stack(Append(r, x))
  BY <1>3, SeqIsStack
<1>5. /\ \A i \in 1..Len(r) : Append(r, x)[i] = r[i]
      /\ Append(r, x)[Len(r) + 1] = x
  BY <1>2, AppendProperties
<1> QED
  BY <1>3, <1>4, <1>5

LEMMA StackSetTop ==
  ASSUME NEW r, Stack(r), r # <<>>, NEW x
  PROVE  /\ Stack(Append(Front(r), x)) /\ Len(Append(Front(r), x)) = Len(r)
         /\ \A i \in 1..Len(r) - 1 : Append(Front(r), x)[i] = r[i]
         /\ Append(Front(r), x)[Len(r)] = x
<1>1. PICK q : q = Front(r)
  OBVIOUS
<1>2. PICK n : n = Len(r)
  OBVIOUS
<1>3. /\ Stack(q) /\ n \in Nat \ {0} /\ Len(q) = n - 1
      /\ \A i \in 1..n - 1 : q[i] = r[i]
  BY <1>1, <1>2, StackPop
<1>4. /\ Stack(Append(q, x)) /\ Len(Append(q, x)) = n - 1 + 1
      /\ \A i \in 1..n - 1 : Append(q, x)[i] = q[i]
      /\ Append(q, x)[n - 1 + 1] = x
  BY <1>3, StackPush
<1>5. n - 1 + 1 = n
  BY <1>3
<1> QED
  BY <1>1, <1>2, <1>3, <1>4, <1>5

LEMMA StackExcept ==
  ASSUME NEW r, Stack(r), NEW n, NEW x, NEW s, s = [r EXCEPT ![n] = x]
  PROVE  /\ Stack(s) /\ Len(s) = Len(r)
         /\ n \in 1..Len(r) => s[n] = x
         /\ \A i \in 1..Len(r) : i # n => s[i] = r[i]
<1>1. PICK R : r \in Seq(R)
  BY StackIsSeq
<1>2. r \in Seq(R \cup {x}) /\ x \in R \cup {x}
  BY <1>1
<1>3. CASE n \in 1..Len(r)
  <2>1. /\ s \in Seq(R \cup {x}) /\ Len(s) = Len(r)
        /\ \A i \in 1..Len(r) : s[i] = IF i = n THEN x ELSE r[i]
    BY <1>2, <1>3, ExceptSeq
  <2> QED
    BY <1>3, <2>1, SeqIsStack
<1>4. CASE n \notin 1..Len(r)
  <2>1. s = r
    BY <1>2, <1>4
  <2> QED
    BY <1>4, <2>1
<1> QED
  BY <1>3, <1>4

LEMMA HasFirst ==
  ASSUME NEW T \in SUBSET Nat, T # {}
  PROVE  \E t \in T : \A u \in T : t <= u
<1>1. PICK R : R = {ss \in Nat \X Nat : ss[1] < ss[2]}
  OBVIOUS
<1>2. IsWellFoundedOn({ss \in Nat \X Nat : ss[1] < ss[2]}, Nat)
  BY NatLessThanWellFounded DEF OpToRel
<1>3. IsWellFoundedOn(R, Nat)
  BY <1>1, <1>2
<1>4. PICK t \in T : \A u \in T : <<u, t>> \notin R
  BY <1>3, WFMin
<1>5. \A u \in T : ~(u < t)
  BY <1>1, <1>4
<1> QED
  BY <1>5

LEMMA HasLast ==
  ASSUME NEW n \in Nat, NEW S \in SUBSET (1..n), S # {}
  PROVE  \E m \in S : \A j \in S : j <= m
<1>1. PICK T : T = {n - i : i \in S}
  OBVIOUS
<1>2. T \in SUBSET Nat /\ T # {}
  <2>1. \A i \in S : i \in 1..n
    OBVIOUS
  <2>2. \A i \in S : n - i \in Nat
    BY <2>1
  <2> QED
    BY <1>1, <2>2
<1>3. PICK t \in T : \A u \in T : t <= u
  BY <1>2, HasFirst
<1>4. PICK m \in S : t = n - m
  BY <1>1
<1>5. ASSUME NEW j \in S
      PROVE  j <= m
  <2>1. n - j \in T /\ n - m <= n - j
    BY <1>1, <1>3, <1>4
  <2>2. j \in 1..n /\ m \in 1..n
    OBVIOUS
  <2> QED
    BY <2>1, <2>2
<1> QED
  BY <1>5

-----------------------------------------------------------------------------
(***************************************************************************)
(* The handlers of a type, and those that stay.                            *)
(***************************************************************************)

\* Delegates are in front.
HandlersOK(hs) ==
  /\ hs = [list |-> hs.list, delegateCount |-> hs.delegateCount]
  /\ Stack(hs.list) /\ hs.delegateCount \in 0..Len(hs.list)
  /\ \A j \in 1..Len(hs.list) : hs.list[j].sel # Nothing <=> j <= hs.delegateCount

\* The function HandlersLeft is written with.
LeftStep(g, hs, n, fn, sel, ns) ==
  IF n = 0 THEN [hs EXCEPT !.list = <<>>]
  ELSE LET h == hs.list[n]
       IN  IF ~Matches(h, fn, sel, ns) THEN [g[n - 1] EXCEPT !.list = Append(@, h)]
           ELSE IF h.sel # Nothing THEN [g[n - 1] EXCEPT !.delegateCount = @ - 1]
           ELSE g[n - 1]

LeftBy(g, hs, m, fn, sel, ns) == g = [n \in 0..m |-> LeftStep(g, hs, n, fn, sel, ns)]

LEMMA LeftStepSame ==
  ASSUME NEW g, NEW f, NEW hs, NEW n, n # 0 => f[n - 1] = g[n - 1], NEW fn, NEW sel, NEW ns
  PROVE  LeftStep(f, hs, n, fn, sel, ns) = LeftStep(g, hs, n, fn, sel, ns)
BY Zenon DEF LeftStep

LEMMA HasLeft ==
  ASSUME NEW hs, NEW N \in Nat, NEW fn, NEW sel, NEW ns
  PROVE  \E g : LeftBy(g, hs, N, fn, sel, ns)
<1> DEFINE UpTo(g, m) == LeftBy(g, hs, m, fn, sel, ns)
           Fails == {m \in Nat : ~\E g : UpTo(g, m)}
<1>1. SUFFICES ASSUME Fails # {} PROVE FALSE
  OBVIOUS
<1>2. PICK m \in Fails : \A u \in Fails : m <= u
  <2>1. Fails \in SUBSET Nat
    OBVIOUS
  <2>2. PICK F : F = Fails
    OBVIOUS
  <2>3. \E m \in F : \A u \in F : m <= u
    BY <1>1, <2>1, <2>2, HasFirst
  <2> QED
    BY <2>2, <2>3
<1>3. CASE m = 0
  <2>1. PICK g : g = [n \in 0..0 |-> LeftStep(<<>>, hs, n, fn, sel, ns)]
    OBVIOUS
  <2>2. \A n \in 0..0 : LeftStep(<<>>, hs, n, fn, sel, ns) = LeftStep(g, hs, n, fn, sel, ns)
    <3>1. \A n \in 0..0 : n = 0
      OBVIOUS
    <3> QED
      BY <3>1 DEF LeftStep
  <2>3. UpTo(g, 0)
    BY <2>1, <2>2 DEF LeftBy
  <2> QED
    BY <1>3, <2>3
<1>4. CASE m # 0
  <2>0. m \in Nat /\ m - 1 \in Nat /\ ~(m <= m - 1)
    BY <1>4
  <2>1. m - 1 \notin Fails
    BY <1>2, <2>0
  <2>2. PICK g : UpTo(g, m - 1)
    BY <2>0, <2>1
  <2>3. PICK h : h = [n \in 0..m |-> IF n = m THEN LeftStep(g, hs, m, fn, sel, ns) ELSE g[n]]
    OBVIOUS
  <2>4. \A n \in 0..m : h[n] = LeftStep(h, hs, n, fn, sel, ns)
    <3> SUFFICES ASSUME NEW n \in 0..m
                 PROVE  h[n] = LeftStep(h, hs, n, fn, sel, ns)
      OBVIOUS
    <3>1. CASE n = m
      <4>1. m - 1 \in 0..m /\ m - 1 # m
        BY <2>0
      <4>2. h[m] = LeftStep(g, hs, m, fn, sel, ns) /\ h[m - 1] = g[m - 1]
        BY <2>3, <3>1, <4>1
      <4> QED
        BY <3>1, <4>2, LeftStepSame
    <3>2. CASE n # m
      <4>1. n \in 0..m - 1 /\ (n # 0 => n - 1 \in 0..m /\ n - 1 # m)
        BY <2>0, <3>2
      <4>2. h[n] = g[n] /\ (n # 0 => h[n - 1] = g[n - 1])
        BY <2>3, <3>2, <4>1
      <4>3. g[n] = LeftStep(g, hs, n, fn, sel, ns)
        BY <2>2, <4>1, Zenon DEF LeftBy
      <4> QED
        BY <4>2, <4>3, LeftStepSame
    <3> QED
      BY <3>1, <3>2
  <2>5. UpTo(h, m)
    <3>1. h = [n \in 0..m |-> h[n]]
      BY <2>3
    <3> QED
      BY <2>4, <3>1 DEF LeftBy
  <2> QED
    BY <1>2, <2>5
<1> QED
  BY <1>3, <1>4

LEMMA LeftIsBy ==
  ASSUME NEW hs, Len(hs.list) \in Nat, NEW fn, NEW sel, NEW ns
  PROVE  \E left : /\ LeftBy(left, hs, Len(hs.list), fn, sel, ns)
                   /\ HandlersLeft(hs, fn, sel, ns) = left[Len(hs.list)]
<1> DEFINE K == CHOOSE g : LeftBy(g, hs, Len(hs.list), fn, sel, ns)
<1>1. \E g : LeftBy(g, hs, Len(hs.list), fn, sel, ns)
  BY HasLeft
<1>2. HandlersLeft(hs, fn, sel, ns) = K[Len(hs.list)]
  BY Zenon DEF HandlersLeft, LeftBy, LeftStep
<1>3. LeftBy(K, hs, Len(hs.list), fn, sel, ns)
  BY <1>1, Zenon
<1> QED
  BY <1>2, <1>3, Zenon

\* What is left of the first n handlers.
LeftOf(l, hs, n, fn, sel, ns) ==
  /\ l = [list |-> l.list, delegateCount |-> l.delegateCount]
  /\ Stack(l.list) /\ l.delegateCount \in Int
  /\ \A j \in 1..Len(l.list) :
       \E i \in 1..Len(hs.list) : l.list[j] = hs.list[i] /\ ~Matches(hs.list[i], fn, sel, ns)
  /\ n <= hs.delegateCount =>
       /\ l.delegateCount = (hs.delegateCount - n) + Len(l.list)
       /\ \A j \in 1..Len(l.list) : l.list[j].sel # Nothing
  /\ hs.delegateCount <= n =>
       /\ l.delegateCount \in 0..Len(l.list)
       /\ \A j \in 1..Len(l.list) : l.list[j].sel # Nothing <=> j <= l.delegateCount

LEMMA LeftOfNone ==
  ASSUME NEW hs, HandlersOK(hs), NEW fn, NEW sel, NEW ns, NEW l, l = [hs EXCEPT !.list = <<>>]
  PROVE  LeftOf(l, hs, 0, fn, sel, ns)
<1>1. l = [list |-> <<>>, delegateCount |-> hs.delegateCount]
  BY DEF HandlersOK
<1>2. l.list = <<>> /\ l.delegateCount = hs.delegateCount /\ hs.delegateCount \in Nat
  <2>1. Len(hs.list) \in Nat
    BY StackLen DEF HandlersOK
  <2> QED
    BY <1>1, <2>1 DEF HandlersOK
<1>3. Stack(l.list) /\ Len(l.list) = 0
  BY <1>2, StackEmpty
<1>4. hs.delegateCount = (hs.delegateCount - 0) + Len(l.list)
  BY <1>2, <1>3
<1>5. hs.delegateCount <= 0 => hs.delegateCount \in 0..Len(l.list)
  BY <1>2, <1>3
<1>6. l = [list |-> l.list, delegateCount |-> l.delegateCount]
  BY <1>1, <1>2
<1>8. l.delegateCount \in Int
  BY <1>2
<1>7. 1..Len(l.list) = {}
  BY <1>3
<1> QED
  BY <1>2, <1>3, <1>4, <1>5, <1>6, <1>7, <1>8 DEF LeftOf

LEMMA LeftOfMore ==
  ASSUME NEW hs, HandlersOK(hs), NEW fn, NEW sel, NEW ns,
         NEW n \in 1..Len(hs.list), NEW l, LeftOf(l, hs, n - 1, fn, sel, ns),
         NEW h, h = hs.list[n],
         NEW m, m = IF ~Matches(h, fn, sel, ns) THEN [l EXCEPT !.list = Append(@, h)]
                    ELSE IF h.sel # Nothing THEN [l EXCEPT !.delegateCount = @ - 1]
                    ELSE l
  PROVE  LeftOf(m, hs, n, fn, sel, ns)
<1>1. Len(hs.list) \in Nat /\ hs.delegateCount \in Nat /\ (h.sel # Nothing <=> n <= hs.delegateCount)
  <2>1. Len(hs.list) \in Nat
    BY StackLen DEF HandlersOK
  <2> QED
    BY <2>1 DEF HandlersOK
<1>2. PICK s, d : s = l.list /\ d = l.delegateCount
  OBVIOUS
<1>3. l = [list |-> s, delegateCount |-> d] /\ Stack(s) /\ d \in Int /\ Len(s) \in Nat
  BY <1>2, StackLen DEF LeftOf
<1>4. \A j \in 1..Len(s) : \E i \in 1..Len(hs.list) : s[j] = hs.list[i] /\ ~Matches(hs.list[i], fn, sel, ns)
  BY <1>2 DEF LeftOf
<1>5. n - 1 <= hs.delegateCount =>
        /\ d = (hs.delegateCount - (n - 1)) + Len(s)
        /\ \A j \in 1..Len(s) : s[j].sel # Nothing
  BY <1>2 DEF LeftOf
<1>6. hs.delegateCount <= n - 1 =>
        /\ d \in 0..Len(s)
        /\ \A j \in 1..Len(s) : s[j].sel # Nothing <=> j <= d
  BY <1>2 DEF LeftOf
<1>7. CASE ~Matches(h, fn, sel, ns)
  <2>1. PICK a : a = Append(s, h)
    OBVIOUS
  <2>2. m = [list |-> a, delegateCount |-> d]
    BY <1>2, <1>3, <1>7, <2>1
  <2>3. /\ Stack(a) /\ Len(a) = Len(s) + 1 /\ a[Len(s) + 1] = h
        /\ \A i \in 1..Len(s) : a[i] = s[i]
    BY <1>3, <2>1, StackPush
  <2>4. \A j \in 1..Len(a) : j \in 1..Len(s) \/ j = Len(s) + 1
    BY <1>3, <2>3
  <2>5. \A j \in 1..Len(a) : \E i \in 1..Len(hs.list) : a[j] = hs.list[i] /\ ~Matches(hs.list[i], fn, sel, ns)
    BY <1>4, <1>7, <2>3, <2>4
  <2>6. ASSUME n <= hs.delegateCount
        PROVE  d = (hs.delegateCount - n) + Len(a) /\ \A j \in 1..Len(a) : a[j].sel # Nothing
    <3>1. n - 1 <= hs.delegateCount
      BY <1>1, <2>6
    <3>2. d = (hs.delegateCount - n) + Len(a)
      BY <1>1, <1>3, <1>5, <2>3, <3>1
    <3>3. \A j \in 1..Len(a) : a[j].sel # Nothing
      BY <1>1, <1>5, <2>3, <2>4, <2>6, <3>1
    <3> QED
      BY <3>2, <3>3
  <2>7. ASSUME hs.delegateCount <= n
        PROVE  d \in 0..Len(a) /\ \A j \in 1..Len(a) : a[j].sel # Nothing <=> j <= d
    <3>1. CASE n = hs.delegateCount
      <4>1. d = Len(a)
        BY <1>1, <1>3, <2>3, <2>6, <3>1
      <4> QED
        BY <1>3, <2>3, <2>6, <3>1, <4>1
    <3>2. CASE n # hs.delegateCount
      <4>1. hs.delegateCount <= n - 1 /\ ~(n <= hs.delegateCount)
        BY <1>1, <2>7, <3>2
      <4>2. d \in 0..Len(s) /\ h.sel = Nothing
        BY <1>1, <1>6, <4>1
      <4>3. ~(Len(s) + 1 <= d) /\ d \in 0..Len(a)
        BY <1>3, <2>3, <4>2
      <4> QED
        BY <1>6, <2>3, <2>4, <4>1, <4>2, <4>3
    <3> QED
      BY <3>1, <3>2
  <2>8. m.list = a /\ m.delegateCount = d
    BY <2>2
  <2>9. m = [list |-> m.list, delegateCount |-> m.delegateCount]
    BY <2>2, <2>8
  <2>10. Stack(m.list) /\ m.delegateCount \in Int
    BY <1>3, <2>3, <2>8
  <2>11. \A j \in 1..Len(m.list) :
           \E i \in 1..Len(hs.list) : m.list[j] = hs.list[i] /\ ~Matches(hs.list[i], fn, sel, ns)
    BY <2>5, <2>8
  <2>12. n <= hs.delegateCount =>
           /\ m.delegateCount = (hs.delegateCount - n) + Len(m.list)
           /\ \A j \in 1..Len(m.list) : m.list[j].sel # Nothing
    BY <2>6, <2>8
  <2>13. hs.delegateCount <= n =>
           /\ m.delegateCount \in 0..Len(m.list)
           /\ \A j \in 1..Len(m.list) : m.list[j].sel # Nothing <=> j <= m.delegateCount
    BY <2>7, <2>8
  <2> QED
    BY <2>9, <2>10, <2>11, <2>12, <2>13, Zenon DEF LeftOf
<1>8. CASE Matches(h, fn, sel, ns) /\ h.sel # Nothing
  <2>1. m = [list |-> s, delegateCount |-> d - 1]
    BY <1>2, <1>3, <1>8
  <2>2. n <= hs.delegateCount /\ n - 1 <= hs.delegateCount
    BY <1>1, <1>8
  <2>3. d - 1 = (hs.delegateCount - n) + Len(s) /\ \A j \in 1..Len(s) : s[j].sel # Nothing
    BY <1>1, <1>3, <1>5, <2>2
  <2>4. ASSUME hs.delegateCount <= n
        PROVE  d - 1 = Len(s)
    BY <1>1, <1>3, <2>2, <2>3, <2>4
  <2>5. hs.delegateCount <= n =>
          d - 1 \in 0..Len(s) /\ \A j \in 1..Len(s) : s[j].sel # Nothing <=> j <= d - 1
    BY <1>3, <2>3, <2>4
  <2> QED
    BY <1>3, <1>4, <2>1, <2>3, <2>5 DEF LeftOf
<1>9. CASE Matches(h, fn, sel, ns) /\ h.sel = Nothing
  <2>1. m = l
    BY <1>9
  <2>2. ~(n <= hs.delegateCount) /\ hs.delegateCount <= n - 1
    BY <1>1, <1>9
  <2> QED
    BY <1>2, <1>3, <1>4, <1>6, <2>1, <2>2 DEF LeftOf
<1> QED
  BY <1>7, <1>8, <1>9

\* What stays is of the list, does not match, and has its delegates in front.
LEMMA LeftOK ==
  ASSUME NEW hs, HandlersOK(hs), NEW fn, NEW sel, NEW ns, NEW l, l = HandlersLeft(hs, fn, sel, ns)
  PROVE  /\ HandlersOK(l)
         /\ \A j \in 1..Len(l.list) :
              \E i \in 1..Len(hs.list) : l.list[j] = hs.list[i] /\ ~Matches(hs.list[i], fn, sel, ns)
<1>1. Len(hs.list) \in Nat /\ hs.delegateCount \in 0..Len(hs.list)
  BY StackLen DEF HandlersOK
<1>2. PICK left : LeftBy(left, hs, Len(hs.list), fn, sel, ns) /\ l = left[Len(hs.list)]
  BY <1>1, LeftIsBy
<1>3. \A n \in 0..Len(hs.list) : left[n] = LeftStep(left, hs, n, fn, sel, ns)
  BY <1>2, Zenon DEF LeftBy
<1>4. \A n \in 0..Len(hs.list) : LeftOf(left[n], hs, n, fn, sel, ns)
  <2> DEFINE Fails == {n \in 0..Len(hs.list) : ~LeftOf(left[n], hs, n, fn, sel, ns)}
  <2>1. SUFFICES ASSUME Fails # {} PROVE FALSE
    OBVIOUS
  <2>2. PICK n \in Fails : \A u \in Fails : n <= u
    <3>1. Fails \in SUBSET Nat
      BY <1>1
    <3>2. PICK F : F = Fails
      OBVIOUS
    <3>3. \E n \in F : \A u \in F : n <= u
      BY <2>1, <3>1, <3>2, HasFirst
    <3> QED
      BY <3>2, <3>3
  <2>3. CASE n = 0
    <3>1. left[n] = [hs EXCEPT !.list = <<>>]
      BY <1>1, <1>3, <2>3 DEF LeftStep
    <3> QED
      BY <2>2, <2>3, <3>1, LeftOfNone
  <2>4. CASE n # 0
    <3>1. n \in 1..Len(hs.list) /\ n - 1 \in 0..Len(hs.list) /\ ~(n <= n - 1)
      BY <1>1, <2>4
    <3>2. LeftOf(left[n - 1], hs, n - 1, fn, sel, ns)
      BY <2>2, <3>1
    <3>3. PICK h, k : h = hs.list[n] /\ k = left[n - 1]
      OBVIOUS
    <3>4. left[n] = IF ~Matches(h, fn, sel, ns) THEN [k EXCEPT !.list = Append(@, h)]
                    ELSE IF h.sel # Nothing THEN [k EXCEPT !.delegateCount = @ - 1]
                    ELSE k
      BY <1>3, <2>4, <3>1, <3>3 DEF LeftStep
    <3>5. LeftOf(left[n], hs, n, fn, sel, ns)
      BY <3>1, <3>2, <3>3, <3>4, LeftOfMore
    <3> QED
      BY <2>2, <3>5
  <2> QED
    BY <2>3, <2>4
<1>5. LeftOf(l, hs, Len(hs.list), fn, sel, ns)
  BY <1>1, <1>2, <1>4
<1>6. hs.delegateCount <= Len(hs.list)
  BY <1>1
<1> QED
  BY <1>5, <1>6 DEF LeftOf, HandlersOK

\* With a handler that is bound, a delegate behind the other delegates.
Bound(hs, h) ==
  IF h.sel = Nothing THEN [hs EXCEPT !.list = Append(@, h)]
  ELSE [list |-> InsertAt(hs.list, hs.delegateCount + 1, h), delegateCount |-> hs.delegateCount + 1]

LEMMA BoundOK ==
  ASSUME NEW hs, HandlersOK(hs), NEW h, NEW new, new = Bound(hs, h)
  PROVE  /\ HandlersOK(new) /\ Len(new.list) = Len(hs.list) + 1
         /\ \A j \in 1..Len(new.list) : new.list[j] = h \/ \E i \in 1..Len(hs.list) : new.list[j] = hs.list[i]
<1>1. PICK s, d : s = hs.list /\ d = hs.delegateCount
  OBVIOUS
<1>2. /\ hs = [list |-> s, delegateCount |-> d] /\ Stack(s) /\ Len(s) \in Nat /\ d \in 0..Len(s)
      /\ \A j \in 1..Len(s) : s[j].sel # Nothing <=> j <= d
  BY <1>1, StackLen DEF HandlersOK
<1>3. CASE h.sel = Nothing
  <2>1. PICK a : a = Append(s, h)
    OBVIOUS
  <2>2. new = [list |-> a, delegateCount |-> d]
    BY <1>1, <1>2, <1>3, <2>1 DEF Bound
  <2>3. /\ Stack(a) /\ Len(a) = Len(s) + 1 /\ a[Len(s) + 1] = h
        /\ \A i \in 1..Len(s) : a[i] = s[i]
    BY <1>2, <2>1, StackPush
  <2>4. \A j \in 1..Len(a) : j \in 1..Len(s) \/ j = Len(s) + 1
    BY <1>2, <2>3
  <2>5. d \in 0..Len(a) /\ ~(Len(s) + 1 <= d)
    BY <1>2, <2>3
  <2>6. \A j \in 1..Len(a) : a[j].sel # Nothing <=> j <= d
    BY <1>2, <1>3, <2>3, <2>4, <2>5
  <2>7. \A j \in 1..Len(a) : a[j] = h \/ \E i \in 1..Len(s) : a[j] = s[i]
    BY <2>3, <2>4
  <2>8. new.list = a /\ new.delegateCount = d
    BY <2>2
  <2>10. new = [list |-> new.list, delegateCount |-> new.delegateCount]
    BY <2>2, <2>8
  <2>9. HandlersOK(new)
    BY <2>3, <2>5, <2>6, <2>8, <2>10 DEF HandlersOK
  <2> QED
    BY <1>1, <2>3, <2>7, <2>8, <2>9
<1>4. CASE h.sel # Nothing
  <2>1. PICK a : a = InsertAt(s, d + 1, h)
    OBVIOUS
  <2>2. new = [list |-> a, delegateCount |-> d + 1]
    BY <1>1, <1>4, <2>1 DEF Bound
  <2>3. PICK S : s \in Seq(S)
    BY <1>2, StackIsSeq
  <2>4. PICK p, q : p = SubSeq(s, 1, d) /\ q = SubSeq(s, d + 1, Len(s))
    OBVIOUS
  <2>5. a = (p \o <<h>>) \o q
    <3>1. (d + 1) - 1 = d
      BY <1>2
    <3> QED
      BY <2>1, <2>4, <3>1 DEF InsertAt
  <2>6. p \in Seq(S) /\ Len(p) = d /\ \A i \in 1..d : p[i] = s[i]
    BY <1>2, <2>3, <2>4
  <2>7. q \in Seq(S) /\ Len(q) = Len(s) - d /\ \A i \in 1..Len(s) - d : q[i] = s[d + i]
    BY <1>2, <2>3, <2>4
  <2>8. PICK r : r = p \o <<h>>
    OBVIOUS
  <2>9. Stack(p) /\ Stack(q)
    BY <2>6, <2>7, SeqIsStack
  <2>10. /\ Stack(r) /\ Len(r) = d + 1 /\ r[d + 1] = h
         /\ \A i \in 1..d : r[i] = s[i]
    <3>1. p \in Seq(S \union {h}) /\ <<h>> \in Seq(S \union {h}) /\ Len(<<h>>) = 1 /\ <<h>>[1] = h
      BY <2>6
    <3>2. r \in Seq(S \union {h}) /\ Len(r) = d + 1
      BY <2>6, <2>8, <3>1
    <3>3. \A i \in 1..d + 1 : r[i] = IF i <= d THEN p[i] ELSE <<h>>[i - d]
      BY <2>6, <2>8, <3>1, ConcatProperties
    <3>4. Stack(r)
      BY <3>2, SeqIsStack
    <3>5. d + 1 \in 1..d + 1 /\ ~(d + 1 <= d) /\ (d + 1) - d = 1
      BY <1>2
    <3>6. r[d + 1] = h
      BY <3>1, <3>3, <3>5
    <3>7. \A i \in 1..d : i \in 1..d + 1 /\ i <= d
      BY <1>2
    <3> QED
      BY <2>6, <3>2, <3>3, <3>4, <3>6, <3>7
  <2>11. /\ Stack(a) /\ Len(a) = Len(s) + 1
         /\ \A i \in 1..d + 1 : a[i] = r[i]
         /\ \A i \in d + 2..Len(s) + 1 : a[i] = q[i - (d + 1)]
    <3>0. /\ Stack(a) /\ Len(a) = Len(r) + Len(q)
          /\ \A i \in 1..Len(r) : a[i] = r[i]
          /\ \A i \in Len(r) + 1..Len(r) + Len(q) : a[i] = q[i - Len(r)]
      BY <2>5, <2>8, <2>9, <2>10, StackConcat
    <3>1. /\ Stack(a) /\ Len(a) = (d + 1) + (Len(s) - d)
          /\ \A i \in 1..d + 1 : a[i] = r[i]
          /\ \A i \in (d + 1) + 1..(d + 1) + (Len(s) - d) : a[i] = q[i - (d + 1)]
      BY <2>7, <2>10, <3>0
    <3>2. (d + 1) + 1 = d + 2 /\ (d + 1) + (Len(s) - d) = Len(s) + 1
      BY <1>2
    <3> QED
      BY <3>1, <3>2
  <2>12. ASSUME NEW j \in 1..Len(a)
         PROVE  /\ a[j].sel # Nothing <=> j <= d + 1
                /\ a[j] = h \/ \E i \in 1..Len(s) : a[j] = s[i]
    <3>1. CASE j \in 1..d
      <4>1. a[j] = s[j] /\ j \in 1..Len(s) /\ j <= d + 1 /\ j \in 1..d + 1 /\ j <= d
        BY <1>2, <2>10, <2>11, <3>1
      <4> QED
        BY <1>2, <4>1
    <3>2. CASE j = d + 1
      <4>1. a[j] = h /\ j <= d + 1
        BY <1>2, <2>10, <2>11, <3>2
      <4> QED
        BY <1>4, <4>1
    <3>3. CASE j \in d + 2..Len(s) + 1
      <4>1. j - (d + 1) \in 1..Len(s) - d /\ d + (j - (d + 1)) = j - 1
        BY <1>2, <3>3
      <4>2. a[j] = s[j - 1] /\ j - 1 \in 1..Len(s) /\ ~(j - 1 <= d) /\ ~(j <= d + 1)
        BY <1>2, <2>7, <2>11, <3>3, <4>1
      <4> QED
        BY <1>2, <4>2
    <3>4. j \in 1..d \/ j = d + 1 \/ j \in d + 2..Len(s) + 1
      BY <1>2, <2>11
    <3> QED
      BY <3>1, <3>2, <3>3, <3>4
  <2>13. d + 1 \in 0..Len(a)
    BY <1>2, <2>11
  <2>14. new.list = a /\ new.delegateCount = d + 1
    BY <2>2
  <2>16. new = [list |-> new.list, delegateCount |-> new.delegateCount]
    BY <2>2, <2>14
  <2>15. HandlersOK(new)
    BY <2>11, <2>12, <2>13, <2>14, <2>16 DEF HandlersOK
  <2> QED
    BY <1>1, <2>11, <2>12, <2>14, <2>15
<1> QED
  BY <1>3, <1>4

-----------------------------------------------------------------------------
(***************************************************************************)
(* The store: its numbers, and the entry of one element.                   *)
(***************************************************************************)

StoreShape(s) ==
  s = [cache |-> s.cache, expando |-> s.expando, deletedIds |-> s.deletedIds, guid |-> s.guid,
       native |-> s.native, attaches |-> s.attaches]

\* A number is in use for one element, free to be given out again once, or new.
NumbersOK(cache, expando, free, guid) ==
  /\ guid \in Nat \ {0} /\ DOMAIN cache \subseteq 1..guid - 1
  /\ cache = [i \in DOMAIN cache |-> cache[i]]
  /\ expando \in [Elem -> Nat]
  /\ \A e \in Elem : expando[e] # 0 => expando[e] \in DOMAIN cache
  /\ \A e, x \in Elem : expando[e] = expando[x] /\ expando[e] # 0 => e = x
  /\ Stack(free)
  /\ \A i \in 1..Len(free) : free[i] \in (1..guid - 1) \ DOMAIN cache
  /\ \A i, j \in 1..Len(free) : free[i] = free[j] => i = j

Numbers(s) == StoreShape(s) /\ NumbersOK(s.cache, s.expando, s.deletedIds, s.guid)

\* What e holds may be another, what the others hold is the same.
OthersSame(w, s, e) ==
  \A x \in Elem : x # e => /\ HasEntry(w, x) <=> HasEntry(s, x)
                           /\ HasEntry(s, x) => Entry(w, x) = Entry(s, x)

SameListeners(w, s) == w.native = s.native /\ w.attaches = s.attaches

LEMMA HasNumber ==
  ASSUME NEW s, Numbers(s), NEW e \in Elem
  PROVE  HasEntry(s, e) <=> s.expando[e] # 0
BY DEF Numbers, NumbersOK, HasEntry

LEMMA PutEntry ==
  ASSUME NEW s, Numbers(s), NEW e \in Elem, HasEntry(s, e), NEW c, NEW w, w = OnEntry(s, e, c)
  PROVE  /\ Numbers(w) /\ HasEntry(w, e) /\ Entry(w, e) = c /\ OthersSame(w, s, e)
         /\ SameListeners(w, s) /\ w.expando = s.expando
         /\ DOMAIN w.cache = DOMAIN s.cache
         /\ \A i \in DOMAIN w.cache : i # s.expando[e] => w.cache[i] = s.cache[i]
<1>1. PICK cache, expando, free, guid, native, attaches :
        s = [cache |-> cache, expando |-> expando, deletedIds |-> free, guid |-> guid,
             native |-> native, attaches |-> attaches]
  BY DEF Numbers, StoreShape
<1>2. NumbersOK(cache, expando, free, guid)
  BY <1>1 DEF Numbers
<1>3. PICK n : n = expando[e]
  OBVIOUS
<1>4. n \in DOMAIN cache /\ n # 0
  BY <1>1, <1>2, <1>3 DEF HasEntry, NumbersOK
<1>5. PICK d : d = [cache EXCEPT ![n] = c]
  OBVIOUS
<1>6. w = [cache |-> d, expando |-> expando, deletedIds |-> free, guid |-> guid,
           native |-> native, attaches |-> attaches]
  BY <1>1, <1>3, <1>5 DEF OnEntry
<1>7. /\ DOMAIN d = DOMAIN cache /\ d = [i \in DOMAIN d |-> d[i]] /\ d[n] = c
      /\ \A i \in DOMAIN cache : i # n => d[i] = cache[i]
  BY <1>2, <1>4, <1>5 DEF NumbersOK
<1>8. NumbersOK(d, expando, free, guid)
  BY <1>2, <1>7 DEF NumbersOK
<1>9. Numbers(w)
  BY <1>6, <1>8 DEF Numbers, StoreShape
<1>10. HasEntry(w, e) /\ Entry(w, e) = c
  BY <1>3, <1>4, <1>6, <1>7 DEF HasEntry, Entry
<1>11. OthersSame(w, s, e)
  <2> SUFFICES ASSUME NEW x \in Elem, x # e
               PROVE  /\ HasEntry(w, x) <=> HasEntry(s, x)
                      /\ HasEntry(s, x) => Entry(w, x) = Entry(s, x)
    BY DEF OthersSame
  <2>1. expando[x] # n
    BY <1>2, <1>3, <1>4 DEF NumbersOK
  <2> QED
    BY <1>1, <1>6, <1>7, <2>1 DEF HasEntry, Entry
<1> QED
  BY <1>1, <1>3, <1>6, <1>7, <1>9, <1>10, <1>11 DEF SameListeners

LEMMA DropEntry ==
  ASSUME NEW s, Numbers(s), NEW e \in Elem, HasEntry(s, e), NEW w, w = WithoutEntry(s, e, s.expando[e])
  PROVE  /\ Numbers(w) /\ ~HasEntry(w, e) /\ OthersSame(w, s, e)
         /\ SameListeners(w, s) /\ w.expando[e] = 0
         /\ DOMAIN w.cache = DOMAIN s.cache \ {s.expando[e]}
         /\ \A i \in DOMAIN w.cache : w.cache[i] = s.cache[i]
<1>1. PICK cache, expando, free, guid, native, attaches :
        s = [cache |-> cache, expando |-> expando, deletedIds |-> free, guid |-> guid,
             native |-> native, attaches |-> attaches]
  BY DEF Numbers, StoreShape
<1>2. NumbersOK(cache, expando, free, guid)
  BY <1>1 DEF Numbers
<1>3. PICK n : n = expando[e]
  OBVIOUS
<1>4. n \in DOMAIN cache /\ n # 0
  BY <1>1, <1>2, <1>3 DEF HasEntry, NumbersOK
<1>5. PICK d, f, x0 : d = [i \in DOMAIN cache \ {n} |-> cache[i]] /\ f = Append(free, n) /\ x0 = [expando EXCEPT ![e] = 0]
  OBVIOUS
<1>6. w = [cache |-> d, expando |-> x0, deletedIds |-> f, guid |-> guid,
           native |-> native, attaches |-> attaches]
  BY <1>1, <1>3, <1>5 DEF WithoutEntry
<1>7. /\ DOMAIN d = DOMAIN cache \ {n} /\ d = [i \in DOMAIN d |-> d[i]]
      /\ \A i \in DOMAIN d : d[i] = cache[i]
  BY <1>5
<1>8. /\ x0 \in [Elem -> Nat] /\ x0[e] = 0
      /\ \A x \in Elem : x # e => x0[x] = expando[x]
  BY <1>2, <1>5 DEF NumbersOK
<1>9. \A x \in Elem : x # e => expando[x] # n
  BY <1>2, <1>3, <1>4 DEF NumbersOK
<1>10. /\ Stack(f) /\ Len(f) = Len(free) + 1 /\ f[Len(free) + 1] = n
       /\ \A i \in 1..Len(free) : f[i] = free[i]
       /\ Len(free) \in Nat
  BY <1>2, <1>5, StackPush, StackLen DEF NumbersOK
<1>11. \A i \in 1..Len(f) : i \in 1..Len(free) \/ i = Len(free) + 1
  BY <1>10
<1>12. n \in 1..guid - 1
  BY <1>2, <1>4 DEF NumbersOK
<1>13. \A i \in 1..Len(f) : f[i] \in (1..guid - 1) \ DOMAIN d
  BY <1>2, <1>7, <1>10, <1>11, <1>12 DEF NumbersOK
<1>14. \A i \in 1..Len(free) : free[i] # n
  BY <1>2, <1>4 DEF NumbersOK
<1>15. \A i, j \in 1..Len(f) : f[i] = f[j] => i = j
  <2>1. \A i, j \in 1..Len(free) : free[i] = free[j] => i = j
    BY <1>2 DEF NumbersOK
  <2> QED
    BY <1>10, <1>11, <1>14, <2>1
<1>16. \A x \in Elem : x0[x] # 0 => x # e /\ x0[x] = expando[x] /\ expando[x] \in DOMAIN cache \ {n}
  <2>1. \A x \in Elem : expando[x] # 0 => expando[x] \in DOMAIN cache
    BY <1>2 DEF NumbersOK
  <2> QED
    BY <1>8, <1>9, <2>1
<1>17. \A x, y \in Elem : x0[x] = x0[y] /\ x0[x] # 0 => x = y
  <2>1. \A x, y \in Elem : expando[x] = expando[y] /\ expando[x] # 0 => x = y
    BY <1>2 DEF NumbersOK
  <2> QED
    BY <1>16, <2>1
<1>18. NumbersOK(d, x0, f, guid)
  <2>1. guid \in Nat \ {0} /\ DOMAIN d \subseteq 1..guid - 1
    BY <1>2, <1>7 DEF NumbersOK
  <2> QED
    BY <1>7, <1>8, <1>10, <1>13, <1>15, <1>16, <1>17, <2>1 DEF NumbersOK
<1>19. Numbers(w)
  BY <1>6, <1>18 DEF Numbers, StoreShape
<1>20. ~HasEntry(w, e)
  <2>1. 0 \notin DOMAIN d
    BY <1>18 DEF NumbersOK
  <2> QED
    BY <1>6, <1>8, <2>1 DEF HasEntry
<1>21. OthersSame(w, s, e)
  <2> SUFFICES ASSUME NEW x \in Elem, x # e
               PROVE  /\ HasEntry(w, x) <=> HasEntry(s, x)
                      /\ HasEntry(s, x) => Entry(w, x) = Entry(s, x)
    BY DEF OthersSame
  <2>1. x0[x] = expando[x] /\ expando[x] # n
    BY <1>8, <1>9
  <2> QED
    BY <1>1, <1>6, <1>7, <2>1 DEF HasEntry, Entry
<1> QED
  BY <1>1, <1>3, <1>6, <1>7, <1>8, <1>19, <1>20, <1>21 DEF SameListeners

\* A number nobody has.
FreshId(n, cache, expando, free, guid) ==
  /\ n.id \in 1..n.guid - 1 /\ n.guid \in Nat \ {0} /\ guid <= n.guid
  /\ n.id \notin DOMAIN cache
  /\ Stack(n.deletedIds)
  /\ \A i \in 1..Len(n.deletedIds) : n.deletedIds[i] \in (1..guid - 1) \ DOMAIN cache /\ n.deletedIds[i] # n.id
  /\ \A i, j \in 1..Len(n.deletedIds) : n.deletedIds[i] = n.deletedIds[j] => i = j

LEMMA NewIdFresh ==
  ASSUME NEW s, Numbers(s), NEW n, n = NewId(s)
  PROVE  FreshId(n, s.cache, s.expando, s.deletedIds, s.guid)
<1>1. PICK cache, free, guid : cache = s.cache /\ free = s.deletedIds /\ guid = s.guid
  OBVIOUS
<1>2. /\ guid \in Nat \ {0} /\ DOMAIN cache \subseteq 1..guid - 1
      /\ Stack(free)
      /\ \A i \in 1..Len(free) : free[i] \in (1..guid - 1) \ DOMAIN cache
      /\ \A i, j \in 1..Len(free) : free[i] = free[j] => i = j
  BY <1>1 DEF Numbers, NumbersOK
<1>3. CASE free = <<>>
  <2>1. n.id = guid /\ n.deletedIds = <<>> /\ n.guid = guid + 1
    BY <1>1, <1>3 DEF NewId
  <2>2. Stack(<<>>) /\ 1..Len(<<>>) = {}
    BY StackEmpty
  <2>3. guid \in 1..(guid + 1) - 1 /\ guid + 1 \in Nat \ {0} /\ guid <= guid + 1 /\ guid \notin 1..guid - 1
    BY <1>2
  <2>4. guid \notin DOMAIN cache
    BY <1>2, <2>3
  <2> QED
    BY <1>1, <2>1, <2>2, <2>3, <2>4 DEF FreshId
<1>4. CASE free # <<>>
  <2>1. n.id = free[Len(free)] /\ n.deletedIds = Front(free) /\ n.guid = guid
    BY <1>1, <1>4 DEF NewId, Last
  <2>2. PICK f : f = Front(free)
    OBVIOUS
  <2>3. /\ Len(free) \in Nat \ {0} /\ Stack(f) /\ Len(f) = Len(free) - 1
        /\ \A i \in 1..Len(free) - 1 : f[i] = free[i]
    BY <1>2, <1>4, <2>2, StackPop
  <2>4. \A i \in 1..Len(f) : i \in 1..Len(free) /\ i # Len(free) /\ f[i] = free[i]
    BY <2>3
  <2>5. Len(free) \in 1..Len(free)
    BY <2>3
  <2>6. \A i \in 1..Len(f) : f[i] \in (1..guid - 1) \ DOMAIN cache /\ f[i] # free[Len(free)]
    BY <1>2, <2>4, <2>5
  <2>7. \A i, j \in 1..Len(f) : f[i] = f[j] => i = j
    BY <1>2, <2>4
  <2>8. free[Len(free)] \in 1..guid - 1 /\ free[Len(free)] \notin DOMAIN cache /\ guid <= guid
    BY <1>2, <2>5
  <2> QED
    BY <1>1, <1>2, <2>1, <2>2, <2>3, <2>6, <2>7, <2>8 DEF FreshId
<1> QED
  BY <1>3, <1>4

LEMMA MakeEntry ==
  ASSUME NEW s, Numbers(s), NEW e \in Elem, NEW w, w = WithEntry(s, e)
  PROVE  /\ Numbers(w) /\ HasEntry(w, e) /\ OthersSame(w, s, e)
         /\ Entry(w, e) = IF HasEntry(s, e) THEN Entry(s, e) ELSE NewEntry
         /\ SameListeners(w, s)
         /\ \A i \in DOMAIN w.cache : i # w.expando[e] => i \in DOMAIN s.cache /\ w.cache[i] = s.cache[i]
<1>1. CASE HasEntry(s, e)
  <2>1. w = s
    BY <1>1 DEF WithEntry
  <2> QED
    BY <1>1, <2>1 DEF OthersSame, SameListeners
<1>2. CASE ~HasEntry(s, e)
  <2>1. PICK cache, expando, free, guid, native, attaches :
          s = [cache |-> cache, expando |-> expando, deletedIds |-> free, guid |-> guid,
               native |-> native, attaches |-> attaches]
    BY DEF Numbers, StoreShape
  <2>2. NumbersOK(cache, expando, free, guid)
    BY <2>1 DEF Numbers
  <2>3. PICK n : n = NewId(s)
    OBVIOUS
  <2>4. FreshId(n, cache, expando, free, guid)
    BY <2>1, <2>3, NewIdFresh
  <2>5. PICK id, f, g : id = n.id /\ f = n.deletedIds /\ g = n.guid
    OBVIOUS
  <2>6. /\ id \in 1..g - 1 /\ g \in Nat \ {0} /\ guid <= g /\ id \notin DOMAIN cache
        /\ Stack(f) /\ \A i \in 1..Len(f) : f[i] \in (1..guid - 1) \ DOMAIN cache /\ f[i] # id
        /\ \A i, j \in 1..Len(f) : f[i] = f[j] => i = j
    BY <2>4, <2>5 DEF FreshId
  <2>7. PICK d, x0 : /\ d = [i \in DOMAIN cache \union {id} |-> IF i = id THEN NewEntry ELSE cache[i]]
                     /\ x0 = [expando EXCEPT ![e] = id]
    OBVIOUS
  <2>8. w = [cache |-> d, expando |-> x0, deletedIds |-> f, guid |-> g,
             native |-> native, attaches |-> attaches]
    BY <1>2, <2>1, <2>3, <2>5, <2>7 DEF WithEntry
  <2>9. /\ DOMAIN d = DOMAIN cache \union {id} /\ d = [i \in DOMAIN d |-> d[i]] /\ d[id] = NewEntry
        /\ \A i \in DOMAIN cache : d[i] = cache[i]
    BY <2>6, <2>7
  <2>10. guid \in Nat \ {0} /\ DOMAIN cache \subseteq 1..guid - 1
    BY <2>2 DEF NumbersOK
  <2>11. 1..guid - 1 \subseteq 1..g - 1 /\ id \in Nat
    BY <2>6, <2>10
  <2>12. expando \in [Elem -> Nat]
    BY <2>2 DEF NumbersOK
  <2>13. /\ x0 \in [Elem -> Nat] /\ x0[e] = id
         /\ \A x \in Elem : x # e => x0[x] = expando[x]
    BY <2>7, <2>11, <2>12
  <2>14. \A x \in Elem : expando[x] # 0 => expando[x] \in DOMAIN cache
    BY <2>2 DEF NumbersOK
  <2>15. \A x \in Elem : x0[x] # 0 => x0[x] \in DOMAIN d
    BY <2>9, <2>13, <2>14
  <2>16. \A x \in Elem : x # e /\ x0[x] # 0 => x0[x] # id
    BY <2>6, <2>13, <2>14
  <2>17. \A x, y \in Elem : x0[x] = x0[y] /\ x0[x] # 0 => x = y
    <3>1. \A x, y \in Elem : expando[x] = expando[y] /\ expando[x] # 0 => x = y
      BY <2>2 DEF NumbersOK
    <3> SUFFICES ASSUME NEW x \in Elem, NEW y \in Elem, x0[x] = x0[y], x0[x] # 0
                 PROVE  x = y
      OBVIOUS
    <3>2. CASE x = e \/ y = e
      BY <2>13, <2>16, <3>2
    <3>3. CASE x # e /\ y # e
      BY <2>13, <3>1, <3>3
    <3> QED
      BY <3>2, <3>3
  <2>18. \A i \in 1..Len(f) : f[i] \in (1..g - 1) \ DOMAIN d
    BY <2>6, <2>9, <2>11
  <2>19. DOMAIN d \subseteq 1..g - 1
    BY <2>6, <2>9, <2>10, <2>11
  <2>20. NumbersOK(d, x0, f, g)
    BY <2>6, <2>9, <2>13, <2>15, <2>17, <2>18, <2>19 DEF NumbersOK
  <2>21. Numbers(w)
    BY <2>8, <2>20 DEF Numbers, StoreShape
  <2>22. HasEntry(w, e) /\ Entry(w, e) = NewEntry
    BY <2>8, <2>9, <2>13 DEF HasEntry, Entry
  <2>23. OthersSame(w, s, e)
    <3> SUFFICES ASSUME NEW x \in Elem, x # e
                 PROVE  /\ HasEntry(w, x) <=> HasEntry(s, x)
                        /\ HasEntry(s, x) => Entry(w, x) = Entry(s, x)
      BY DEF OthersSame
    <3>1. x0[x] = expando[x] /\ (expando[x] \in DOMAIN d <=> expando[x] \in DOMAIN cache)
      <4>1. x0[x] = expando[x]
        BY <2>13
      <4>2. expando[x] # id
        <5>1. 0 \notin 1..g - 1
          BY <2>6
        <5>2. expando[x] = 0 => expando[x] # id
          BY <2>6, <5>1
        <5> QED
          BY <2>16, <4>1, <5>2
      <4> QED
        BY <2>9, <4>1, <4>2
    <3> QED
      BY <2>1, <2>8, <2>9, <3>1 DEF HasEntry, Entry
  <2>24. \A i \in DOMAIN w.cache : i # w.expando[e] => i \in DOMAIN s.cache /\ w.cache[i] = s.cache[i]
    BY <2>1, <2>8, <2>9, <2>13
  <2>25. SameListeners(w, s)
    BY <2>1, <2>8 DEF SameListeners
  <2> QED
    BY <1>2, <2>21, <2>22, <2>23, <2>24, <2>25
<1> QED
  BY <1>1, <1>2

-----------------------------------------------------------------------------
(***************************************************************************)
(* Entries.                                                                *)
(***************************************************************************)

EntryShape(c) ==
  /\ c = [data |-> c.data, events |-> c.events, handle |-> c.handle]
  /\ c.events = [t \in EventType |-> c.events[t]]
  /\ \A t \in EventType : HandlersOK(c.events[t])
  /\ c.handle \in BOOLEAN /\ (c.handle <=> HasEvents(c))

EntryOK(c) == EntryShape(c) /\ ~IsEmptyDataObject(c)

Entries(s) == \A i \in DOMAIN s.cache : EntryOK(s.cache[i])

StoreOK(s) == Numbers(s) /\ Entries(s)

\* The handlers of the others are the same.
SameHandlers(w, s, e) == \A x \in Elem, t \in EventType : x # e => Handlers(w, x, t) = Handlers(s, x, t)

LEMMA OthersHandlers ==
  ASSUME NEW s, NEW w, NEW e, OthersSame(w, s, e)
  PROVE  SameHandlers(w, s, e)
BY DEF OthersSame, SameHandlers, Handlers

LEMMA NoHandlersOK == HandlersOK(NoHandlers) /\ NoHandlers.list = <<>> /\ NoHandlers.delegateCount = 0
<1>1. NoHandlers.list = <<>> /\ NoHandlers.delegateCount = 0
  BY DEF NoHandlers
<1>2. NoHandlers = [list |-> NoHandlers.list, delegateCount |-> NoHandlers.delegateCount]
  BY DEF NoHandlers
<1>3. Stack(<<>>) /\ Len(<<>>) = 0
  BY StackEmpty
<1> QED
  BY <1>1, <1>2, <1>3 DEF HandlersOK

LEMMA NewEntryShape ==
  /\ EntryShape(NewEntry) /\ NewEntry.data = {} /\ ~HasEvents(NewEntry)
  /\ \A t \in EventType : NewEntry.events[t] = NoHandlers
<1>1. PICK c : c = NewEntry
  OBVIOUS
<1>2. c.data = {} /\ c.events = [t \in EventType |-> NoHandlers] /\ c.handle = FALSE
  BY <1>1 DEF NewEntry
<1>3. c = [data |-> c.data, events |-> c.events, handle |-> c.handle]
  BY <1>1, <1>2 DEF NewEntry
<1>4. \A t \in EventType : c.events[t] = NoHandlers
  BY <1>2
<1>5. ~HasEvents(c)
  BY <1>4, NoHandlersOK DEF HasEvents
<1>6. c.handle <=> HasEvents(c)
  BY <1>2, <1>5
<1>7. \A t \in EventType : HandlersOK(c.events[t])
  BY <1>4, NoHandlersOK
<1>8. c.events = [t \in EventType |-> c.events[t]]
  BY <1>2
<1> QED
  BY <1>1, <1>2, <1>3, <1>4, <1>5, <1>6, <1>7, <1>8 DEF EntryShape

\* The entry of an element that has one, or a new one.
LEMMA HisEntry ==
  ASSUME NEW s, StoreOK(s), NEW e \in Elem, HasEntry(s, e)
  PROVE  EntryOK(Entry(s, e)) /\ \A t \in EventType : Handlers(s, e, t) = Entry(s, e).events[t]
BY DEF StoreOK, Entries, HasEntry, Entry, Handlers

LEMMA TheirHandlers ==
  ASSUME NEW s, StoreOK(s), NEW e \in Elem, NEW t \in EventType
  PROVE  HandlersOK(Handlers(s, e, t))
<1>1. CASE HasEntry(s, e)
  BY <1>1, HisEntry DEF EntryOK, EntryShape
<1>2. CASE ~HasEntry(s, e)
  BY <1>2, NoHandlersOK DEF Handlers
<1> QED
  BY <1>1, <1>2

\* An entry that changes, and goes if nothing is left in it.
LEMMA ShrunkOK ==
  ASSUME NEW s, StoreShape(s), NEW e \in Elem, Numbers(s), HasEntry(s, e),
         \A i \in DOMAIN s.cache : i # s.expando[e] => EntryOK(s.cache[i]),
         NEW c, EntryShape(c), NEW w, w = Shrunk(OnEntry(s, e, c), e)
  PROVE  /\ StoreOK(w) /\ OthersSame(w, s, e) /\ SameListeners(w, s)
         /\ \A t \in EventType : Handlers(w, e, t).list = c.events[t].list
         /\ \/ w.expando[e] = s.expando[e] /\ s.expando[e] \in DOMAIN w.cache
            \/ w.expando[e] = 0 /\ s.expando[e] \notin DOMAIN w.cache
<1>1. PICK v : v = OnEntry(s, e, c)
  OBVIOUS
<1>2. /\ Numbers(v) /\ HasEntry(v, e) /\ Entry(v, e) = c /\ OthersSame(v, s, e)
      /\ SameListeners(v, s) /\ v.expando = s.expando
      /\ DOMAIN v.cache = DOMAIN s.cache
      /\ \A i \in DOMAIN v.cache : i # s.expando[e] => v.cache[i] = s.cache[i]
  BY <1>1, PutEntry
<1>3. v.cache[s.expando[e]] = c
  BY <1>2 DEF Entry
<1>4. CASE ~IsEmptyDataObject(c)
  <2>1. w = v
    BY <1>1, <1>2, <1>4 DEF Shrunk
  <2>2. EntryOK(c)
    BY <1>4 DEF EntryOK
  <2>3. Entries(v)
    BY <1>2, <1>3, <2>2 DEF Entries
  <2>4. \A t \in EventType : Handlers(w, e, t).list = c.events[t].list
    BY <1>2, <2>1 DEF Handlers
  <2>5. w.expando[e] = s.expando[e] /\ s.expando[e] \in DOMAIN w.cache
    BY <1>2, <2>1 DEF HasEntry
  <2> QED
    BY <1>2, <2>1, <2>3, <2>4, <2>5 DEF StoreOK
<1>5. CASE IsEmptyDataObject(c)
  <2>1. w = WithoutEntry(v, e, v.expando[e])
    BY <1>1, <1>2, <1>5 DEF Shrunk
  <2>2. /\ Numbers(w) /\ ~HasEntry(w, e) /\ OthersSame(w, v, e)
        /\ SameListeners(w, v) /\ w.expando[e] = 0
        /\ DOMAIN w.cache = DOMAIN v.cache \ {v.expando[e]}
        /\ \A i \in DOMAIN w.cache : w.cache[i] = v.cache[i]
    BY <1>2, <2>1, DropEntry
  <2>3. Entries(w)
    BY <1>2, <2>2 DEF Entries
  <2>4. \A t \in EventType : c.events[t].list = <<>>
    BY <1>5 DEF IsEmptyDataObject, HasEvents
  <2>5. \A t \in EventType : Handlers(w, e, t).list = c.events[t].list
    BY <2>2, <2>4, NoHandlersOK DEF Handlers
  <2>6. OthersSame(w, s, e)
    BY <1>2, <2>2 DEF OthersSame
  <2>7. SameListeners(w, s)
    BY <1>2, <2>2 DEF SameListeners
  <2> QED
    BY <1>2, <2>2, <2>3, <2>5, <2>6, <2>7 DEF StoreOK
<1> QED
  BY <1>4, <1>5

\* Everybody has the handlers they had.
SameLists(w, s) == \A x \in Elem, t \in EventType : Handlers(w, x, t).list = Handlers(s, x, t).list

LEMMA ListsOfOne ==
  ASSUME NEW s, NEW w, NEW e \in Elem, OthersSame(w, s, e),
         \A t \in EventType : Handlers(w, e, t).list = Handlers(s, e, t).list
  PROVE  SameLists(w, s)
<1>1. SameHandlers(w, s, e)
  BY OthersHandlers
<1> QED
  BY <1>1 DEF SameHandlers, SameLists

\* The entry for something new: what it holds, and the others.
LEMMA ForNew ==
  ASSUME NEW s, StoreOK(s), NEW e \in Elem, NEW w, w = WithEntry(s, e)
  PROVE  /\ Numbers(w) /\ HasEntry(w, e) /\ OthersSame(w, s, e) /\ SameListeners(w, s)
         /\ EntryShape(Entry(w, e))
         /\ \A t \in EventType : Entry(w, e).events[t] = Handlers(s, e, t)
         /\ \A i \in DOMAIN w.cache : i # w.expando[e] => EntryOK(w.cache[i])
<1>1. /\ Numbers(w) /\ HasEntry(w, e) /\ OthersSame(w, s, e)
      /\ Entry(w, e) = (IF HasEntry(s, e) THEN Entry(s, e) ELSE NewEntry)
      /\ SameListeners(w, s)
      /\ \A i \in DOMAIN w.cache : i # w.expando[e] => i \in DOMAIN s.cache /\ w.cache[i] = s.cache[i]
  BY MakeEntry DEF StoreOK
<1>2. \A i \in DOMAIN w.cache : i # w.expando[e] => EntryOK(w.cache[i])
  BY <1>1 DEF StoreOK, Entries
<1>3. CASE HasEntry(s, e)
  <2>1. EntryOK(Entry(s, e)) /\ \A t \in EventType : Handlers(s, e, t) = Entry(s, e).events[t]
    BY <1>3, HisEntry
  <2> QED
    BY <1>1, <1>2, <1>3, <2>1 DEF EntryOK
<1>4. CASE ~HasEntry(s, e)
  <2>1. \A t \in EventType : Handlers(s, e, t) = NoHandlers
    BY <1>4 DEF Handlers
  <2> QED
    BY <1>1, <1>2, <1>4, <2>1, NewEntryShape
<1> QED
  BY <1>3, <1>4

LEMMA WithDataOK ==
  ASSUME NEW s, StoreOK(s), NEW e \in Elem, NEW k, NEW u, u = WithData(s, e, k)
  PROVE  StoreOK(u) /\ SameLists(u, s) /\ SameListeners(u, s)
<1>1. PICK w : w = WithEntry(s, e)
  OBVIOUS
<1>2. /\ Numbers(w) /\ HasEntry(w, e) /\ OthersSame(w, s, e) /\ SameListeners(w, s)
      /\ EntryShape(Entry(w, e))
      /\ \A t \in EventType : Entry(w, e).events[t] = Handlers(s, e, t)
      /\ \A i \in DOMAIN w.cache : i # w.expando[e] => EntryOK(w.cache[i])
  BY <1>1, ForNew
<1>3. PICK c, d : c = Entry(w, e) /\ d = [c EXCEPT !.data = @ \union {k}]
  OBVIOUS
<1>4. u = OnEntry(w, e, d)
  BY <1>1, <1>3 DEF WithData
<1>5. PICK a, b, h : c = [data |-> a, events |-> b, handle |-> h]
  BY <1>2, <1>3 DEF EntryShape
<1>6. d = [data |-> a \union {k}, events |-> b, handle |-> h]
  BY <1>3, <1>5
<1>7. EntryShape(d) /\ d.events = c.events /\ d.data # {}
  <2>1. d.events = c.events /\ d.handle = c.handle /\ d.data # {}
    BY <1>5, <1>6
  <2>2. d = [data |-> d.data, events |-> d.events, handle |-> d.handle]
    BY <1>6, <2>1
  <2>3. HasEvents(d) <=> HasEvents(c)
    BY <2>1 DEF HasEvents
  <2> QED
    BY <1>2, <1>3, <2>1, <2>2, <2>3 DEF EntryShape
<1>8. EntryOK(d)
  BY <1>7 DEF EntryOK, IsEmptyDataObject
<1>9. /\ Numbers(u) /\ HasEntry(u, e) /\ Entry(u, e) = d /\ OthersSame(u, w, e)
      /\ SameListeners(u, w) /\ u.expando = w.expando
      /\ DOMAIN u.cache = DOMAIN w.cache
      /\ \A i \in DOMAIN u.cache : i # w.expando[e] => u.cache[i] = w.cache[i]
  BY <1>2, <1>4, PutEntry
<1>10. Entries(u)
  BY <1>2, <1>8, <1>9 DEF Entries, Entry
<1>11. OthersSame(u, s, e)
  BY <1>2, <1>9 DEF OthersSame
<1>12. \A t \in EventType : Handlers(u, e, t).list = Handlers(s, e, t).list
  BY <1>2, <1>3, <1>7, <1>9 DEF Handlers
<1> QED
  BY <1>2, <1>9, <1>10, <1>11, <1>12, ListsOfOne DEF StoreOK, SameListeners

LEMMA WithoutDataOK ==
  ASSUME NEW s, StoreOK(s), NEW e \in Elem, NEW k, NEW u, u = WithoutData(s, e, k)
  PROVE  StoreOK(u) /\ SameLists(u, s) /\ SameListeners(u, s)
<1>1. CASE ~HasEntry(s, e)
  BY <1>1 DEF WithoutData, SameLists, SameListeners
<1>2. CASE HasEntry(s, e)
  <2>1. PICK c, d : c = Entry(s, e) /\ d = [c EXCEPT !.data = @ \ {k}]
    OBVIOUS
  <2>2. EntryOK(c) /\ \A t \in EventType : Handlers(s, e, t) = c.events[t]
    BY <1>2, <2>1, HisEntry
  <2>3. u = Shrunk(OnEntry(s, e, d), e)
    BY <1>2, <2>1 DEF WithoutData
  <2>4. PICK a, b, h : c = [data |-> a, events |-> b, handle |-> h]
    BY <2>2 DEF EntryOK, EntryShape
  <2>5. d = [data |-> a \ {k}, events |-> b, handle |-> h]
    BY <2>1, <2>4
  <2>6. EntryShape(d) /\ d.events = c.events
    <3>1. d.events = c.events /\ d.handle = c.handle
      BY <2>4, <2>5
    <3>2. d = [data |-> d.data, events |-> d.events, handle |-> d.handle]
      BY <2>5, <3>1
    <3>3. HasEvents(d) <=> HasEvents(c)
      BY <3>1 DEF HasEvents
    <3> QED
      BY <2>2, <3>1, <3>2, <3>3 DEF EntryOK, EntryShape
  <2>7. \A i \in DOMAIN s.cache : i # s.expando[e] => EntryOK(s.cache[i])
    BY DEF StoreOK, Entries
  <2>8. /\ StoreOK(u) /\ OthersSame(u, s, e) /\ SameListeners(u, s)
        /\ \A t \in EventType : Handlers(u, e, t).list = d.events[t].list
    BY <1>2, <2>3, <2>6, <2>7, ShrunkOK DEF StoreOK, Numbers
  <2> QED
    BY <2>2, <2>6, <2>8, ListsOfOne
<1> QED
  BY <1>1, <1>2

\* Only the entry counts for the numbers and entries.
ListenersOnly(w, s) ==
  /\ StoreShape(w) /\ w.cache = s.cache /\ w.expando = s.expando
  /\ w.deletedIds = s.deletedIds /\ w.guid = s.guid
  /\ Numbers(s) => Numbers(w)
  /\ \A x : (HasEntry(w, x) <=> HasEntry(s, x)) /\ Entry(w, x) = Entry(s, x)

LEMMA ListenersApart ==
  ASSUME NEW s, NEW e, NEW t, NEW w, w = SetUp(s, e, t) \/ w = TornDown(s, e, t), StoreShape(s)
  PROVE  ListenersOnly(w, s)
<1>1. PICK cache, expando, free, guid, native, attaches :
        s = [cache |-> cache, expando |-> expando, deletedIds |-> free, guid |-> guid,
             native |-> native, attaches |-> attaches]
  BY DEF StoreShape
<1>2. \E n, a : w = [cache |-> cache, expando |-> expando, deletedIds |-> free, guid |-> guid,
                     native |-> n, attaches |-> a]
  BY <1>1 DEF SetUp, TornDown
<1>3. StoreShape(w) /\ w.cache = s.cache /\ w.expando = s.expando /\ w.deletedIds = s.deletedIds /\ w.guid = s.guid
  BY <1>1, <1>2 DEF StoreShape
<1> QED
  BY <1>3 DEF ListenersOnly, Numbers, HasEntry, Entry

\* One handler more.
LEMMA WithHandlerOK ==
  ASSUME NEW s, StoreOK(s), NEW e \in Elem, NEW t \in EventType, NEW h, NEW u, u = WithHandler(s, e, t, h)
  PROVE  /\ StoreOK(u) /\ OthersSame(u, s, e)
         /\ \A r \in EventType : r # t => Handlers(u, e, r).list = Handlers(s, e, r).list
         /\ Handlers(u, e, t).list # <<>>
         /\ \A j \in 1..Len(Handlers(u, e, t).list) :
              \/ Handlers(u, e, t).list[j] = h
              \/ \E i \in 1..Len(Handlers(s, e, t).list) : Handlers(u, e, t).list[j] = Handlers(s, e, t).list[i]
         /\ IF Handlers(s, e, t).list = <<>> THEN SameListeners(u, SetUp(s, e, t)) ELSE SameListeners(u, s)
<1>1. PICK w : w = WithEntry(s, e)
  OBVIOUS
<1>2. /\ Numbers(w) /\ HasEntry(w, e) /\ OthersSame(w, s, e) /\ SameListeners(w, s)
      /\ EntryShape(Entry(w, e))
      /\ \A r \in EventType : Entry(w, e).events[r] = Handlers(s, e, r)
      /\ \A i \in DOMAIN w.cache : i # w.expando[e] => EntryOK(w.cache[i])
  BY <1>1, ForNew
<1>3. PICK hs, c : c = Entry(w, e) /\ hs = c.events[t]
  OBVIOUS
<1>4. PICK new : new = Bound(hs, h)
  OBVIOUS
<1>5. PICK v : v = IF hs.list = <<>> THEN SetUp(w, e, t) ELSE w
  OBVIOUS
<1>6. PICK d : d = [c EXCEPT !.events[t] = new, !.handle = TRUE]
  OBVIOUS
<1>7. u = OnEntry(v, e, d)
  BY <1>1, <1>3, <1>4, <1>5, <1>6, Zenon DEF WithHandler, Bound
<1>8. HandlersOK(hs) /\ hs = Handlers(s, e, t)
  BY <1>2, <1>3 DEF EntryShape
<1>9. /\ HandlersOK(new) /\ Len(new.list) = Len(hs.list) + 1
      /\ \A j \in 1..Len(new.list) : new.list[j] = h \/ \E i \in 1..Len(hs.list) : new.list[j] = hs.list[i]
  BY <1>4, <1>8, BoundOK
<1>10. new.list # <<>>
  <2>1. Len(hs.list) \in Nat
    BY <1>8, StackLen DEF HandlersOK
  <2> QED
    BY <1>9, <2>1
<1>11. PICK a, b, g : c = [data |-> a, events |-> b, handle |-> g]
  BY <1>2, <1>3 DEF EntryShape
<1>12. d = [data |-> a, events |-> [b EXCEPT ![t] = new], handle |-> TRUE]
  BY <1>6, <1>11
<1>13. b = [r \in EventType |-> b[r]] /\ \A r \in EventType : HandlersOK(b[r])
  BY <1>2, <1>3, <1>11 DEF EntryShape
<1>14. /\ d.events[t] = new
       /\ \A r \in EventType : r # t => d.events[r] = c.events[r]
       /\ d.events = [r \in EventType |-> d.events[r]] /\ d.handle = TRUE
  BY <1>11, <1>12, <1>13
<1>15. EntryOK(d)
  <2>1. d = [data |-> d.data, events |-> d.events, handle |-> d.handle]
    BY <1>12
  <2>2. HasEvents(d)
    BY <1>10, <1>14 DEF HasEvents
  <2>3. \A r \in EventType : HandlersOK(d.events[r])
    BY <1>9, <1>11, <1>13, <1>14
  <2> QED
    BY <1>14, <2>1, <2>2, <2>3 DEF EntryOK, EntryShape, IsEmptyDataObject
<1>16. /\ Numbers(v) /\ HasEntry(v, e) /\ v.cache = w.cache /\ v.expando = w.expando
       /\ \A x : (HasEntry(v, x) <=> HasEntry(w, x)) /\ Entry(v, x) = Entry(w, x)
  <2>1. CASE hs.list = <<>>
    <3>1. ListenersOnly(v, w)
      BY <1>2, <1>5, <2>1, ListenersApart DEF Numbers
    <3> QED
      BY <1>2, <3>1 DEF ListenersOnly
  <2>2. CASE hs.list # <<>>
    BY <1>2, <1>5, <2>2
  <2> QED
    BY <2>1, <2>2
<1>17. /\ Numbers(u) /\ HasEntry(u, e) /\ Entry(u, e) = d /\ OthersSame(u, v, e)
       /\ SameListeners(u, v) /\ u.expando = v.expando
       /\ DOMAIN u.cache = DOMAIN v.cache
       /\ \A i \in DOMAIN u.cache : i # v.expando[e] => u.cache[i] = v.cache[i]
  BY <1>7, <1>16, PutEntry
<1>18. Entries(u)
  BY <1>2, <1>15, <1>16, <1>17 DEF Entries, Entry
<1>19. OthersSame(u, s, e)
  <2>1. OthersSame(u, w, e)
    BY <1>16, <1>17 DEF OthersSame
  <2> QED
    BY <1>2, <2>1 DEF OthersSame
<1>20. \A r \in EventType : Handlers(u, e, r) = d.events[r]
  BY <1>17 DEF Handlers
<1>21. IF Handlers(s, e, t).list = <<>> THEN SameListeners(u, SetUp(s, e, t)) ELSE SameListeners(u, s)
  <2>1. CASE hs.list = <<>>
    <3>1. SameListeners(v, SetUp(s, e, t))
      <4>1. PICK p : p = SetUp(s, e, t)
        OBVIOUS
      <4>2. v = SetUp(w, e, t) /\ w.native = s.native /\ w.attaches = s.attaches
        BY <1>2, <1>5, <2>1 DEF SameListeners
      <4>3. StoreShape(w) /\ StoreShape(s)
        BY <1>2 DEF Numbers, StoreOK
      <4> QED
        BY <4>1, <4>2, <4>3 DEF SetUp, SameListeners, StoreShape
    <3> QED
      BY <1>8, <1>17, <2>1, <3>1 DEF SameListeners
  <2>2. CASE hs.list # <<>>
    BY <1>2, <1>5, <1>8, <1>17, <2>2 DEF SameListeners
  <2> QED
    BY <2>1, <2>2
<1> QED
  BY <1>2, <1>3, <1>8, <1>9, <1>10, <1>14, <1>17, <1>18, <1>19, <1>20, <1>21 DEF StoreOK

\* Handlers less.
LEMMA WithoutHandlersOK ==
  ASSUME NEW s, StoreOK(s), NEW e \in Elem, NEW t \in EventType, NEW fn, NEW sel, NEW ns,
         NEW u, u = WithoutHandlers(s, e, t, fn, sel, ns)
  PROVE  /\ StoreOK(u) /\ OthersSame(u, s, e)
         /\ \A r \in EventType : r # t => Handlers(u, e, r).list = Handlers(s, e, r).list
         /\ \A j \in 1..Len(Handlers(u, e, t).list) :
              \E i \in 1..Len(Handlers(s, e, t).list) :
                /\ Handlers(u, e, t).list[j] = Handlers(s, e, t).list[i]
                /\ ~Matches(Handlers(s, e, t).list[i], fn, sel, ns)
         /\ IF Handlers(s, e, t).list # <<>> /\ Handlers(u, e, t).list = <<>>
            THEN SameListeners(u, TornDown(s, e, t)) ELSE SameListeners(u, s)
         /\ \/ u.expando[e] = s.expando[e] /\ (s.expando[e] \in DOMAIN u.cache <=> s.expando[e] \in DOMAIN s.cache)
            \/ u.expando[e] = 0 /\ s.expando[e] \notin DOMAIN u.cache
<1>1. CASE ~HasEntry(s, e)
  <2>1. u = s
    BY <1>1 DEF WithoutHandlers
  <2>2. \A r \in EventType : Handlers(s, e, r).list = <<>>
    BY <1>1, NoHandlersOK DEF Handlers
  <2>3. 1..Len(<<>>) = {}
    BY StackEmpty
  <2> QED
    BY <2>1, <2>2, <2>3 DEF OthersSame, SameListeners
<1>2. CASE HasEntry(s, e)
  <2>1. PICK hs, c, left : hs = Handlers(s, e, t) /\ c = Entry(s, e) /\ left = HandlersLeft(hs, fn, sel, ns)
    OBVIOUS
  <2>2. PICK l : l = IF left.list = <<>> THEN NoHandlers ELSE left
    OBVIOUS
  <2>3. PICK d : d = [c EXCEPT !.events[t] = l]
    OBVIOUS
  <2>4. PICK v : v = IF hs.list # <<>> /\ left.list = <<>> THEN TornDown(s, e, t) ELSE s
    OBVIOUS
  <2>30. StoreShape(s) /\ Numbers(s)
    BY DEF StoreOK, Numbers
  <2>31. v = TornDown(s, e, t) \/ v = s
    BY <2>4
  <2>21. /\ Numbers(v) /\ HasEntry(v, e) /\ v.cache = s.cache /\ v.expando = s.expando
         /\ \A x : (HasEntry(v, x) <=> HasEntry(s, x)) /\ Entry(v, x) = Entry(s, x)
    <3>1. CASE v = s
      BY <1>2, <2>30, <3>1
    <3>2. CASE v = TornDown(s, e, t)
      <4>1. ListenersOnly(v, s)
        BY <2>30, <3>2, ListenersApart
      <4> QED
        BY <1>2, <2>30, <4>1 DEF ListenersOnly
    <3> QED
      BY <2>31, <3>1, <3>2
  <2>5. u = IF HasEvents(d) THEN OnEntry(v, e, d) ELSE Shrunk(OnEntry(v, e, [d EXCEPT !.handle = FALSE]), e)
    BY <1>2, <2>1, <2>2, <2>3, <2>4, Zenon DEF WithoutHandlers
  <2>6. EntryOK(c) /\ hs = c.events[t] /\ \A r \in EventType : Handlers(s, e, r) = c.events[r]
    BY <1>2, <2>1, HisEntry
  <2>7. HandlersOK(hs)
    BY <2>6 DEF EntryOK, EntryShape
  <2>8. /\ HandlersOK(left)
        /\ \A j \in 1..Len(left.list) :
             \E i \in 1..Len(hs.list) : left.list[j] = hs.list[i] /\ ~Matches(hs.list[i], fn, sel, ns)
    BY <2>1, <2>7, LeftOK
  <2>9. HandlersOK(l) /\ l.list = left.list
    BY <2>2, <2>8, NoHandlersOK
  <2>10. PICK a, b, g : c = [data |-> a, events |-> b, handle |-> g]
    BY <2>6 DEF EntryOK, EntryShape
  <2>11. d = [data |-> a, events |-> [b EXCEPT ![t] = l], handle |-> g]
    BY <2>3, <2>10
  <2>12. /\ b = [r \in EventType |-> b[r]] /\ \A r \in EventType : HandlersOK(b[r])
         /\ g \in BOOLEAN /\ (c.handle <=> HasEvents(c))
    BY <2>6, <2>10 DEF EntryOK, EntryShape
  <2>13. PICK z : z = IF HasEvents(d) THEN d ELSE [d EXCEPT !.handle = FALSE]
    OBVIOUS
  <2>14. z.events = [b EXCEPT ![t] = l] /\ z = [data |-> a, events |-> z.events, handle |-> z.handle] /\ z.data = a
    BY <2>11, <2>13
  <2>15. /\ z.events[t] = l
         /\ \A r \in EventType : r # t => z.events[r] = c.events[r]
         /\ z.events = [r \in EventType |-> z.events[r]]
    BY <2>10, <2>12, <2>14
  <2>16. \A r \in EventType : HandlersOK(z.events[r])
    BY <2>9, <2>10, <2>12, <2>15
  <2>17. HasEvents(z) <=> HasEvents(d)
    <3>1. z.events = d.events
      BY <2>11, <2>13
    <3> QED
      BY <3>1 DEF HasEvents
  <2>18. z.handle \in BOOLEAN /\ (z.handle <=> HasEvents(z))
    <3>1. CASE HasEvents(d)
      <4>1. PICK r \in EventType : d.events[r].list # <<>>
        BY <3>1 DEF HasEvents
      <4>2. \E i \in EventType : c.events[i].list # <<>>
        <5>1. CASE r # t
          BY <2>10, <2>11, <2>12, <4>1, <5>1
        <5>2. CASE r = t
          <6>1. left.list # <<>>
            BY <2>9, <2>11, <2>12, <4>1, <5>2
          <6>2. Len(left.list) \in Nat \ {0}
            BY <2>8, <6>1, StackLen DEF HandlersOK
          <6>3. 1 \in 1..Len(left.list)
            BY <6>2
          <6>4. PICK i \in 1..Len(hs.list) : TRUE
            BY <2>8, <6>3
          <6>5. hs.list # <<>>
            BY <6>4, StackEmpty
          <6> QED
            BY <2>6, <6>5
        <5> QED
          BY <5>1, <5>2
      <4>3. HasEvents(c)
        BY <4>2 DEF HasEvents
      <4>4. z = d /\ c.handle
        BY <2>12, <2>13, <3>1, <4>3
      <4>5. z.handle = g /\ c.handle = g
        BY <2>10, <2>11, <4>4
      <4> QED
        BY <2>12, <2>17, <3>1, <4>4, <4>5
    <3>2. CASE ~HasEvents(d)
      <4>1. z.handle = FALSE
        BY <2>11, <2>13, <3>2
      <4> QED
        BY <2>17, <3>2, <4>1
    <3> QED
      BY <3>1, <3>2
  <2>19. EntryShape(z)
    <3>1. z = [data |-> z.data, events |-> z.events, handle |-> z.handle]
      BY <2>14
    <3> QED
      BY <2>15, <2>16, <2>18, <3>1 DEF EntryShape
  <2>20. u = Shrunk(OnEntry(v, e, z), e)
    <3>1. CASE ~HasEvents(d)
      BY <2>5, <2>13, <3>1
    <3>2. CASE HasEvents(d)
      <4>1. u = OnEntry(v, e, z) /\ HasEvents(z)
        BY <2>5, <2>13, <2>17, <3>2
      <4>3. Entry(u, e) = z
        BY <2>21, <4>1, PutEntry
      <4>4. ~IsEmptyDataObject(z)
        BY <4>1 DEF IsEmptyDataObject
      <4> QED
        BY <4>1, <4>3, <4>4 DEF Shrunk
    <3> QED
      BY <3>1, <3>2
  <2>22. StoreShape(v) /\ \A i \in DOMAIN v.cache : i # v.expando[e] => EntryOK(v.cache[i])
    BY <2>21 DEF StoreOK, Entries, Numbers
  <2>23. /\ StoreOK(u) /\ OthersSame(u, v, e) /\ SameListeners(u, v)
         /\ \A r \in EventType : Handlers(u, e, r).list = z.events[r].list
         /\ \/ u.expando[e] = v.expando[e] /\ v.expando[e] \in DOMAIN u.cache
            \/ u.expando[e] = 0 /\ v.expando[e] \notin DOMAIN u.cache
    BY <2>19, <2>20, <2>21, <2>22, ShrunkOK
  <2>24. OthersSame(u, s, e)
    BY <2>21, <2>23 DEF OthersSame
  <2>25. Handlers(u, e, t).list = left.list
    BY <2>9, <2>15, <2>23
  <2>26. s.expando[e] \in DOMAIN s.cache
    BY <1>2 DEF HasEntry
  <2>27. IF hs.list # <<>> /\ left.list = <<>> THEN SameListeners(u, TornDown(s, e, t)) ELSE SameListeners(u, s)
    BY <2>4, <2>23
  <2>28. \A r \in EventType : r # t => Handlers(u, e, r).list = Handlers(s, e, r).list
    BY <2>6, <2>15, <2>23
  <2>29. \/ u.expando[e] = s.expando[e] /\ (s.expando[e] \in DOMAIN u.cache <=> s.expando[e] \in DOMAIN s.cache)
         \/ u.expando[e] = 0 /\ s.expando[e] \notin DOMAIN u.cache
    BY <2>21, <2>23, <2>26
  <2> QED
    BY <2>1, <2>8, <2>23, <2>24, <2>25, <2>27, <2>28, <2>29
<1> QED
  BY <1>1, <1>2

-----------------------------------------------------------------------------
(***************************************************************************)
(* Listeners and what they listen for.                                     *)
(***************************************************************************)

Wants(s, e, t) == Handlers(s, e, t).list # <<>>

\* The types an element's listener is called for, and the elements that want
\* focusin.
Heard(s) == {p \in Elem \X EventType : ~HasSetup(p[2]) /\ Wants(s, p[1], p[2])}
Wanting(s) == {e \in Elem : Wants(s, e, "focusin")}

\* bare: where the listener is gone and the handlers are not yet.
Wired(s, bare) == s.native = Heard(s) \ bare /\ s.attaches = Cardinality(Wanting(s))

\* Between one store and the next, nothing but the handlers of e for t may have
\* come or gone.
OthersWant(w, s, e, t) ==
  \A x \in Elem, r \in EventType : x # e \/ r # t => (Wants(w, x, r) <=> Wants(s, x, r))

LEMMA OnlyThere ==
  ASSUME NEW s, NEW w, NEW e \in Elem, NEW t \in EventType, OthersSame(w, s, e),
         \A r \in EventType : r # t => Handlers(w, e, r).list = Handlers(s, e, r).list
  PROVE  OthersWant(w, s, e, t)
<1>1. SameHandlers(w, s, e)
  BY OthersHandlers
<1> QED
  BY <1>1 DEF SameHandlers, OthersWant, Wants

LEMMA SameWired ==
  ASSUME NEW s, NEW w, NEW bare, Wired(s, bare), SameListeners(w, s),
         \A x \in Elem, r \in EventType : Wants(w, x, r) <=> Wants(s, x, r)
  PROVE  Wired(w, bare)
<1>1. Heard(w) = Heard(s)
  BY DEF Heard
<1>2. Wanting(w) = Wanting(s)
  BY EventsAssumption DEF Wanting
<1> QED
  BY <1>1, <1>2 DEF Wired, SameListeners

LEMMA FiniteWanting ==
  ASSUME NEW s
  PROVE  IsFiniteSet(Wanting(s)) /\ Cardinality(Wanting(s)) \in Nat
<1>1. Wanting(s) \subseteq Elem /\ IsFiniteSet(Elem)
  BY EventsAssumption DEF Wanting
<1>2. IsFiniteSet(Wanting(s))
  BY <1>1, FS_Subset
<1> QED
  BY <1>2, FS_CardinalityType

\* The first handler.
LEMMA SetUpWired ==
  ASSUME NEW s, StoreShape(s), NEW w, NEW bare, Wired(s, bare), NEW e \in Elem, NEW t \in EventType,
         <<e, t>> \notin bare, SameListeners(w, SetUp(s, e, t)), OthersWant(w, s, e, t),
         ~Wants(s, e, t), Wants(w, e, t)
  PROVE  Wired(w, bare)
<1>1. CASE HasSetup(t)
  <2>1. w.native = s.native /\ w.attaches = s.attaches + 1
    BY <1>1 DEF SameListeners, SetUp, StoreShape
  <2>2. t = "focusin"
    BY <1>1 DEF HasSetup
  <2>3. Heard(w) = Heard(s)
    BY <2>2 DEF Heard, HasSetup, OthersWant
  <2>4. e \notin Wanting(s) /\ Wanting(w) = Wanting(s) \union {e}
    BY <2>2, EventsAssumption DEF Wanting, OthersWant
  <2>5. Cardinality(Wanting(w)) = Cardinality(Wanting(s)) + 1
    BY <2>4, FiniteWanting, FS_AddElement
  <2> QED
    BY <2>1, <2>3, <2>5 DEF Wired
<1>2. CASE ~HasSetup(t)
  <2>1. w.native = s.native \union {<<e, t>>} /\ w.attaches = s.attaches
    BY <1>2 DEF SameListeners, SetUp, StoreShape
  <2>2. t # "focusin"
    BY <1>2 DEF HasSetup
  <2>3. Heard(w) = Heard(s) \union {<<e, t>>}
    <3>1. ASSUME NEW x \in Elem, NEW r \in EventType
          PROVE  <<x, r>> \in Heard(w) <=> <<x, r>> \in Heard(s) \union {<<e, t>>}
      <4>1. CASE x = e /\ r = t
        BY <1>2, <4>1 DEF Heard
      <4>2. CASE x # e \/ r # t
        BY <4>2 DEF Heard, OthersWant
      <4> QED
        BY <4>1, <4>2
    <3>2. Heard(w) \subseteq Elem \X EventType /\ Heard(s) \subseteq Elem \X EventType
      BY DEF Heard
    <3> QED
      BY <3>1, <3>2
  <2>4. Wanting(w) = Wanting(s)
    BY <2>2, EventsAssumption DEF Wanting, OthersWant
  <2> QED
    BY <2>1, <2>3, <2>4 DEF Wired
<1> QED
  BY <1>1, <1>2

\* The last handler.
LEMMA TornDownWired ==
  ASSUME NEW s, StoreShape(s), NEW w, NEW bare, Wired(s, bare), NEW e \in Elem, NEW t \in EventType,
         SameListeners(w, TornDown(s, e, t)), OthersWant(w, s, e, t),
         Wants(s, e, t), ~Wants(w, e, t)
  PROVE  Wired(w, bare)
<1>1. CASE HasSetup(t)
  <2>1. w.native = s.native /\ w.attaches = s.attaches - 1
    BY <1>1 DEF SameListeners, TornDown, StoreShape
  <2>2. t = "focusin"
    BY <1>1 DEF HasSetup
  <2>3. Heard(w) = Heard(s)
    BY <2>2 DEF Heard, HasSetup, OthersWant
  <2>4. e \in Wanting(s) /\ Wanting(w) = Wanting(s) \ {e}
    BY <2>2, EventsAssumption DEF Wanting, OthersWant
  <2>5. Cardinality(Wanting(w)) = Cardinality(Wanting(s)) - 1
    BY <2>4, FiniteWanting, FS_RemoveElement
  <2> QED
    BY <2>1, <2>3, <2>5 DEF Wired
<1>2. CASE ~HasSetup(t)
  <2>1. w.native = s.native \ {<<e, t>>} /\ w.attaches = s.attaches
    BY <1>2 DEF SameListeners, TornDown, StoreShape
  <2>2. t # "focusin"
    BY <1>2 DEF HasSetup
  <2>3. Heard(w) = Heard(s) \ {<<e, t>>}
    <3>1. ASSUME NEW x \in Elem, NEW r \in EventType
          PROVE  <<x, r>> \in Heard(w) <=> <<x, r>> \in Heard(s) \ {<<e, t>>}
      <4>1. CASE x = e /\ r = t
        BY <1>2, <4>1 DEF Heard
      <4>2. CASE x # e \/ r # t
        BY <4>2 DEF Heard, OthersWant
      <4> QED
        BY <4>1, <4>2
    <3>2. Heard(w) \subseteq Elem \X EventType /\ Heard(s) \subseteq Elem \X EventType
      BY DEF Heard
    <3> QED
      BY <3>1, <3>2
  <2>4. Wanting(w) = Wanting(s)
    BY <2>2, EventsAssumption DEF Wanting, OthersWant
  <2> QED
    BY <2>1, <2>3, <2>4 DEF Wired
<1> QED
  BY <1>1, <1>2

-----------------------------------------------------------------------------
(***************************************************************************)
(* What the operations on the store keep.                                  *)
(***************************************************************************)

\* No handler that is gone is in a list.
OneOut(s, out) ==
  \A x \in Elem, t \in EventType : \A j \in 1..Len(Handlers(s, x, t).list) :
    [elem |-> x, type |-> t, h |-> Handlers(s, x, t).list[j]] \notin out

\* Whatever is in a list was in it before.
NoneNew(w, s) ==
  \A x \in Elem, t \in EventType : \A j \in 1..Len(Handlers(w, x, t).list) :
    \E i \in 1..Len(Handlers(s, x, t).list) : Handlers(w, x, t).list[j] = Handlers(s, x, t).list[i]

LEMMA NoneNewOut ==
  ASSUME NEW s, NEW w, NoneNew(w, s), NEW out, OneOut(s, out)
  PROVE  OneOut(w, out)
<1> SUFFICES ASSUME NEW x \in Elem, NEW t \in EventType, NEW j \in 1..Len(Handlers(w, x, t).list)
             PROVE  [elem |-> x, type |-> t, h |-> Handlers(w, x, t).list[j]] \notin out
  BY DEF OneOut
<1>1. PICK i \in 1..Len(Handlers(s, x, t).list) : Handlers(w, x, t).list[j] = Handlers(s, x, t).list[i]
  BY DEF NoneNew
<1> QED
  BY <1>1 DEF OneOut

\* Data comes and goes.
LEMMA DataKept ==
  ASSUME NEW s, NEW w, SameLists(w, s), SameListeners(w, s)
  PROVE  /\ \A bare : Wired(s, bare) => Wired(w, bare)
         /\ \A out : OneOut(s, out) => OneOut(w, out)
<1>1. \A x \in Elem, r \in EventType : Wants(w, x, r) <=> Wants(s, x, r)
  BY DEF SameLists, Wants
<1>2. NoneNew(w, s)
  BY DEF SameLists, NoneNew
<1> QED
  BY <1>1, <1>2, SameWired, NoneNewOut

\* A handler is bound.
LEMMA BindKept ==
  ASSUME NEW s, StoreOK(s), Wired(s, {}), NEW e \in Elem, NEW t \in EventType, NEW h,
         NEW out, OneOut(s, out), NEW w, w = WithHandler(s, e, t, h)
  PROVE  StoreOK(w) /\ Wired(w, {}) /\ OneOut(w, out \ {[elem |-> e, type |-> t, h |-> h]})
<1>1. /\ StoreOK(w) /\ OthersSame(w, s, e)
      /\ \A r \in EventType : r # t => Handlers(w, e, r).list = Handlers(s, e, r).list
      /\ Handlers(w, e, t).list # <<>>
      /\ \A j \in 1..Len(Handlers(w, e, t).list) :
           \/ Handlers(w, e, t).list[j] = h
           \/ \E i \in 1..Len(Handlers(s, e, t).list) : Handlers(w, e, t).list[j] = Handlers(s, e, t).list[i]
      /\ IF Handlers(s, e, t).list = <<>> THEN SameListeners(w, SetUp(s, e, t)) ELSE SameListeners(w, s)
  BY WithHandlerOK
<1>2. OthersWant(w, s, e, t)
  BY <1>1, OnlyThere
<1>3. SameHandlers(w, s, e)
  BY <1>1, OthersHandlers
<1>4. Wired(w, {})
  <2>1. CASE Wants(s, e, t)
    <3>1. SameListeners(w, s) /\ Wants(w, e, t)
      BY <1>1, <2>1 DEF Wants
    <3>2. \A x \in Elem, r \in EventType : Wants(w, x, r) <=> Wants(s, x, r)
      BY <1>2, <2>1, <3>1 DEF OthersWant
    <3> QED
      BY <3>1, <3>2, SameWired
  <2>2. CASE ~Wants(s, e, t)
    <3>1. SameListeners(w, SetUp(s, e, t)) /\ Wants(w, e, t)
      BY <1>1, <2>2 DEF Wants
    <3>2. StoreShape(s)
      BY DEF StoreOK, Numbers
    <3>3. <<e, t>> \notin {}
      OBVIOUS
    <3> QED
      BY <1>2, <2>2, <3>1, <3>2, <3>3, SetUpWired
  <2> QED
    BY <2>1, <2>2
<1>5. ASSUME NEW x \in Elem, NEW r \in EventType, NEW j \in 1..Len(Handlers(w, x, r).list)
      PROVE  [elem |-> x, type |-> r, h |-> Handlers(w, x, r).list[j]]
               \notin out \ {[elem |-> e, type |-> t, h |-> h]}
  <2>1. CASE x = e /\ r = t
    <3>1. CASE Handlers(w, e, t).list[j] = h
      BY <2>1, <3>1
    <3>2. CASE \E i \in 1..Len(Handlers(s, e, t).list) : Handlers(w, e, t).list[j] = Handlers(s, e, t).list[i]
      BY <2>1, <3>2 DEF OneOut
    <3> QED
      BY <1>1, <1>5, <2>1, <3>1, <3>2
  <2>2. CASE ~(x = e /\ r = t)
    <3>1. Handlers(w, x, r).list = Handlers(s, x, r).list
      BY <1>1, <1>3, <2>2 DEF SameHandlers
    <3> QED
      BY <3>1 DEF OneOut
  <2> QED
    BY <2>1, <2>2
<1> QED
  BY <1>1, <1>4, <1>5 DEF OneOut

\* Handlers are unbound, and none that matches is left.
LEMMA UnbindKept ==
  ASSUME NEW s, StoreOK(s), NEW bare, Wired(s, bare), NEW e \in Elem, NEW t \in EventType,
         NEW fn, NEW sel, NEW ns, NEW out, OneOut(s, out), NEW w, w = WithoutHandlers(s, e, t, fn, sel, ns)
  PROVE  /\ StoreOK(w) /\ Wired(w, bare) /\ OneOut(w, out) /\ OthersWant(w, s, e, t)
         /\ \A j \in 1..Len(Handlers(w, e, t).list) : ~Matches(Handlers(w, e, t).list[j], fn, sel, ns)
         /\ \/ w.expando[e] = s.expando[e] /\ (s.expando[e] \in DOMAIN w.cache <=> s.expando[e] \in DOMAIN s.cache)
            \/ w.expando[e] = 0 /\ s.expando[e] \notin DOMAIN w.cache
<1>1. /\ StoreOK(w) /\ OthersSame(w, s, e)
      /\ \A r \in EventType : r # t => Handlers(w, e, r).list = Handlers(s, e, r).list
      /\ \A j \in 1..Len(Handlers(w, e, t).list) :
           \E i \in 1..Len(Handlers(s, e, t).list) :
             /\ Handlers(w, e, t).list[j] = Handlers(s, e, t).list[i]
             /\ ~Matches(Handlers(s, e, t).list[i], fn, sel, ns)
      /\ IF Handlers(s, e, t).list # <<>> /\ Handlers(w, e, t).list = <<>>
         THEN SameListeners(w, TornDown(s, e, t)) ELSE SameListeners(w, s)
      /\ \/ w.expando[e] = s.expando[e] /\ (s.expando[e] \in DOMAIN w.cache <=> s.expando[e] \in DOMAIN s.cache)
         \/ w.expando[e] = 0 /\ s.expando[e] \notin DOMAIN w.cache
  BY WithoutHandlersOK
<1>2. OthersWant(w, s, e, t)
  BY <1>1, OnlyThere
<1>3. SameHandlers(w, s, e)
  BY <1>1, OthersHandlers
<1>4. Wants(w, e, t) => Wants(s, e, t)
  <2> SUFFICES ASSUME Wants(w, e, t)
               PROVE  Wants(s, e, t)
    OBVIOUS
  <2>1. PICK l : l = Handlers(w, e, t).list
    OBVIOUS
  <2>2. Stack(l) /\ l # <<>>
    BY <1>1, <2>1, TheirHandlers DEF HandlersOK, Wants
  <2>3. 1 \in 1..Len(l)
    BY <2>2, StackLen
  <2>4. PICK i \in 1..Len(Handlers(s, e, t).list) : TRUE
    BY <1>1, <2>1, <2>3
  <2> QED
    BY <2>4, StackEmpty DEF Wants
<1>5. Wired(w, bare)
  <2>1. CASE Wants(s, e, t) /\ ~Wants(w, e, t)
    <3>1. SameListeners(w, TornDown(s, e, t))
      BY <1>1, <2>1 DEF Wants
    <3>2. StoreShape(s)
      BY DEF StoreOK, Numbers
    <3> QED
      BY <1>2, <2>1, <3>1, <3>2, TornDownWired
  <2>2. CASE ~(Wants(s, e, t) /\ ~Wants(w, e, t))
    <3>1. SameListeners(w, s)
      BY <1>1, <2>2 DEF Wants
    <3>2. \A x \in Elem, r \in EventType : Wants(w, x, r) <=> Wants(s, x, r)
      BY <1>2, <1>4, <2>2 DEF OthersWant
    <3> QED
      BY <3>1, <3>2, SameWired
  <2> QED
    BY <2>1, <2>2
<1>6. NoneNew(w, s)
  <2> SUFFICES ASSUME NEW x \in Elem, NEW r \in EventType, NEW j \in 1..Len(Handlers(w, x, r).list)
               PROVE  \E i \in 1..Len(Handlers(s, x, r).list) : Handlers(w, x, r).list[j] = Handlers(s, x, r).list[i]
    BY DEF NoneNew
  <2>1. CASE x = e /\ r = t
    BY <1>1, <2>1
  <2>2. CASE ~(x = e /\ r = t)
    <3>1. Handlers(w, x, r).list = Handlers(s, x, r).list
      BY <1>1, <1>3, <2>2 DEF SameHandlers
    <3> QED
      BY <3>1
  <2> QED
    BY <2>1, <2>2
<1>7. \A j \in 1..Len(Handlers(w, e, t).list) : ~Matches(Handlers(w, e, t).list[j], fn, sel, ns)
  BY <1>1
<1> QED
  BY <1>1, <1>2, <1>5, <1>6, <1>7, NoneNewOut

\* The wrapper of one() leaves nothing of what it wraps.
LEMMA SpentKept ==
  ASSUME NEW s, StoreOK(s), NEW bare, Wired(s, bare), NEW e \in Elem, NEW t \in EventType, NEW h,
         NEW out, OneOut(s, out), NEW w, w = WithoutHandlers(s, e, t, h.fn, h.sel, h.ns)
  PROVE  StoreOK(w) /\ Wired(w, bare) /\ OneOut(w, out \union {[elem |-> e, type |-> t, h |-> h]})
<1>1. /\ StoreOK(w) /\ Wired(w, bare) /\ OneOut(w, out)
      /\ \A j \in 1..Len(Handlers(w, e, t).list) : ~Matches(Handlers(w, e, t).list[j], h.fn, h.sel, h.ns)
  BY UnbindKept
<1>2. ASSUME NEW x \in Elem, NEW r \in EventType, NEW j \in 1..Len(Handlers(w, x, r).list)
      PROVE  [elem |-> x, type |-> r, h |-> Handlers(w, x, r).list[j]]
               \notin out \union {[elem |-> e, type |-> t, h |-> h]}
  <2>1. PICK k : k = Handlers(w, x, r).list[j]
    OBVIOUS
  <2>2. [elem |-> x, type |-> r, h |-> k] \notin out
    BY <1>1, <2>1 DEF OneOut
  <2>3. [elem |-> x, type |-> r, h |-> k] # [elem |-> e, type |-> t, h |-> h]
    <3> SUFFICES ASSUME [elem |-> x, type |-> r, h |-> k] = [elem |-> e, type |-> t, h |-> h]
                 PROVE  FALSE
      OBVIOUS
    <3>1. x = e /\ r = t /\ k = h
      OBVIOUS
    <3>2. ~Matches(k, h.fn, h.sel, h.ns)
      BY <1>1, <2>1, <3>1
    <3> QED
      BY <3>1, <3>2 DEF Matches
  <2> QED
    BY <2>1, <2>2, <2>3
<1> QED
  BY <1>1, <1>2 DEF OneOut

-----------------------------------------------------------------------------
(***************************************************************************)
(* cleanData of an element, type by type.                                  *)
(***************************************************************************)

BareOf(e, types) == {<<e, r>> : r \in EventType \ types}

\* What the element had is there still, or went with the last of its handlers;
\* the special types that are done have none.
CleanedSoFar(s, e, id, types) ==
  /\ \/ s.expando[e] = id /\ id \in DOMAIN s.cache
     \/ s.expando[e] = 0 /\ id \notin DOMAIN s.cache
  /\ \A r \in EventType \ types : IsSpecial(r) => ~Wants(s, e, r)

LEMMA CleanBegins ==
  ASSUME NEW s, StoreOK(s), Wired(s, {}), NEW e \in Elem, HasEntry(s, e),
         NEW types, types = {t \in EventType : Handlers(s, e, t).list # <<>>}
  PROVE  CleanedSoFar(s, e, s.expando[e], types) /\ Wired(s, BareOf(e, types)) /\ types \subseteq EventType
<1>1. \A r \in EventType \ types : ~Wants(s, e, r)
  BY DEF Wants
<1>2. CleanedSoFar(s, e, s.expando[e], types)
  BY <1>1 DEF CleanedSoFar, HasEntry
<1>3. Heard(s) \ BareOf(e, types) = Heard(s)
  <2> SUFFICES ASSUME NEW p \in Heard(s)
               PROVE  p \notin BareOf(e, types)
    OBVIOUS
  <2>1. Wants(s, p[1], p[2])
    BY DEF Heard
  <2> QED
    BY <1>1, <2>1 DEF BareOf
<1> QED
  BY <1>2, <1>3 DEF Wired

LEMMA CleanTypeKept ==
  ASSUME NEW s, StoreOK(s), NEW e \in Elem, NEW id, NEW types \in SUBSET EventType, NEW t \in types,
         CleanedSoFar(s, e, id, types), Wired(s, BareOf(e, types)), NEW out, OneOut(s, out),
         NEW w, w = CleanedType(s, e, t)
  PROVE  /\ StoreOK(w) /\ CleanedSoFar(w, e, id, types \ {t}) /\ Wired(w, BareOf(e, types \ {t}))
         /\ OneOut(w, out)
<1>0. t \in EventType /\ \A r \in EventType \ (types \ {t}) : r = t \/ r \in EventType \ types
  OBVIOUS
<1>1. BareOf(e, types \ {t}) = BareOf(e, types) \union {<<e, t>>}
  BY <1>0 DEF BareOf
<1>2. CASE IsSpecial(t)
  <2>1. w = WithoutHandlers(s, e, t, Nothing, Nothing, "")
    BY <1>2 DEF CleanedType
  <2>2. /\ StoreOK(w) /\ Wired(w, BareOf(e, types)) /\ OneOut(w, out) /\ OthersWant(w, s, e, t)
        /\ \A j \in 1..Len(Handlers(w, e, t).list) : ~Matches(Handlers(w, e, t).list[j], Nothing, Nothing, "")
        /\ \/ w.expando[e] = s.expando[e] /\ (s.expando[e] \in DOMAIN w.cache <=> s.expando[e] \in DOMAIN s.cache)
           \/ w.expando[e] = 0 /\ s.expando[e] \notin DOMAIN w.cache
    <3>1. PICK any, ns, bare : any = Nothing /\ ns = "" /\ bare = BareOf(e, types)
      OBVIOUS
    <3>2. w = WithoutHandlers(s, e, t, any, any, ns) /\ Wired(s, bare)
      BY <2>1, <3>1
    <3>3. /\ StoreOK(w) /\ Wired(w, bare) /\ OneOut(w, out) /\ OthersWant(w, s, e, t)
          /\ \A j \in 1..Len(Handlers(w, e, t).list) : ~Matches(Handlers(w, e, t).list[j], any, any, ns)
          /\ \/ w.expando[e] = s.expando[e] /\ (s.expando[e] \in DOMAIN w.cache <=> s.expando[e] \in DOMAIN s.cache)
             \/ w.expando[e] = 0 /\ s.expando[e] \notin DOMAIN w.cache
      BY <1>0, <3>2, UnbindKept, SMTT(60)
    <3> QED
      BY <3>1, <3>3
  <2>3. ~Wants(w, e, t)
    <3>1. PICK l : l = Handlers(w, e, t).list
      OBVIOUS
    <3>2. Stack(l)
      BY <1>0, <2>2, <3>1, TheirHandlers DEF HandlersOK
    <3>3. 1..Len(l) = {}
      BY <2>2, <3>1 DEF Matches
    <3>4. l = <<>>
      BY <3>2, <3>3, StackLen
    <3> QED
      BY <3>1, <3>4 DEF Wants
  <2>4. Heard(w) \ BareOf(e, types \ {t}) = Heard(w) \ BareOf(e, types)
    <3>1. <<e, t>> \notin Heard(w)
      BY <2>3 DEF Heard
    <3> QED
      BY <1>1, <3>1
  <2>5. Wired(w, BareOf(e, types \ {t}))
    BY <2>2, <2>4 DEF Wired
  <2>6. \A r \in EventType \ (types \ {t}) : IsSpecial(r) => ~Wants(w, e, r)
    <3> SUFFICES ASSUME NEW r \in EventType, r \notin types, r # t, IsSpecial(r)
                 PROVE  ~Wants(w, e, r)
      BY <1>0, <2>3
    <3>1. ~Wants(s, e, r)
      BY DEF CleanedSoFar
    <3> QED
      BY <2>2, <3>1 DEF OthersWant
  <2>7. \/ w.expando[e] = id /\ id \in DOMAIN w.cache
        \/ w.expando[e] = 0 /\ id \notin DOMAIN w.cache
    <3>1. CASE s.expando[e] = id /\ id \in DOMAIN s.cache
      BY <2>2, <3>1
    <3>2. CASE s.expando[e] = 0 /\ id \notin DOMAIN s.cache
      <4>1. ~HasEntry(s, e)
        BY <3>2, HasNumber DEF StoreOK
      <4>2. w = s
        BY <2>1, <4>1 DEF WithoutHandlers
      <4> QED
        BY <3>2, <4>2
    <3> QED
      BY <3>1, <3>2 DEF CleanedSoFar
  <2> QED
    BY <2>2, <2>5, <2>6, <2>7 DEF CleanedSoFar
<1>3. CASE ~IsSpecial(t)
  <2>1. w = [s EXCEPT !.native = @ \ {<<e, t>>}]
    BY <1>3 DEF CleanedType
  <2>2. /\ w.cache = s.cache /\ w.expando = s.expando /\ w.deletedIds = s.deletedIds /\ w.guid = s.guid
        /\ w.native = s.native \ {<<e, t>>} /\ w.attaches = s.attaches /\ StoreShape(w)
    <3>1. StoreShape(s)
      BY DEF StoreOK, Numbers
    <3> QED
      BY <2>1, <3>1 DEF StoreShape
  <2>3. StoreOK(w)
    BY <2>2 DEF StoreOK, Numbers, Entries
  <2>4. \A x, r : Handlers(w, x, r) = Handlers(s, x, r)
    BY <2>2 DEF Handlers, HasEntry, Entry
  <2>5. \A x, r : Wants(w, x, r) <=> Wants(s, x, r)
    BY <2>4 DEF Wants
  <2>6. Heard(w) = Heard(s) /\ Wanting(w) = Wanting(s)
    BY <2>5 DEF Heard, Wanting
  <2>7. Wired(w, BareOf(e, types \ {t}))
    BY <1>1, <2>2, <2>6 DEF Wired
  <2>8. OneOut(w, out)
    BY <2>4 DEF OneOut
  <2>9. CleanedSoFar(w, e, id, types \ {t})
    BY <1>0, <1>3, <2>2, <2>5 DEF CleanedSoFar
  <2> QED
    BY <2>3, <2>7, <2>8, <2>9
<1> QED
  BY <1>2, <1>3

LEMMA CleanEntryKept ==
  ASSUME NEW s, StoreOK(s), NEW e \in Elem, NEW id, CleanedSoFar(s, e, id, {}), Wired(s, BareOf(e, {})),
         NEW out, OneOut(s, out), NEW w, w = CleanedEntry(s, e, id)
  PROVE  StoreOK(w) /\ Wired(w, {}) /\ OneOut(w, out)
<1>1. CASE s.expando[e] = 0 /\ id \notin DOMAIN s.cache
  <2>1. w = s
    BY <1>1 DEF CleanedEntry
  <2>2. ~HasEntry(s, e)
    BY <1>1, HasNumber DEF StoreOK
  <2>3. \A r \in EventType : ~Wants(s, e, r)
    BY <2>2, NoHandlersOK DEF Wants, Handlers
  <2>4. Heard(s) \ BareOf(e, {}) = Heard(s) \ {}
    BY <2>3 DEF Heard, BareOf
  <2> QED
    BY <2>1, <2>4 DEF Wired
<1>2. CASE s.expando[e] = id /\ id \in DOMAIN s.cache
  <2>1. w = WithoutEntry(s, e, s.expando[e]) /\ HasEntry(s, e)
    BY <1>2 DEF CleanedEntry, HasEntry
  <2>2. /\ Numbers(w) /\ ~HasEntry(w, e) /\ OthersSame(w, s, e)
        /\ SameListeners(w, s)
        /\ DOMAIN w.cache = DOMAIN s.cache \ {s.expando[e]}
        /\ \A i \in DOMAIN w.cache : w.cache[i] = s.cache[i]
    BY <2>1, DropEntry DEF StoreOK
  <2>3. StoreOK(w)
    BY <2>2 DEF StoreOK, Entries
  <2>4. SameHandlers(w, s, e)
    BY <2>2, OthersHandlers
  <2>5. \A r \in EventType : ~Wants(w, e, r)
    BY <2>2, NoHandlersOK DEF Wants, Handlers
  <2>6. \A x \in Elem, r \in EventType : x # e => (Wants(w, x, r) <=> Wants(s, x, r))
    BY <2>4 DEF SameHandlers, Wants
  <2>7. Heard(w) = Heard(s) \ BareOf(e, {})
    <3>1. ASSUME NEW x \in Elem, NEW r \in EventType
          PROVE  <<x, r>> \in Heard(w) <=> <<x, r>> \in Heard(s) \ BareOf(e, {})
      <4>1. <<x, r>> \in BareOf(e, {}) <=> x = e
        BY DEF BareOf
      <4>2. CASE x = e
        BY <2>5, <4>1, <4>2 DEF Heard
      <4>3. CASE x # e
        BY <2>6, <4>1, <4>3 DEF Heard
      <4> QED
        BY <4>2, <4>3
    <3>2. Heard(w) \subseteq Elem \X EventType /\ Heard(s) \subseteq Elem \X EventType
      BY DEF Heard
    <3> QED
      BY <3>1, <3>2
  <2>8. Wanting(w) = Wanting(s)
    <3>1. "focusin" \in EventType
      BY EventsAssumption
    <3>2. ~Wants(s, e, "focusin")
      BY <3>1 DEF CleanedSoFar, IsSpecial
    <3> QED
      BY <2>5, <2>6, <3>1, <3>2 DEF Wanting
  <2>9. Wired(w, {})
    <3>1. Heard(w) \ {} = Heard(s) \ BareOf(e, {})
      BY <2>7
    <3> QED
      BY <2>2, <2>8, <3>1 DEF Wired, SameListeners
  <2>10. NoneNew(w, s)
    <3> SUFFICES ASSUME NEW x \in Elem, NEW r \in EventType, NEW j \in 1..Len(Handlers(w, x, r).list)
                 PROVE  \E i \in 1..Len(Handlers(s, x, r).list) : Handlers(w, x, r).list[j] = Handlers(s, x, r).list[i]
      BY DEF NoneNew
    <3>1. CASE x = e
      BY <2>5, <3>1, StackEmpty DEF Wants
    <3>2. CASE x # e
      BY <2>4, <3>2 DEF SameHandlers
    <3> QED
      BY <3>1, <3>2
  <2> QED
    BY <2>3, <2>9, <2>10, NoneNewOut
<1> QED
  BY <1>1, <1>2 DEF CleanedSoFar

-----------------------------------------------------------------------------
(***************************************************************************)
(* The way up from an element.                                             *)
(***************************************************************************)

\* The function PathFrom is written with.
UpStep(g, n) ==
  [x \in Elem |-> IF n = 0 \/ parent[x] \notin Elem THEN <<x>> ELSE <<x>> \o g[n - 1][parent[x]]]

UpBy(g, m) == g = [n \in 0..m |-> UpStep(g, n)]

LEMMA UpStepSame ==
  ASSUME NEW g, NEW f, NEW n, n # 0 => f[n - 1] = g[n - 1]
  PROVE  UpStep(f, n) = UpStep(g, n)
<1>1. CASE n = 0
  BY <1>1 DEF UpStep
<1>2. CASE n # 0
  BY <1>2, Zenon DEF UpStep
<1> QED
  BY <1>1, <1>2

LEMMA HasUp ==
  ASSUME NEW N \in Nat
  PROVE  \E g : UpBy(g, N)
<1> DEFINE Fails == {m \in Nat : ~\E g : UpBy(g, m)}
<1>1. SUFFICES ASSUME Fails # {} PROVE FALSE
  OBVIOUS
<1>2. PICK m \in Fails : \A u \in Fails : m <= u
  <2>1. Fails \in SUBSET Nat
    OBVIOUS
  <2>2. PICK F : F = Fails
    OBVIOUS
  <2>3. \E m \in F : \A u \in F : m <= u
    BY <1>1, <2>1, <2>2, HasFirst
  <2> QED
    BY <2>2, <2>3
<1>3. CASE m = 0
  <2>1. PICK g : g = [n \in 0..0 |-> UpStep(<<>>, n)]
    OBVIOUS
  <2>2. \A n \in 0..0 : UpStep(<<>>, n) = UpStep(g, n)
    <3>1. \A n \in 0..0 : n = 0
      OBVIOUS
    <3> QED
      BY <3>1, UpStepSame
  <2>3. UpBy(g, 0)
    BY <2>1, <2>2 DEF UpBy
  <2> QED
    BY <1>3, <2>3
<1>4. CASE m # 0
  <2>0. m \in Nat /\ m - 1 \in Nat /\ ~(m <= m - 1)
    BY <1>4
  <2>1. m - 1 \notin Fails
    BY <1>2, <2>0
  <2>2. PICK g : UpBy(g, m - 1)
    BY <2>0, <2>1
  <2>3. PICK h : h = [n \in 0..m |-> IF n = m THEN UpStep(g, m) ELSE g[n]]
    OBVIOUS
  <2>4. \A n \in 0..m : h[n] = UpStep(h, n)
    <3> SUFFICES ASSUME NEW n \in 0..m
                 PROVE  h[n] = UpStep(h, n)
      OBVIOUS
    <3>1. CASE n = m
      <4>1. m - 1 \in 0..m /\ m - 1 # m
        BY <2>0
      <4>2. h[m] = UpStep(g, m) /\ h[m - 1] = g[m - 1]
        BY <2>3, <3>1, <4>1
      <4> QED
        BY <3>1, <4>2, UpStepSame
    <3>2. CASE n # m
      <4>1. n \in 0..m - 1 /\ (n # 0 => n - 1 \in 0..m /\ n - 1 # m)
        BY <2>0, <3>2
      <4>2. h[n] = g[n] /\ (n # 0 => h[n - 1] = g[n - 1])
        BY <2>3, <3>2, <4>1
      <4>3. g[n] = UpStep(g, n)
        BY <2>2, <4>1, Zenon DEF UpBy
      <4> QED
        BY <4>2, <4>3, UpStepSame
    <3> QED
      BY <3>1, <3>2
  <2>5. UpBy(h, m)
    <3>1. h = [n \in 0..m |-> h[n]]
      BY <2>3
    <3> QED
      BY <2>4, <3>1 DEF UpBy
  <2> QED
    BY <1>2, <2>5
<1> QED
  BY <1>3, <1>4

\* There are no elements but those of the page on it.
LEMMA PathIsOfElements ==
  ASSUME NEW e \in Elem
  PROVE  PathFrom(e) \in Seq(Elem)
<1>1. PICK N : N = Cardinality(Elem) /\ N \in Nat
  BY EventsAssumption, FS_CardinalityType
<1>2. PICK up : UpBy(up, N) /\ PathFrom(e) = up[N][e]
  <2> DEFINE K == CHOOSE g : UpBy(g, Cardinality(Elem))
  <2>1. \E g : UpBy(g, Cardinality(Elem))
    BY <1>1, HasUp
  <2>2. PathFrom(e) = K[Cardinality(Elem)][e]
    BY Zenon DEF PathFrom, UpBy, UpStep
  <2>3. UpBy(K, Cardinality(Elem))
    BY <2>1, Zenon
  <2> QED
    BY <1>1, <2>2, <2>3, Zenon
<1>3. \A n \in 0..N : up[n] = UpStep(up, n)
  BY <1>2, Zenon DEF UpBy
<1>4. \A n \in 0..N : \A x \in Elem : up[n][x] \in Seq(Elem)
  <2> DEFINE Fails == {n \in 0..N : ~\A x \in Elem : up[n][x] \in Seq(Elem)}
  <2>1. SUFFICES ASSUME Fails # {} PROVE FALSE
    OBVIOUS
  <2>2. PICK n \in Fails : \A u \in Fails : n <= u
    <3>1. Fails \in SUBSET Nat
      BY <1>1
    <3>2. PICK F : F = Fails
      OBVIOUS
    <3>3. \E n \in F : \A u \in F : n <= u
      BY <2>1, <3>1, <3>2, HasFirst
    <3> QED
      BY <3>2, <3>3
  <2>3. PICK x \in Elem : up[n][x] \notin Seq(Elem)
    OBVIOUS
  <2>4. up[n][x] = IF n = 0 \/ parent[x] \notin Elem THEN <<x>> ELSE <<x>> \o up[n - 1][parent[x]]
    BY <1>3 DEF UpStep
  <2>5. <<x>> \in Seq(Elem)
    OBVIOUS
  <2>6. n # 0 /\ parent[x] \in Elem
    BY <2>3, <2>4, <2>5
  <2>7. n - 1 \in 0..N /\ ~(n <= n - 1)
    BY <1>1, <2>6
  <2>8. up[n - 1][parent[x]] \in Seq(Elem)
    BY <2>2, <2>6, <2>7
  <2>9. <<x>> \o up[n - 1][parent[x]] \in Seq(Elem)
    BY <2>5, <2>8
  <2> QED
    BY <2>3, <2>4, <2>6, <2>9
<1>5. N \in 0..N
  BY <1>1
<1> QED
  BY <1>2, <1>4, <1>5

-----------------------------------------------------------------------------
(***************************************************************************)
(* The call stack.                                                         *)
(***************************************************************************)

EventShape(x) ==
  /\ x = [f |-> "event", by |-> x.by, elem |-> x.elem, type |-> x.type, only |-> x.only, path |-> x.path,
          stopped |-> x.stopped, immediate |-> x.immediate, prevented |-> x.prevented, pc |-> x.pc]
  /\ x.elem \in Elem /\ x.type \in EventType /\ x.path \in Seq(Elem)
DispatchShape(x) == x = [f |-> "dispatch", at |-> x.at, groups |-> x.groups] /\ x.at \in Elem
HandlerShape(x) == x = [f |-> "fn", h |-> x.h]
CleanShape(x) ==
  /\ x = [f |-> "clean", root |-> x.root, left |-> x.left, pc |-> x.pc, at |-> x.at, id |-> x.id,
          types |-> x.types]
  /\ x.left \subseteq Elem /\ x.at \in Elem /\ x.types \subseteq EventType

Shaped(x) == EventShape(x) \/ DispatchShape(x) \/ HandlerShape(x) \/ CleanShape(x)

\* A triggered event whose native method runs, and an event of the browser.
NativeRuns(x) == x.f = "event" /\ x.pc = "called"
OfBrowser(x) == x.f = "event" /\ x.by = "user"

\* A native method has an event of the browser right above it, a dispatch its
\* event right below it, and a cleaning nothing above it.
Over(x, y) ==
  /\ NativeRuns(x) => OfBrowser(y)
  /\ y.f = "dispatch" => x.f = "event"
  /\ x.f # "clean"

StackOK(r) ==
  /\ Stack(r)
  /\ \A i \in 1..Len(r) : Shaped(r[i])
  /\ r # <<>> => r[1].f # "dispatch"
  /\ \A i \in 1..Len(r) - 1 : Over(r[i], r[i + 1])

Native(r) == \E i \in 1..Len(r) : NativeRuns(r[i])

\* Where y is on top, x may be.
Replaces(x, y) == (OfBrowser(y) => OfBrowser(x)) /\ (x.f = "dispatch" => y.f = "dispatch")

\* No cleaning is on top.
Quiet(r) == r # <<>> => r[Len(r)].f # "clean"

Hiding == StackOK(run) /\ (triggered # "" => Native(run))

-----------------------------------------------------------------------------
\* The frame on top goes; only where it was a native method does one end.
LEMMA PopOK ==
  ASSUME NEW r, StackOK(r), r # <<>>
  PROVE  /\ StackOK(Front(r)) /\ Quiet(Front(r))
         /\ Native(r) => Native(Front(r)) \/ NativeRuns(r[Len(r)])
<1>1. PICK s : s = Front(r)
  OBVIOUS
<1>2. /\ Len(r) \in Nat \ {0} /\ Stack(s) /\ Len(s) = Len(r) - 1
      /\ \A i \in 1..Len(r) - 1 : s[i] = r[i]
  BY <1>1, StackPop DEF StackOK
<1>3. \A i \in 1..Len(s) : Shaped(s[i])
  BY <1>2 DEF StackOK
<1>4. \A i \in 1..Len(s) - 1 : Over(s[i], s[i + 1])
  BY <1>2 DEF StackOK
<1>5. s # <<>> => Len(s) \in 1..Len(r) - 1 /\ 1 \in 1..Len(s)
  BY <1>2, StackLen
<1>6. s # <<>> => s[1].f # "dispatch"
  BY <1>2, <1>5 DEF StackOK
<1>7. Quiet(s)
  BY <1>2, <1>5 DEF StackOK, Quiet, Over
<1>8. Native(r) => Native(s) \/ NativeRuns(r[Len(r)])
  BY <1>2 DEF Native
<1> QED
  BY <1>1, <1>2, <1>3, <1>4, <1>6, <1>7, <1>8 DEF StackOK

\* The frame on top is another now, of the same nature.
LEMMA SetTopOK ==
  ASSUME NEW r, StackOK(r), r # <<>>, NEW x, Shaped(x), Replaces(x, r[Len(r)])
  PROVE  /\ StackOK(Append(Front(r), x)) /\ (x.f # "clean" => Quiet(Append(Front(r), x)))
         /\ Native(r) => Native(Append(Front(r), x)) \/ NativeRuns(r[Len(r)])
         /\ NativeRuns(x) => Native(Append(Front(r), x))
<1>1. PICK s : s = Append(Front(r), x)
  OBVIOUS
<1>2. /\ Len(r) \in Nat \ {0} /\ Stack(s) /\ Len(s) = Len(r)
      /\ \A i \in 1..Len(r) - 1 : s[i] = r[i]
      /\ s[Len(r)] = x
  BY <1>1, StackPop, StackSetTop DEF StackOK
<1>3. \A i \in 1..Len(s) : Shaped(s[i])
  <2>1. \A i \in 1..Len(r) : i = Len(r) \/ i \in 1..Len(r) - 1
    BY <1>2
  <2> QED
    BY <1>2, <2>1 DEF StackOK
<1>4. ASSUME NEW i \in 1..Len(s) - 1
      PROVE  Over(s[i], s[i + 1])
  <2>1. s[i] = r[i] /\ Over(r[i], r[i + 1])
    BY <1>2 DEF StackOK
  <2>2. i + 1 = Len(r) \/ i + 1 \in 1..Len(r) - 1
    BY <1>2
  <2>3. CASE i + 1 = Len(r)
    BY <1>2, <2>1, <2>3 DEF Over, Replaces
  <2>4. CASE i + 1 \in 1..Len(r) - 1
    BY <1>2, <2>1, <2>4
  <2> QED
    BY <2>2, <2>3, <2>4
<1>5. s[1].f # "dispatch"
  <2>1. Len(r) = 1 \/ 1 \in 1..Len(r) - 1
    BY <1>2
  <2>2. r[1].f # "dispatch"
    BY DEF StackOK
  <2> QED
    BY <1>2, <2>1, <2>2 DEF Replaces
<1>6. Native(r) => Native(s) \/ NativeRuns(r[Len(r)])
  BY <1>2 DEF Native
<1>7. NativeRuns(x) => Native(s)
  BY <1>2 DEF Native
<1>8. x.f # "clean" => Quiet(s)
  BY <1>2 DEF Quiet
<1> QED
  BY <1>1, <1>2, <1>3, <1>4, <1>5, <1>6, <1>7, <1>8 DEF StackOK

\* A frame is pushed.
LEMMA PushOK ==
  ASSUME NEW r, StackOK(r), NEW x, Shaped(x), r # <<>> => Over(r[Len(r)], x), r = <<>> => x.f # "dispatch",
         NEW s, s = r \o <<x>>
  PROVE  /\ StackOK(s) /\ (x.f # "clean" => Quiet(s))
         /\ Native(r) => Native(s)
         /\ Len(s) = Len(r) + 1 /\ s[Len(s)] = x
<1>1. Len(r) \in Nat /\ (r = <<>> <=> Len(r) = 0)
  BY StackLen DEF StackOK
<1>2. /\ Stack(s) /\ Len(s) = Len(r) + 1 /\ s[Len(r) + 1] = x
      /\ \A i \in 1..Len(r) : s[i] = r[i]
  <2>1. Stack(<<x>>) /\ Len(<<x>>) = 1 /\ <<x>>[1] = x
    BY StackOne
  <2>3. /\ Stack(s) /\ Len(s) = Len(r) + 1
        /\ \A i \in 1..Len(r) : s[i] = r[i]
        /\ \A i \in 1..1 : s[Len(r) + i] = <<x>>[i]
    BY <2>1, StackConcat DEF StackOK
  <2> QED
    BY <2>1, <2>3
<1>3. \A i \in 1..Len(s) : i \in 1..Len(r) \/ i = Len(r) + 1
  BY <1>1, <1>2
<1>4. \A i \in 1..Len(s) : Shaped(s[i])
  BY <1>2, <1>3 DEF StackOK
<1>5. ASSUME NEW i \in 1..Len(s) - 1
      PROVE  Over(s[i], s[i + 1])
  <2>1. i \in 1..Len(r) /\ s[i] = r[i]
    BY <1>1, <1>2
  <2>2. CASE i = Len(r)
    BY <1>1, <1>2, <2>1, <2>2
  <2>3. CASE i # Len(r)
    <3>1. i \in 1..Len(r) - 1 /\ i + 1 \in 1..Len(r)
      BY <1>1, <2>1, <2>3
    <3> QED
      BY <1>2, <2>1, <3>1 DEF StackOK
  <2> QED
    BY <2>2, <2>3
<1>6. s[1].f # "dispatch"
  <2>1. CASE r = <<>>
    BY <1>1, <1>2, <2>1
  <2>2. CASE r # <<>>
    <3>1. 1 \in 1..Len(r)
      BY <1>1, <2>2
    <3> QED
      BY <1>2, <2>2, <3>1 DEF StackOK
  <2> QED
    BY <2>1, <2>2
<1>7. Native(r) => Native(s)
  BY <1>1, <1>2 DEF Native
<1>8. x.f # "clean" => Quiet(s)
  BY <1>2 DEF Quiet
<1> QED
  BY <1>2, <1>4, <1>5, <1>6, <1>7, <1>8 DEF StackOK

\* What a throw leaves: all native methods that run, run in what is left.
LEMMA NativeIsBelow ==
  ASSUME NEW r, StackOK(r), r # <<>>, r[Len(r)].f = "fn", NEW i \in 1..Len(r), NativeRuns(r[i])
  PROVE  i \in 1..Len(r) - 1 /\ OfBrowser(r[i + 1])
<1>1. Len(r) \in Nat \ {0}
  BY StackPop DEF StackOK
<1>2. i # Len(r)
  BY DEF NativeRuns
<1>3. i \in 1..Len(r) - 1
  BY <1>1, <1>2
<1> QED
  BY <1>3 DEF StackOK, Over

LEMMA CutOK ==
  ASSUME NEW r, StackOK(r), r # <<>>, r[Len(r)].f = "fn",
         NEW m \in 1..Len(r), OfBrowser(r[m]), \A j \in 1..Len(r) : OfBrowser(r[j]) => j <= m
  PROVE  /\ StackOK(SubSeq(r, 1, m)) /\ Quiet(SubSeq(r, 1, m))
         /\ Native(r) => Native(SubSeq(r, 1, m))
<1>1. Len(r) \in Nat \ {0}
  BY StackPop DEF StackOK
<1>2. PICK s : s = SubSeq(r, 1, m)
  OBVIOUS
<1>3. m \in 0..Len(r)
  BY <1>1
<1>4. Stack(s) /\ Len(s) = m /\ \A i \in 1..m : s[i] = r[i]
  BY <1>2, <1>3, StackCut DEF StackOK
<1>5. \A i \in 1..m : i \in 1..Len(r) /\ (i \in 1..m - 1 => i \in 1..Len(r) - 1 /\ i + 1 \in 1..m)
  BY <1>1
<1>6. StackOK(s)
  <2>1. \A i \in 1..Len(s) : Shaped(s[i])
    BY <1>4, <1>5 DEF StackOK
  <2>2. ASSUME NEW i \in 1..Len(s) - 1
        PROVE  Over(s[i], s[i + 1])
    <3>1. i \in 1..m /\ i \in 1..m - 1
      BY <1>1, <1>4
    <3>2. i \in 1..Len(r) - 1 /\ i + 1 \in 1..m
      BY <1>5, <3>1
    <3> QED
      BY <1>4, <3>1, <3>2 DEF StackOK
  <2>3. s[1].f # "dispatch"
    <3>1. 1 \in 1..m
      BY <1>1
    <3> QED
      BY <1>4, <3>1 DEF StackOK
  <2> QED
    BY <1>4, <2>1, <2>2, <2>3 DEF StackOK
<1>7. ASSUME NEW i \in 1..Len(r), NativeRuns(r[i])
      PROVE  i \in 1..m
  <2>1. i \in 1..Len(r) - 1 /\ OfBrowser(r[i + 1])
    BY <1>7, NativeIsBelow
  <2>2. i + 1 \in 1..Len(r)
    BY <1>1, <2>1
  <2>3. i + 1 <= m
    BY <2>1, <2>2
  <2> QED
    BY <1>1, <2>2, <2>3
<1>8. Native(r) => Native(s)
  BY <1>4, <1>7 DEF Native
<1>9. Quiet(s)
  <2>1. m \in 1..m
    BY <1>1
  <2> QED
    BY <1>4, <2>1 DEF Quiet, OfBrowser
<1> QED
  BY <1>2, <1>6, <1>8, <1>9

\* A mark on a frame.
LEMMA MarkedShape ==
  ASSUME NEW x, Shaped(x), NEW u, NEW v, NEW w, NEW y, y = Marked(x, u, v, w)
  PROVE  Shaped(y) /\ y.f = x.f /\ (NativeRuns(y) <=> NativeRuns(x)) /\ (OfBrowser(y) <=> OfBrowser(x))
<1>1. CASE EventShape(x)
  <2>1. PICK a, b, c : a = (x.stopped \/ u) /\ b = (x.immediate \/ v) /\ c = (x.prevented \/ w)
    OBVIOUS
  <2>2. y = [x EXCEPT !.stopped = a, !.immediate = b, !.prevented = c]
    BY <2>1, Zenon DEF Marked
  <2>3. PICK by, elem, type, only, path, u1, v1, w1, pc :
          x = [f |-> "event", by |-> by, elem |-> elem, type |-> type, only |-> only, path |-> path,
               stopped |-> u1, immediate |-> v1, prevented |-> w1, pc |-> pc]
    BY <1>1 DEF EventShape
  <2>4. y = [f |-> "event", by |-> by, elem |-> elem, type |-> type, only |-> only, path |-> path,
             stopped |-> a, immediate |-> b, prevented |-> c, pc |-> pc]
    BY <2>2, <2>3
  <2>5. /\ y.f = x.f /\ y.by = x.by /\ y.pc = x.pc
        /\ y.elem = x.elem /\ y.type = x.type /\ y.path = x.path
    BY <2>3, <2>4
  <2>6. y = [f |-> "event", by |-> y.by, elem |-> y.elem, type |-> y.type, only |-> y.only, path |-> y.path,
             stopped |-> y.stopped, immediate |-> y.immediate, prevented |-> y.prevented, pc |-> y.pc]
    BY <2>4
  <2>7. EventShape(y)
    BY <1>1, <2>5, <2>6 DEF EventShape
  <2> QED
    BY <2>5, <2>7 DEF Shaped, NativeRuns, OfBrowser
<1>2. CASE DispatchShape(x)
  <2>1. y = x
    BY <1>2 DEF DispatchShape, Marked
  <2> QED
    BY <2>1
<1>3. CASE HandlerShape(x)
  <2>1. y = x
    BY <1>3 DEF HandlerShape, Marked
  <2> QED
    BY <2>1
<1>4. CASE CleanShape(x)
  <2>1. y = x
    BY <1>4 DEF CleanShape, Marked
  <2> QED
    BY <2>1
<1> QED
  BY <1>1, <1>2, <1>3, <1>4 DEF Shaped

LEMMA ExceptOK ==
  ASSUME NEW r, StackOK(r), Quiet(r), NEW n \in 1..Len(r), NEW x, Shaped(x), x.f = r[n].f,
         NativeRuns(x) <=> NativeRuns(r[n]), OfBrowser(x) <=> OfBrowser(r[n]),
         NEW s, s = [r EXCEPT ![n] = x]
  PROVE  StackOK(s) /\ Quiet(s) /\ (Native(r) => Native(s))
<1>1. Stack(r)
  BY DEF StackOK
<1>2. /\ Stack(s) /\ Len(s) = Len(r)
      /\ s[n] = x
      /\ \A i \in 1..Len(r) : i # n => s[i] = r[i]
  <2>1. Stack(s) /\ Len(s) = Len(r)
    BY <1>1, StackExcept
  <2>2. s[n] = x
    BY <1>1, StackExcept
  <2>3. \A i \in 1..Len(r) : i # n => s[i] = r[i]
    BY <1>1, StackExcept
  <2> QED
    BY <2>1, <2>2, <2>3
<1>3. Len(r) \in Nat
  BY StackLen DEF StackOK
<1>4. ASSUME NEW i \in 1..Len(r)
      PROVE  /\ Shaped(s[i]) /\ s[i].f = r[i].f
             /\ (NativeRuns(s[i]) <=> NativeRuns(r[i])) /\ (OfBrowser(s[i]) <=> OfBrowser(r[i]))
  <2>1. CASE i = n
    BY <1>2, <2>1
  <2>2. CASE i # n
    BY <1>2, <2>2 DEF StackOK
  <2> QED
    BY <2>1, <2>2
<1>5. \A i \in 1..Len(r) - 1 : i \in 1..Len(r) /\ i + 1 \in 1..Len(r)
  BY <1>3
<1>6. ASSUME NEW i \in 1..Len(s) - 1
      PROVE  Over(s[i], s[i + 1])
  <2>1. i \in 1..Len(r) - 1
    BY <1>2
  <2>2. i \in 1..Len(r) /\ i + 1 \in 1..Len(r)
    BY <1>5, <2>1
  <2>3. Over(r[i], r[i + 1])
    BY <2>1 DEF StackOK
  <2> QED
    BY <1>4, <2>2, <2>3 DEF Over
<1>7. Native(r) => Native(s)
  BY <1>2, <1>4 DEF Native
<1>8. 1 \in 1..Len(r) /\ Len(r) \in 1..Len(r) /\ r # <<>>
  BY <1>3, StackEmpty
<1>9. s[1].f # "dispatch"
  BY <1>4, <1>8 DEF StackOK
<1>10. StackOK(s)
  BY <1>2, <1>4, <1>6, <1>9 DEF StackOK
<1>11. Quiet(s)
  BY <1>2, <1>4, <1>8 DEF Quiet
<1> QED
  BY <1>7, <1>10, <1>11

-----------------------------------------------------------------------------
(***************************************************************************)
(* The invariant.                                                          *)
(***************************************************************************)

CleaningIn(r) == r # <<>> /\ r[Len(r)].f = "clean" /\ r[Len(r)].pc = "types"
BareIn(r) == IF CleaningIn(r) THEN BareOf(r[Len(r)].at, r[Len(r)].types) ELSE {}

StoreInv(s, r, out) ==
  /\ StoreOK(s) /\ Wired(s, BareIn(r)) /\ OneOut(s, out)
  /\ CleaningIn(r) => CleanedSoFar(s, r[Len(r)].at, r[Len(r)].id, r[Len(r)].types)

EventsInv == Hiding /\ StoreInv(store, run, gone)

LEMMA QuietIsClean ==
  ASSUME NEW r, Quiet(r)
  PROVE  ~CleaningIn(r)
BY DEF Quiet, CleaningIn

\* Between cleanings, the store is whole.
LEMMA Whole ==
  ASSUME NEW s, NEW r, NEW out, ~CleaningIn(r)
  PROVE  StoreInv(s, r, out) <=> StoreOK(s) /\ Wired(s, {}) /\ OneOut(s, out)
BY DEF StoreInv, BareIn

-----------------------------------------------------------------------------
(***************************************************************************)
(* One case per action.                                                    *)
(***************************************************************************)

LEMMA TopShape ==
  ASSUME Hiding, NEW f, TopIs(f)
  PROVE  /\ StackOK(run) /\ run # <<>> /\ Top = run[Len(run)] /\ Top.f = f /\ Shaped(Top)
         /\ Below = Front(run) /\ Len(run) \in Nat \ {0}
         /\ (f = "event" => EventShape(Top)) /\ (f = "dispatch" => DispatchShape(Top))
         /\ (f = "clean" => CleanShape(Top))
         /\ (f # "clean" => ~CleaningIn(run))
<1>1. StackOK(run) /\ run # <<>> /\ Top = run[Len(run)] /\ Top.f = f /\ Below = Front(run)
  BY DEF Hiding, TopIs, Top, Below
<1>2. Len(run) \in Nat \ {0}
  BY <1>1, StackPop DEF StackOK
<1>3. Shaped(Top)
  BY <1>1, <1>2 DEF StackOK
<1>4. /\ (f = "event" => EventShape(Top)) /\ (f = "dispatch" => DispatchShape(Top))
      /\ (f = "clean" => CleanShape(Top))
  BY <1>1, <1>3 DEF Shaped, EventShape, DispatchShape, HandlerShape, CleanShape
<1>5. f # "clean" => ~CleaningIn(run)
  BY <1>1 DEF CleaningIn
<1> QED
  BY <1>1, <1>2, <1>3, <1>4, <1>5

\* A step that pops a frame, and is not the end of a native method.
LEMMA PopHides ==
  ASSUME Hiding, run # <<>>, ~NativeRuns(run[Len(run)]), run' = Below, UNCHANGED triggered
  PROVE  Hiding' /\ Quiet(run')
BY PopOK DEF Hiding, Below

LEMMA SetTopHides ==
  ASSUME Hiding, run # <<>>, ~NativeRuns(run[Len(run)]), UNCHANGED triggered,
         NEW x, Shaped(x), Replaces(x, run[Len(run)]), run' = WithTop(x)
  PROVE  Hiding' /\ (x.f # "clean" => Quiet(run')) /\ run' # <<>> /\ run'[Len(run')] = x
<1>1. PICK r : r = WithTop(x)
  OBVIOUS
<1>2. /\ StackOK(r) /\ (Native(run) => Native(r)) /\ (x.f # "clean" => Quiet(r))
  BY <1>1, SetTopOK DEF Hiding, Below, WithTop
<1>3. r # <<>> /\ r[Len(r)] = x
  <2>1. /\ Len(run) \in Nat \ {0} /\ Len(r) = Len(run) /\ r[Len(run)] = x
    BY <1>1, StackPop, StackSetTop DEF Hiding, StackOK, Below, WithTop
  <2>2. r # <<>>
    BY <2>1, StackEmpty
  <2> QED
    BY <2>1, <2>2
<1> QED
  BY <1>1, <1>2, <1>3 DEF Hiding

LEMMA PushHides ==
  ASSUME Hiding, UNCHANGED triggered, NEW x, Shaped(x), run' = run \o <<x>>, x.f # "dispatch",
         run # <<>> => run[Len(run)].f = "fn"
  PROVE  Hiding' /\ (x.f # "clean" => Quiet(run')) /\ run'[Len(run')] = x
<1>1. run # <<>> => Over(run[Len(run)], x)
  BY DEF Over, NativeRuns
<1>2. PICK s : s = run \o <<x>>
  OBVIOUS
<1>3. /\ StackOK(s) /\ (x.f # "clean" => Quiet(s)) /\ (Native(run) => Native(s)) /\ s[Len(s)] = x
  BY <1>1, <1>2, PushOK DEF Hiding
<1> QED
  BY <1>2, <1>3 DEF Hiding

\* The frame on top changes, and another is pushed on it.
LEMMA SetTopPushHides ==
  ASSUME Hiding, run # <<>>, ~NativeRuns(run[Len(run)]), UNCHANGED triggered,
         NEW x, Shaped(x), Replaces(x, run[Len(run)]),
         NEW y, Shaped(y), Over(x, y), y.f # "clean", run' = WithTop(x) \o <<y>>
  PROVE  Hiding' /\ Quiet(run')
<1>1. PICK r : r = WithTop(x)
  OBVIOUS
<1>2. /\ StackOK(r) /\ (Native(run) => Native(r))
  BY <1>1, SetTopOK DEF Hiding, Below, WithTop
<1>3. r # <<>> /\ r[Len(r)] = x
  <2>1. /\ Len(run) \in Nat \ {0} /\ Len(r) = Len(run) /\ r[Len(run)] = x
    BY <1>1, StackPop, StackSetTop DEF Hiding, StackOK, Below, WithTop
  <2>2. r # <<>>
    BY <2>1, StackEmpty
  <2> QED
    BY <2>1, <2>2
<1>4. PICK s : s = r \o <<y>>
  OBVIOUS
<1>5. StackOK(s) /\ (Native(r) => Native(s)) /\ Quiet(s)
  BY <1>2, <1>3, <1>4, PushOK
<1> QED
  BY <1>1, <1>2, <1>4, <1>5 DEF Hiding

LEMMA EventFrameShape ==
  ASSUME NEW by, NEW e \in Elem, NEW t \in EventType, NEW only, NEW x, x = EventFrame(by, e, t, only)
  PROVE  Shaped(x) /\ EventShape(x) /\ x.f = "event" /\ x.by = by /\ x.pc = "walk"
<1>1. PICK path : path = IF only THEN <<e>> ELSE PathFrom(e)
  OBVIOUS
<1>2. path \in Seq(Elem)
  BY <1>1, PathIsOfElements
<1>3. x = [f |-> "event", by |-> by, elem |-> e, type |-> t, only |-> only, path |-> path,
           stopped |-> FALSE, immediate |-> FALSE, prevented |-> FALSE, pc |-> "walk"]
  BY <1>1 DEF EventFrame
<1>4. x.elem = e /\ x.type = t /\ x.path = path /\ x.f = "event" /\ x.by = by /\ x.pc = "walk"
  BY <1>3
<1>5. x = [f |-> "event", by |-> x.by, elem |-> x.elem, type |-> x.type, only |-> x.only, path |-> x.path,
           stopped |-> x.stopped, immediate |-> x.immediate, prevented |-> x.prevented, pc |-> x.pc]
  BY <1>3
<1> QED
  BY <1>2, <1>4, <1>5 DEF EventShape, Shaped

LEMMA ReturnHides ==
  ASSUME Hiding, Return
  PROVE  Hiding' /\ Quiet(run')
<1>1. TopIs("fn") /\ UNCHANGED triggered
  BY DEF Return
<1>2. StackOK(run) /\ run # <<>> /\ ~NativeRuns(run[Len(run)]) /\ Below = Front(run)
  BY <1>1, TopShape DEF NativeRuns
<1>3. PICK b : b = Below
  OBVIOUS
<1>4. StackOK(b) /\ (Native(run) => Native(b)) /\ Quiet(b)
  BY <1>2, <1>3, PopOK
<1>5. PICK n : n = Len(run) - 2
  OBVIOUS
<1>6. PICK u \in BOOLEAN, v \in BOOLEAN, w \in BOOLEAN : run' = [b EXCEPT ![n] = Marked(b[n], u, v, w)]
  BY <1>3, <1>5, Zenon DEF Return
<1>7. CASE n \in 1..Len(b)
  <2>1. Shaped(b[n])
    BY <1>4, <1>7 DEF StackOK
  <2>2. PICK y : y = Marked(b[n], u, v, w)
    OBVIOUS
  <2>3. Shaped(y) /\ y.f = b[n].f /\ (NativeRuns(y) <=> NativeRuns(b[n])) /\ (OfBrowser(y) <=> OfBrowser(b[n]))
    BY <2>1, <2>2, MarkedShape
  <2>4. run' = [b EXCEPT ![n] = y]
    BY <1>6, <2>2
  <2>5. StackOK(run') /\ (Native(b) => Native(run')) /\ Quiet(run')
    BY <1>4, <1>7, <2>3, <2>4, ExceptOK
  <2> QED
    BY <1>1, <1>4, <2>5 DEF Hiding
<1>8. CASE n \notin 1..Len(b)
  <2>1. DOMAIN b = 1..Len(b)
    BY <1>4, StackLen DEF StackOK
  <2>2. run' = b
    <3>1. PICK S : b \in Seq(S)
      BY <1>4, StackIsSeq DEF StackOK
    <3> QED
      BY <1>6, <1>8, <2>1, <3>1
  <2> QED
    BY <1>1, <1>4, <2>2 DEF Hiding
<1> QED
  BY <1>7, <1>8

LEMMA ThrowHides ==
  ASSUME Hiding, Throw
  PROVE  Hiding' /\ Quiet(run')
<1>1. TopIs("fn") /\ UNCHANGED triggered
  BY DEF Throw
<1>2. StackOK(run) /\ run # <<>> /\ run[Len(run)].f = "fn" /\ Len(run) \in Nat
  BY <1>1, TopShape
<1>3. PICK users : users = {i \in DOMAIN run : run[i].f = "event" /\ run[i].by = "user"}
  OBVIOUS
<1>4. users \in SUBSET (1..Len(run)) /\ \A i \in 1..Len(run) : OfBrowser(run[i]) <=> i \in users
  BY <1>2, <1>3, StackLen DEF StackOK, OfBrowser
<1>5. run' = IF users = {} THEN <<>> ELSE SubSeq(run, 1, CHOOSE i \in users : \A j \in users : j <= i)
  BY <1>3 DEF Throw
<1>6. CASE users = {}
  <2>1. ~Native(run)
    <3> SUFFICES ASSUME NEW i \in 1..Len(run), NativeRuns(run[i])
                 PROVE  FALSE
      BY DEF Native
    <3>1. i \in 1..Len(run) - 1 /\ OfBrowser(run[i + 1])
      BY <1>2, NativeIsBelow
    <3>2. i + 1 \in 1..Len(run)
      BY <1>2, <3>1
    <3> QED
      BY <1>4, <1>6, <3>1, <3>2
  <2>2. StackOK(<<>>) /\ Quiet(<<>>)
    BY StackEmpty DEF StackOK, Quiet
  <2> QED
    BY <1>1, <1>5, <1>6, <2>1, <2>2 DEF Hiding
<1>7. CASE users # {}
  <2>1. \E n \in users : \A j \in users : j <= n
    BY <1>2, <1>4, <1>7, HasLast
  <2>2. PICK m : m = CHOOSE i \in users : \A j \in users : j <= i
    OBVIOUS
  <2>3. m \in users /\ \A j \in users : j <= m
    BY <2>1, <2>2
  <2>4. m \in 1..Len(run) /\ OfBrowser(run[m]) /\ \A j \in 1..Len(run) : OfBrowser(run[j]) => j <= m
    BY <1>4, <2>3
  <2>5. run' = SubSeq(run, 1, m)
    BY <1>5, <1>7, <2>2
  <2> QED
    BY <1>1, <1>2, <2>4, <2>5, CutOK DEF Hiding
<1> QED
  BY <1>6, <1>7

LEMMA ReachHides ==
  ASSUME Hiding, Reach
  PROVE  Hiding' /\ Quiet(run')
<1>1. TopIs("event") /\ UNCHANGED triggered /\ Top.pc = "walk" /\ Top.path # <<>>
  BY DEF Reach
<1>2. PICK top, x : top = Top /\ x = [top EXCEPT !.path = Tail(@)]
  OBVIOUS
<1>3. EventShape(top) /\ top = run[Len(run)] /\ run # <<>> /\ top.f = "event"
  BY <1>1, <1>2, TopShape
<1>4. Shaped(x) /\ ~NativeRuns(x) /\ ~NativeRuns(top) /\ x.f = "event" /\ Replaces(x, top)
  <2>1. /\ x.f = top.f /\ x.by = top.by /\ x.pc = top.pc /\ x.elem = top.elem /\ x.type = top.type
        /\ x.path = Tail(top.path)
    BY <1>2, <1>3 DEF EventShape
  <2>2. x = [f |-> "event", by |-> x.by, elem |-> x.elem, type |-> x.type, only |-> x.only, path |-> x.path,
             stopped |-> x.stopped, immediate |-> x.immediate, prevented |-> x.prevented, pc |-> x.pc]
    <3>1. PICK by, elem, type, only, path, stopped, immediate, prevented, pc :
            top = [f |-> "event", by |-> by, elem |-> elem, type |-> type, only |-> only, path |-> path,
                   stopped |-> stopped, immediate |-> immediate, prevented |-> prevented, pc |-> pc]
      BY <1>3 DEF EventShape
    <3>2. PICK rest : x = [top EXCEPT !.path = rest]
      BY <1>2
    <3>3. x = [f |-> "event", by |-> by, elem |-> elem, type |-> type, only |-> only, path |-> rest,
               stopped |-> stopped, immediate |-> immediate, prevented |-> prevented, pc |-> pc]
      BY <3>1, <3>2
    <3> QED
      BY <3>3
  <2>3. top.path \in Seq(Elem) /\ top.path # <<>>
    BY <1>1, <1>2, <1>3 DEF EventShape
  <2>4. x.path \in Seq(Elem)
    BY <2>1, <2>3
  <2>5. EventShape(x)
    BY <1>3, <2>1, <2>2, <2>4 DEF EventShape
  <2> QED
    BY <1>1, <1>2, <1>3, <2>1, <2>5 DEF Shaped, NativeRuns, Replaces, OfBrowser
<1>5. PICK at : at = Head(top.path) /\ at \in Elem
  <2>1. top.path \in Seq(Elem) /\ top.path # <<>>
    BY <1>1, <1>2, <1>3 DEF EventShape
  <2> QED
    BY <2>1
<1>6. run' = WithTop(x) \/ \E groups : run' = WithTop(x) \o <<DispatchFrame(at, groups)>>
  <2>1. PICK r : r = WithTop(x)
    OBVIOUS
  <2>2. r \o <<>> = r
    <3>1. Stack(r)
      BY <1>1, <2>1, TopShape, StackSetTop DEF WithTop, StackOK
    <3>2. PICK S : r \in Seq(S)
      BY <3>1, StackIsSeq
    <3> QED
      BY <3>2
  <2> QED
    BY <1>2, <1>5, <2>1, <2>2 DEF Reach
<1>7. CASE run' = WithTop(x)
  BY <1>1, <1>3, <1>4, <1>7, SetTopHides
<1>8. ASSUME NEW groups, run' = WithTop(x) \o <<DispatchFrame(at, groups)>>
      PROVE  Hiding' /\ Quiet(run')
  <2>1. PICK y : y = DispatchFrame(at, groups)
    OBVIOUS
  <2>2. y.f = "dispatch" /\ Shaped(y)
    BY <1>5, <2>1 DEF Shaped, DispatchFrame, DispatchShape
  <2>3. Over(x, y)
    BY <1>4, <2>2 DEF Over
  <2> QED
    BY <1>1, <1>3, <1>4, <1>8, <2>1, <2>2, <2>3, SetTopPushHides
<1> QED
  BY <1>6, <1>7, <1>8

LEMMA DispatchHides ==
  ASSUME Hiding, NextGroup \/ CallHandler \/ EndDispatch
  PROVE  Hiding' /\ Quiet(run')
<1>1. TopIs("dispatch") /\ UNCHANGED triggered
  BY DEF NextGroup, CallHandler, EndDispatch
<1>2. run # <<>> /\ Top = run[Len(run)] /\ DispatchShape(Top) /\ ~NativeRuns(run[Len(run)]) /\ ~OfBrowser(run[Len(run)])
  BY <1>1, TopShape DEF NativeRuns, OfBrowser
<1>3. ASSUME NEW groups, NEW x, x = [Top EXCEPT !.groups = groups]
      PROVE  Shaped(x) /\ ~NativeRuns(x) /\ x.f = "dispatch" /\ Replaces(x, run[Len(run)])
  <2>1. PICK top : top = Top
    OBVIOUS
  <2>2. top = [f |-> "dispatch", at |-> top.at, groups |-> top.groups] /\ top.at \in Elem
    BY <1>2, <2>1 DEF DispatchShape
  <2>3. x = [f |-> "dispatch", at |-> top.at, groups |-> groups]
    BY <1>3, <2>1, <2>2
  <2>4. x.f = "dispatch" /\ x.at = top.at /\ x.groups = groups
    BY <2>3
  <2>5. DispatchShape(x)
    BY <2>2, <2>3, <2>4 DEF DispatchShape
  <2>6. top.f = "dispatch"
    BY <2>2
  <2> QED
    BY <1>2, <2>1, <2>4, <2>5, <2>6 DEF Shaped, NativeRuns, Replaces
<1>4. CASE run' = Below
  BY <1>1, <1>2, <1>4, PopHides
<1>5. ASSUME NEW groups, run' = WithTop([Top EXCEPT !.groups = groups])
      PROVE  Hiding' /\ Quiet(run')
  <2>1. PICK x : x = [Top EXCEPT !.groups = groups]
    OBVIOUS
  <2>2. run' = WithTop(x)
    BY <1>5, <2>1
  <2> QED
    BY <1>1, <1>2, <1>3, <2>1, <2>2, SetTopHides
<1>6. ASSUME NEW groups, NEW h, run' = WithTop([Top EXCEPT !.groups = groups]) \o <<HandlerFrame(h)>>
      PROVE  Hiding' /\ Quiet(run')
  <2>1. PICK x, y : x = [Top EXCEPT !.groups = groups] /\ y = HandlerFrame(h)
    OBVIOUS
  <2>2. Shaped(y) /\ y.f = "fn"
    BY <2>1 DEF Shaped, HandlerFrame, HandlerShape
  <2>3. Over(x, y)
    BY <1>3, <2>1, <2>2 DEF Over
  <2>4. run' = WithTop(x) \o <<y>>
    BY <1>6, <2>1
  <2> QED
    BY <1>1, <1>2, <1>3, <2>1, <2>2, <2>3, <2>4, SetTopPushHides
<1> QED
  BY <1>4, <1>5, <1>6 DEF NextGroup, CallHandler, EndDispatch

\* The native method is called: the event is hidden as long as it runs.
LEMMA DefaultHides ==
  ASSUME Hiding, Default
  PROVE  Hiding' /\ Quiet(run')
<1>1. TopIs("event") /\ Top.pc = "walk"
  BY DEF Default, Walked
<1>2. PICK top : top = Top
  OBVIOUS
<1>3. StackOK(run) /\ run # <<>> /\ EventShape(top) /\ top = run[Len(run)] /\ ~NativeRuns(run[Len(run)])
  BY <1>1, <1>2, TopShape DEF NativeRuns
<1>4. CASE run' = Below /\ UNCHANGED triggered
  BY <1>3, <1>4, PopHides
<1>5. ASSUME NEW only,
             run' = WithTop([Top EXCEPT !.pc = "called"]) \o <<EventFrame("user", Top.elem, Top.type, only)>>
      PROVE  Hiding' /\ Quiet(run')
  <2>1. PICK x : x = [top EXCEPT !.pc = "called"]
    OBVIOUS
  <2>2. PICK y : y = EventFrame("user", top.elem, top.type, only)
    OBVIOUS
  <2>3. EventShape(x) /\ x.f = "event" /\ x.by = top.by /\ x.pc = "called"
    <3>0. EventShape(top)
      BY <1>3
    <3>1. PICK by, elem, type, only1, path, stopped, immediate, prevented, pc :
            top = [f |-> "event", by |-> by, elem |-> elem, type |-> type, only |-> only1, path |-> path,
                   stopped |-> stopped, immediate |-> immediate, prevented |-> prevented, pc |-> pc]
      BY <3>0 DEF EventShape
    <3>2. x = [f |-> "event", by |-> by, elem |-> elem, type |-> type, only |-> only1, path |-> path,
               stopped |-> stopped, immediate |-> immediate, prevented |-> prevented, pc |-> "called"]
      BY <2>1, <3>1
    <3>3. x.elem = top.elem /\ x.type = top.type /\ x.path = top.path /\ x.by = top.by /\ x.f = "event" /\ x.pc = "called"
      BY <3>1, <3>2
    <3>4. x = [f |-> "event", by |-> x.by, elem |-> x.elem, type |-> x.type, only |-> x.only, path |-> x.path,
               stopped |-> x.stopped, immediate |-> x.immediate, prevented |-> x.prevented, pc |-> x.pc]
      BY <3>2
    <3> QED
      BY <1>3, <3>3, <3>4 DEF EventShape
  <2>4. Shaped(x) /\ NativeRuns(x) /\ Replaces(x, run[Len(run)])
    BY <1>3, <2>3 DEF Shaped, NativeRuns, OfBrowser, Replaces
  <2>5. Shaped(y) /\ OfBrowser(y) /\ y.f = "event"
    <3>1. top.elem \in Elem /\ top.type \in EventType
      BY <1>3 DEF EventShape
    <3> QED
      BY <2>2, <3>1, EventFrameShape DEF OfBrowser
  <2>6. PICK r : r = WithTop(x)
    OBVIOUS
  <2>7. StackOK(r) /\ Native(r)
    BY <1>3, <2>4, <2>6, SetTopOK DEF WithTop, Below
  <2>8. r # <<>> => r[Len(r)] = x
    <3>1. /\ Len(run) \in Nat \ {0} /\ Len(r) = Len(run) /\ r[Len(run)] = x
      BY <1>3, <2>6, StackPop, StackSetTop DEF StackOK, Below, WithTop
    <3> QED
      BY <3>1
  <2>9. Over(x, y)
    BY <2>3, <2>5 DEF Over
  <2>10. PICK s : s = r \o <<y>>
    OBVIOUS
  <2>11. StackOK(s) /\ Native(s) /\ Quiet(s)
    BY <2>5, <2>7, <2>8, <2>9, <2>10, PushOK
  <2>12. run' = s
    BY <1>2, <1>5, <2>1, <2>2, <2>6, <2>10
  <2> QED
    BY <2>11, <2>12 DEF Hiding
<1>6. \/ run' = Below /\ UNCHANGED triggered
      \/ \E only : run' = WithTop([Top EXCEPT !.pc = "called"])
                            \o <<EventFrame("user", Top.elem, Top.type, only)>>
  BY Zenon DEF Default
<1> QED
  BY <1>4, <1>5, <1>6

LEMMA BrowserDefaultHides ==
  ASSUME Hiding, BrowserDefault
  PROVE  Hiding' /\ Quiet(run')
<1>1. TopIs("event") /\ Top.pc = "walk" /\ UNCHANGED triggered
  BY DEF BrowserDefault, Walked
<1>2. run # <<>> /\ ~NativeRuns(run[Len(run)])
  BY <1>1, TopShape DEF NativeRuns
<1>3. CASE run' = Below
  BY <1>1, <1>2, <1>3, PopHides
<1>4. ASSUME NEW e \in Elem, NEW t \in EventType, NEW only, run' = WithTop(EventFrame("user", e, t, only))
      PROVE  Hiding' /\ Quiet(run')
  <2>1. PICK x : x = EventFrame("user", e, t, only)
    OBVIOUS
  <2>2. Shaped(x) /\ OfBrowser(x) /\ x.f = "event"
    BY <2>1, EventFrameShape DEF OfBrowser
  <2>3. Replaces(x, run[Len(run)])
    BY <2>2 DEF Replaces
  <2>4. run' = WithTop(x)
    BY <1>4, <2>1
  <2> QED
    BY <1>1, <1>2, <2>2, <2>3, <2>4, SetTopHides
<1>5. run' = Below \/ \E e \in Elem, t \in EventType, only \in BOOLEAN : run' = WithTop(EventFrame("user", e, t, only))
  <2>1. CASE <<Top.elem, Top.type>> \in DOMAIN Causes
    <3>1. PICK c : c = Causes[<<Top.elem, Top.type>>]
      OBVIOUS
    <3>2. c[1] \in Elem /\ c[2] \in EventType
      BY <2>1, <3>1, EventsAssumption
    <3>3. run' = Below \/ run' = WithTop(EventFrame("user", c[1], c[2], FALSE))
      BY <3>1, Zenon DEF BrowserDefault
    <3> QED
      BY <3>2, <3>3, Zenon
  <2>2. CASE <<Top.elem, Top.type>> \notin DOMAIN Causes
    BY <2>2, Zenon DEF BrowserDefault
  <2> QED
    BY <2>1, <2>2
<1> QED
  BY <1>3, <1>4, <1>5

\* Calls of the page, and events of the user.
LEMMA PageIsQuiet ==
  ASSUME PageRuns
  PROVE  ~CleaningIn(run) /\ (run # <<>> => run[Len(run)].f = "fn")
BY DEF PageRuns, Top, CleaningIn

LEMMA CallHides ==
  ASSUME Hiding, UNCHANGED triggered, PageRuns, NEW e \in Elem, NEW t \in EventType, NEW by, NEW only,
         \/ run' = run \o <<EventFrame(by, e, t, only)>>
         \/ run = <<>> /\ run' = <<EventFrame(by, e, t, only)>>
  PROVE  Hiding' /\ Quiet(run')
<1>1. PICK x : x = EventFrame(by, e, t, only)
  OBVIOUS
<1>2. Shaped(x) /\ x.f = "event"
  BY <1>1, EventFrameShape
<1>3. CASE run' = run \o <<x>>
  BY <1>2, <1>3, PageIsQuiet, PushHides
<1>4. CASE run = <<>> /\ run' = <<x>>
  <2>1. Stack(<<x>>) /\ Len(<<x>>) = 1 /\ <<x>>[1] = x
    BY StackOne
  <2>2. PICK s : s = <<x>>
    OBVIOUS
  <2>3. Stack(s) /\ Len(s) = 1 /\ s[1] = x
    BY <2>1, <2>2
  <2>4. StackOK(s) /\ Quiet(s)
    BY <1>2, <2>3 DEF StackOK, Quiet
  <2>5. ~Native(run)
    BY <1>4, StackEmpty DEF Native
  <2> QED
    BY <1>4, <2>2, <2>4, <2>5 DEF Hiding
<1> QED
  BY <1>1, <1>3, <1>4

\* A step between cleanings that leaves the store alone.
LEMMA StillKept ==
  ASSUME EventsInv, ~CleaningIn(run), Hiding', ~CleaningIn(run'), UNCHANGED <<store, gone>>
  PROVE  EventsInv'
<1>1. StoreOK(store) /\ Wired(store, {}) /\ OneOut(store, gone)
  BY Whole DEF EventsInv
<1>2. StoreInv(store, run', gone)
  BY <1>1, Whole
<1> QED
  BY <1>2 DEF EventsInv

\* One that does not.
LEMMA StoreKept ==
  ASSUME Hiding', ~CleaningIn(run'), StoreOK(store'), Wired(store', {}), OneOut(store', gone')
  PROVE  EventsInv'
<1>1. StoreInv(store', run', gone')
  BY Whole
<1> QED
  BY <1>1 DEF EventsInv

LEMMA CallHandlerKept ==
  ASSUME EventsInv, CallHandler
  PROVE  EventsInv'
<1>1. Hiding' /\ ~CleaningIn(run')
  BY DispatchHides, QuietIsClean DEF EventsInv
<1>2. TopIs("dispatch")
  BY DEF CallHandler
<1>3. /\ StackOK(run) /\ run # <<>> /\ Top = run[Len(run)] /\ DispatchShape(Top) /\ Len(run) \in Nat \ {0}
      /\ ~CleaningIn(run) /\ Top.f = "dispatch"
  BY <1>2, TopShape DEF EventsInv
<1>4. StoreOK(store) /\ Wired(store, {}) /\ OneOut(store, gone)
  BY <1>3, Whole DEF EventsInv
<1>5. PICK at, event : at = Top.at /\ event = TheEvent
  OBVIOUS
<1>6. at \in Elem /\ event.type \in EventType
  <2>1. Len(run) # 1
    BY <1>3 DEF StackOK
  <2>2. Len(run) - 1 \in 1..Len(run) - 1 /\ (Len(run) - 1) + 1 = Len(run) /\ Len(run) - 1 \in 1..Len(run)
    BY <1>3, <2>1
  <2>3. Over(run[Len(run) - 1], run[Len(run)])
    BY <1>3, <2>2 DEF StackOK
  <2>4. event.f = "event" /\ Shaped(event)
    BY <1>3, <1>5, <2>2, <2>3 DEF StackOK, Over, TheEvent
  <2>5. EventShape(event)
    BY <2>4 DEF Shaped, DispatchShape, HandlerShape, CleanShape
  <2> QED
    BY <1>3, <1>5, <2>5 DEF DispatchShape, EventShape
<1>7. PICK h : /\ Spent(at, event.type, h)
               /\ gone' = IF h.one THEN gone \union {[elem |-> at, type |-> event.type, h |-> h]} ELSE gone
  BY <1>5, Zenon DEF CallHandler
<1>8. CASE h.one
  <2>1. store' = WithoutHandlers(store, at, event.type, h.fn, h.sel, h.ns)
    BY <1>7, <1>8 DEF Spent
  <2>2. gone' = gone \union {[elem |-> at, type |-> event.type, h |-> h]}
    BY <1>7, <1>8
  <2>3. PICK t, w : t = event.type /\ w = store'
    OBVIOUS
  <2>4. w = WithoutHandlers(store, at, t, h.fn, h.sel, h.ns) /\ t \in EventType
    BY <1>6, <2>1, <2>3
  <2>5. StoreOK(w) /\ Wired(w, {}) /\ OneOut(w, gone \union {[elem |-> at, type |-> t, h |-> h]})
    BY <1>4, <1>6, <2>4, SpentKept
  <2> QED
    BY <1>1, <2>2, <2>3, <2>5, StoreKept
<1>9. CASE ~h.one
  <2>1. UNCHANGED <<store, gone>>
    BY <1>7, <1>9 DEF Spent
  <2> QED
    BY <1>1, <1>3, <2>1, StillKept
<1> QED
  BY <1>8, <1>9

-----------------------------------------------------------------------------
(***************************************************************************)
(* A cleaning.                                                             *)
(***************************************************************************)

CleanRecord(root, left, pc, at, id, types) ==
  [f |-> "clean", root |-> root, left |-> left, pc |-> pc, at |-> at, id |-> id, types |-> types]

LEMMA CleanFields ==
  ASSUME NEW root, NEW left, NEW pc, NEW at, NEW id, NEW types,
         NEW x, x = CleanRecord(root, left, pc, at, id, types)
  PROVE  /\ x.f = "clean" /\ x.root = root /\ x.left = left /\ x.pc = pc /\ x.at = at /\ x.id = id
         /\ x.types = types
BY DEF CleanRecord

LEMMA CleanSetLeft ==
  ASSUME NEW root, NEW left, NEW pc, NEW at, NEW id, NEW types, NEW a,
         NEW x, x = CleanRecord(root, left, pc, at, id, types),
         NEW y, y = [x EXCEPT !.left = a]
  PROVE  y = CleanRecord(root, a, pc, at, id, types)
BY DEF CleanRecord

LEMMA CleanSetTypes ==
  ASSUME NEW root, NEW left, NEW pc, NEW at, NEW id, NEW types, NEW a,
         NEW x, x = CleanRecord(root, left, pc, at, id, types),
         NEW y, y = [x EXCEPT !.types = a]
  PROVE  y = CleanRecord(root, left, pc, at, id, a)
BY DEF CleanRecord

LEMMA CleanSetPc ==
  ASSUME NEW root, NEW left, NEW pc, NEW at, NEW id, NEW types, NEW a,
         NEW x, x = CleanRecord(root, left, pc, at, id, types),
         NEW y, y = [x EXCEPT !.pc = a]
  PROVE  y = CleanRecord(root, left, a, at, id, types)
BY DEF CleanRecord

LEMMA CleanHas ==
  ASSUME NEW x, CleanShape(x)
  PROVE  /\ \E root, left, pc, at, id, types :
              /\ x = CleanRecord(root, left, pc, at, id, types)
              /\ x.left = left /\ x.pc = pc /\ x.at = at /\ x.id = id /\ x.types = types
         /\ x.left \subseteq Elem /\ x.at \in Elem /\ x.types \subseteq EventType
<1>1. x = CleanRecord(x.root, x.left, x.pc, x.at, x.id, x.types)
  BY Zenon DEF CleanShape, CleanRecord
<1> QED
  BY <1>1, Zenon DEF CleanShape

\* Only what is left of it, and of the element at turn, changes.
LEMMA CleanGoesOn ==
  ASSUME Hiding, TopIs("clean"), UNCHANGED triggered, NEW root,
         NEW left, left \subseteq Elem, NEW at \in Elem, NEW types, types \subseteq EventType, NEW pc, NEW id,
         NEW x, x = CleanRecord(root, left, pc, at, id, types), run' = WithTop(x)
  PROVE  /\ Hiding' /\ run' # <<>> /\ run'[Len(run')] = x
         /\ x.f = "clean" /\ x.left = left /\ x.pc = pc /\ x.at = at /\ x.id = id /\ x.types = types
<1>1. PICK top : top = Top
  OBVIOUS
<1>2. /\ run # <<>> /\ top = run[Len(run)] /\ top.f = "clean"
  BY <1>1, TopShape
<1>3. /\ x.f = "clean" /\ x.left = left /\ x.pc = pc /\ x.at = at /\ x.id = id /\ x.types = types
      /\ x.root = root
  BY CleanFields
<1>4. x = CleanRecord(x.root, x.left, x.pc, x.at, x.id, x.types)
  BY <1>3, Zenon
<1>5. CleanShape(x)
  BY <1>3, <1>4, Zenon DEF CleanShape, CleanRecord
<1>6. Shaped(x)
  BY <1>5 DEF Shaped
<1>7. ~NativeRuns(top) /\ Replaces(x, top)
  BY <1>2, <1>3 DEF NativeRuns, Replaces, OfBrowser
<1>8. Hiding' /\ run' # <<>> /\ run'[Len(run')] = x
  BY <1>2, <1>6, <1>7, SetTopHides
<1> QED
  BY <1>3, <1>8

LEMMA CleanElementKept ==
  ASSUME EventsInv, CleanElement
  PROVE  EventsInv'
<1>1. TopIs("clean") /\ Top.pc = "element" /\ UNCHANGED <<store, triggered, gone>> /\ Hiding
  BY DEF CleanElement, EventsInv
<1>2. PICK top : top = Top
  OBVIOUS
<1>3. /\ run # <<>> /\ top = run[Len(run)] /\ CleanShape(top) /\ ~CleaningIn(run)
  BY <1>1, <1>2, TopShape DEF CleaningIn
<1>4. StoreOK(store) /\ Wired(store, {}) /\ OneOut(store, gone)
  BY <1>3, Whole DEF EventsInv
<1>5. PICK e \in top.left :
        LET rest == [top EXCEPT !.left = @ \ {e}]
            types == {t \in EventType : Handlers(store, e, t).list # <<>>}
        IN run' = WithTop(IF ~HasEntry(store, e) THEN rest
                          ELSE [rest EXCEPT !.pc = "types", !.at = e, !.id = store.expando[e], !.types = types])
  BY <1>2, Zenon DEF CleanElement
<1>6. top.left \subseteq Elem /\ top.at \in Elem /\ top.types \subseteq EventType
  BY <1>3, CleanHas
<1>14. PICK root, left0, pc0, at0, id0, types0 :
         /\ top = CleanRecord(root, left0, pc0, at0, id0, types0)
         /\ top.left = left0 /\ top.pc = pc0 /\ top.at = at0 /\ top.id = id0 /\ top.types = types0
  BY <1>3, CleanHas
<1>7. e \in Elem
  BY <1>6
<1>8. PICK left, types : left = top.left \ {e} /\ types = {t \in EventType : Handlers(store, e, t).list # <<>>}
  OBVIOUS
<1>9. left \subseteq Elem /\ types \subseteq EventType
  BY <1>6, <1>8
<1>10. PICK rest : rest = [top EXCEPT !.left = left]
  OBVIOUS
<1>11. rest = CleanRecord(root, left, pc0, at0, id0, types0) /\ at0 \in Elem /\ types0 \subseteq EventType
  BY <1>6, <1>10, <1>14, CleanSetLeft
<1>12. CASE ~HasEntry(store, e)
  <2>1. run' = WithTop(rest)
    BY <1>5, <1>8, <1>10, <1>12
  <2>2. Hiding' /\ run' # <<>> /\ run'[Len(run')] = rest /\ rest.pc = pc0
    BY <1>1, <1>9, <1>11, <2>1, CleanGoesOn
  <2>3. ~CleaningIn(run')
    BY <1>1, <1>2, <1>14, <2>2 DEF CleaningIn
  <2> QED
    BY <1>1, <1>3, <2>2, <2>3, StillKept
<1>13. CASE HasEntry(store, e)
  <2>1. PICK id, x : id = store.expando[e] /\ x = [rest EXCEPT !.pc = "types", !.at = e, !.id = id, !.types = types]
    OBVIOUS
  <2>2. run' = WithTop(x)
    BY <1>5, <1>8, <1>10, <1>13, <2>1
  <2>3. x = CleanRecord(root, left, "types", e, id, types)
    <3>1. PICK pc : pc = "types"
      OBVIOUS
    <3>2. rest = CleanRecord(root, left, pc0, at0, id0, types0)
      BY <1>11
    <3>3. x = [rest EXCEPT !.pc = pc, !.at = e, !.id = id, !.types = types]
      BY <2>1, <3>1
    <3>4. x = CleanRecord(root, left, pc, e, id, types)
      <4>1. x = [[[[rest EXCEPT !.pc = pc] EXCEPT !.at = e] EXCEPT !.id = id] EXCEPT !.types = types]
        BY <3>3
      <4>2. [rest EXCEPT !.pc = pc] = CleanRecord(root, left, pc, at0, id0, types0)
        BY <3>2 DEF CleanRecord
      <4>3. [CleanRecord(root, left, pc, at0, id0, types0) EXCEPT !.at = e]
              = CleanRecord(root, left, pc, e, id0, types0)
        BY DEF CleanRecord
      <4>4. [CleanRecord(root, left, pc, e, id0, types0) EXCEPT !.id = id]
              = CleanRecord(root, left, pc, e, id, types0)
        BY DEF CleanRecord
      <4>5. [CleanRecord(root, left, pc, e, id, types0) EXCEPT !.types = types]
              = CleanRecord(root, left, pc, e, id, types)
        BY DEF CleanRecord
      <4> QED
        BY <4>1, <4>2, <4>3, <4>4, <4>5, Zenon
    <3> QED
      BY <3>1, <3>4
  <2>4. /\ Hiding' /\ run' # <<>> /\ run'[Len(run')] = x /\ x.f = "clean" /\ x.pc = "types" /\ x.at = e
        /\ x.id = id /\ x.types = types
    BY <1>1, <1>7, <1>9, <2>2, <2>3, CleanGoesOn
  <2>5. CleanedSoFar(store, e, id, types) /\ Wired(store, BareOf(e, types))
    BY <1>4, <1>7, <1>8, <1>13, <2>1, CleanBegins
  <2>6. BareIn(run') = BareOf(e, types)
    BY <2>4 DEF BareIn, CleaningIn
  <2>7. StoreInv(store, run', gone)
    BY <1>4, <2>4, <2>5, <2>6 DEF StoreInv
  <2> QED
    BY <1>1, <2>4, <2>7 DEF EventsInv
<1> QED
  BY <1>12, <1>13

\* What holds while the types of an element are done.
LEMMA AtTypes ==
  ASSUME EventsInv, TopIs("clean"), Top.pc = "types", NEW top, top = Top
  PROVE  /\ run # <<>> /\ top = run[Len(run)] /\ CleanShape(top) /\ Hiding
         /\ StoreOK(store) /\ Wired(store, BareOf(top.at, top.types)) /\ OneOut(store, gone)
         /\ CleanedSoFar(store, top.at, top.id, top.types)
<1>1. /\ run # <<>> /\ top = run[Len(run)] /\ CleanShape(top) /\ top.f = "clean"
  BY TopShape DEF EventsInv
<1>2. CleaningIn(run)
  BY <1>1 DEF CleaningIn
<1>3. BareIn(run) = BareOf(top.at, top.types)
  BY <1>1, <1>2 DEF BareIn
<1> QED
  BY <1>1, <1>2, <1>3 DEF EventsInv, StoreInv

LEMMA CleanTypeStepKept ==
  ASSUME EventsInv, CleanType
  PROVE  EventsInv'
<1>1. TopIs("clean") /\ Top.pc = "types" /\ UNCHANGED <<triggered, gone>>
  BY DEF CleanType
<1>2. PICK top : top = Top
  OBVIOUS
<1>3. /\ run # <<>> /\ top = run[Len(run)] /\ CleanShape(top) /\ Hiding
      /\ StoreOK(store) /\ Wired(store, BareOf(top.at, top.types)) /\ OneOut(store, gone)
      /\ CleanedSoFar(store, top.at, top.id, top.types)
  BY <1>1, <1>2, AtTypes
<1>4. PICK t \in top.types : /\ store' = CleanedType(store, top.at, t)
                             /\ run' = WithTop([top EXCEPT !.types = @ \ {t}])
  BY <1>2, Zenon DEF CleanType
<1>5. PICK e, id, types, w : e = top.at /\ id = top.id /\ types = top.types /\ w = store'
  OBVIOUS
<1>6. e \in Elem /\ types \in SUBSET EventType /\ t \in types /\ types \ {t} \subseteq EventType /\ top.left \subseteq Elem
  BY <1>3, <1>4, <1>5 DEF CleanShape
<1>7. /\ StoreOK(w) /\ CleanedSoFar(w, e, id, types \ {t}) /\ Wired(w, BareOf(e, types \ {t}))
      /\ OneOut(w, gone)
  <2>1. StoreOK(store) /\ CleanedSoFar(store, e, id, types) /\ Wired(store, BareOf(e, types)) /\ OneOut(store, gone)
    BY <1>3, <1>5
  <2>2. w = CleanedType(store, e, t)
    BY <1>4, <1>5
  <2> QED
    BY <1>6, <2>1, <2>2, CleanTypeKept
<1>8. PICK x, less : x = [top EXCEPT !.types = less] /\ less = types \ {t}
  OBVIOUS
<1>14. PICK root, left0, pc0, at0, id0, types0 :
         /\ top = CleanRecord(root, left0, pc0, at0, id0, types0)
         /\ top.left = left0 /\ top.pc = pc0 /\ top.at = at0 /\ top.id = id0 /\ top.types = types0
  BY <1>3, CleanHas
<1>15. x = CleanRecord(root, left0, pc0, at0, id0, less)
  BY <1>8, <1>14, CleanSetTypes
<1>9. x = CleanRecord(root, left0, pc0, e, id, less) /\ left0 \subseteq Elem /\ less \subseteq EventType
  BY <1>5, <1>6, <1>8, <1>14, <1>15
<1>10. run' = WithTop(x)
  BY <1>4, <1>5, <1>8
<1>11. /\ Hiding' /\ run' # <<>> /\ run'[Len(run')] = x /\ x.f = "clean" /\ x.pc = pc0 /\ x.at = e
       /\ x.id = id /\ x.types = less
  BY <1>1, <1>3, <1>6, <1>9, <1>10, CleanGoesOn
<1>12. BareIn(run') = BareOf(e, types \ {t})
  BY <1>1, <1>2, <1>8, <1>11, <1>14 DEF BareIn, CleaningIn
<1>13. StoreInv(w, run', gone)
  BY <1>7, <1>8, <1>11, <1>12 DEF StoreInv
<1> QED
  BY <1>1, <1>5, <1>11, <1>13 DEF EventsInv

LEMMA CleanEntryStepKept ==
  ASSUME EventsInv, CleanEntry
  PROVE  EventsInv'
<1>1. TopIs("clean") /\ Top.pc = "types" /\ Top.types = {} /\ UNCHANGED <<triggered, gone>>
  BY DEF CleanEntry
<1>2. PICK top : top = Top
  OBVIOUS
<1>3. /\ run # <<>> /\ top = run[Len(run)] /\ CleanShape(top) /\ Hiding
      /\ StoreOK(store) /\ Wired(store, BareOf(top.at, top.types)) /\ OneOut(store, gone)
      /\ CleanedSoFar(store, top.at, top.id, top.types)
  BY <1>1, <1>2, AtTypes
<1>4. store' = CleanedEntry(store, top.at, top.id) /\ run' = WithTop([top EXCEPT !.pc = "element"])
  BY <1>2 DEF CleanEntry
<1>5. PICK e, id, types, w : e = top.at /\ id = top.id /\ types = top.types /\ w = store'
  OBVIOUS
<1>6. e \in Elem /\ types \subseteq EventType /\ top.left \subseteq Elem
  BY <1>3, <1>5 DEF CleanShape
<1>7. StoreOK(w) /\ Wired(w, {}) /\ OneOut(w, gone)
  <2>1. types = {}
    BY <1>1, <1>2, <1>5
  <2>2. StoreOK(store) /\ CleanedSoFar(store, e, id, {}) /\ Wired(store, BareOf(e, {})) /\ OneOut(store, gone)
    BY <1>3, <1>5, <2>1
  <2>3. w = CleanedEntry(store, e, id)
    BY <1>4, <1>5
  <2> QED
    BY <1>6, <2>2, <2>3, CleanEntryKept
<1>8. PICK x : x = [top EXCEPT !.pc = "element"]
  OBVIOUS
<1>13. PICK root, left0, pc0, at0, id0, types0 :
         /\ top = CleanRecord(root, left0, pc0, at0, id0, types0)
         /\ top.left = left0 /\ top.pc = pc0 /\ top.at = at0 /\ top.id = id0 /\ top.types = types0
  BY <1>3, CleanHas
<1>9. x = CleanRecord(root, left0, "element", e, id, types) /\ left0 \subseteq Elem
  BY <1>5, <1>6, <1>8, <1>13, CleanSetPc
<1>10. run' = WithTop(x)
  BY <1>4, <1>8
<1>11. Hiding' /\ run' # <<>> /\ run'[Len(run')] = x /\ x.pc = "element"
  BY <1>1, <1>3, <1>6, <1>9, <1>10, CleanGoesOn
<1>12. ~CleaningIn(run')
  BY <1>11 DEF CleaningIn
<1> QED
  BY <1>1, <1>5, <1>7, <1>11, <1>12, StoreKept

LEMMA EndCleanKept ==
  ASSUME EventsInv, EndClean
  PROVE  EventsInv'
<1>1. TopIs("clean") /\ Top.pc = "element" /\ UNCHANGED <<store, triggered, gone>> /\ run' = Below /\ Hiding
  BY DEF EndClean, EventsInv
<1>2. run # <<>> /\ Top = run[Len(run)] /\ Top.f = "clean"
  BY <1>1, TopShape
<1>3. ~CleaningIn(run) /\ ~NativeRuns(run[Len(run)])
  BY <1>1, <1>2 DEF CleaningIn, NativeRuns
<1>4. Hiding' /\ ~CleaningIn(run')
  BY <1>1, <1>2, <1>3, PopHides, QuietIsClean
<1> QED
  BY <1>1, <1>3, <1>4, StillKept

-----------------------------------------------------------------------------
(***************************************************************************)
(* Calls of the page.                                                      *)
(***************************************************************************)

\* remove() begins with the cleaning.
LEMMA DoRemoveKept ==
  ASSUME EventsInv, NEW e \in Elem, DoRemove(e)
  PROVE  EventsInv'
<1>1. PageRuns /\ run' = run \o <<CleanFrame(e)>> /\ UNCHANGED <<store, triggered, gone>> /\ Hiding
  BY DEF DoRemove, Spend, EventsInv
<1>2. PICK x, left : left = Under(e) /\ x = CleanFrame(e)
  OBVIOUS
<1>3. left \subseteq Elem
  BY <1>2 DEF Under
<1>4. x = [f |-> "clean", root |-> e, left |-> left, pc |-> "element", at |-> e, id |-> 0, types |-> {}]
  BY <1>2 DEF CleanFrame
<1>5. x.f = "clean" /\ x.left = left /\ x.at = e /\ x.types = {} /\ x.pc = "element"
  BY <1>4
<1>6. x = [f |-> "clean", root |-> x.root, left |-> x.left, pc |-> x.pc, at |-> x.at, id |-> x.id,
           types |-> x.types]
  BY <1>4
<1>7. Shaped(x)
  BY <1>3, <1>5, <1>6 DEF Shaped, CleanShape
<1>8. Hiding' /\ run'[Len(run')] = x
  BY <1>1, <1>2, <1>5, <1>7, PageIsQuiet, PushHides
<1>9. ~CleaningIn(run')
  BY <1>5, <1>8 DEF CleaningIn
<1> QED
  BY <1>1, <1>8, <1>9, PageIsQuiet, StillKept

\* Data, and handlers bound and unbound.
LEMMA StoreCallKept ==
  ASSUME EventsInv,
         \/ \E e \in Elem, k \in Key : DoRemoveData(e, k) \/ DoSetData(e, k)
         \/ \E b \in Bindings : DoBind(b) \/ \E all \in BOOLEAN : DoUnbind(b, all)
  PROVE  EventsInv'
<1>1. PageRuns /\ UNCHANGED <<triggered, run>>
  BY DEF DoRemoveData, DoSetData, DoBind, DoUnbind, Spend
<1>2. ~CleaningIn(run) /\ ~CleaningIn(run') /\ Hiding'
  BY <1>1, PageIsQuiet DEF EventsInv, Hiding
<1>3. StoreOK(store) /\ Wired(store, {}) /\ OneOut(store, gone)
  BY <1>2, Whole DEF EventsInv
<1>4. PICK w : w = store'
  OBVIOUS
<1>5. ASSUME NEW e \in Elem, NEW k \in Key, DoRemoveData(e, k) \/ DoSetData(e, k)
      PROVE  EventsInv'
  <2>1. (w = WithData(store, e, k) \/ w = WithoutData(store, e, k)) /\ gone' = gone
    BY <1>4, <1>5 DEF DoRemoveData, DoSetData
  <2>2. StoreOK(w) /\ SameLists(w, store) /\ SameListeners(w, store)
    BY <1>3, <2>1, WithDataOK, WithoutDataOK
  <2>3. Wired(w, {}) /\ OneOut(w, gone)
    BY <1>3, <2>2, DataKept
  <2> QED
    BY <1>2, <1>4, <2>1, <2>2, <2>3, StoreKept
<1>6. ASSUME NEW b \in Bindings, DoBind(b)
      PROVE  EventsInv'
  <2>1. PICK e, t, h : e = b.elem /\ t = b.type /\ h = b.h
    OBVIOUS
  <2>2. e \in Elem /\ t \in EventType
    BY <2>1, EventsAssumption
  <2>3. w = WithHandler(store, e, t, h) /\ gone' = gone \ {[elem |-> e, type |-> t, h |-> h]}
    BY <1>4, <1>6, <2>1 DEF DoBind
  <2>4. StoreOK(w) /\ Wired(w, {}) /\ OneOut(w, gone')
    BY <1>3, <2>2, <2>3, BindKept
  <2> QED
    BY <1>2, <1>4, <2>4, StoreKept
<1>7. ASSUME NEW b \in Bindings, NEW all \in BOOLEAN, DoUnbind(b, all)
      PROVE  EventsInv'
  <2>1. PICK e, t : e = b.elem /\ t = b.type
    OBVIOUS
  <2>2. e \in Elem /\ t \in EventType
    BY <2>1, EventsAssumption
  <2>3. PICK fn, sel, ns : w = WithoutHandlers(store, e, t, fn, sel, ns)
    BY <1>4, <1>7, <2>1, Zenon DEF DoUnbind
  <2>4. gone' = gone
    BY <1>7 DEF DoUnbind
  <2>5. PICK bare : bare = {}
    OBVIOUS
  <2>6. Wired(store, bare)
    BY <1>3, <2>5
  <2>7. StoreOK(w) /\ Wired(w, bare) /\ OneOut(w, gone)
    BY <1>3, <2>2, <2>3, <2>6, UnbindKept, SMTT(60)
  <2> QED
    BY <1>2, <1>4, <2>4, <2>5, <2>7, StoreKept
<1> QED
  BY <1>5, <1>6, <1>7

LEMMA EventsStep == EventsInv /\ [Next]_vars => EventsInv'
<1> SUFFICES ASSUME EventsInv, [Next]_vars
             PROVE  EventsInv'
  OBVIOUS
<1>0. Hiding
  BY DEF EventsInv
<1>1. ASSUME ~CleaningIn(run), Hiding' /\ Quiet(run'), UNCHANGED <<store, gone>>
      PROVE  EventsInv'
  BY <1>1, QuietIsClean, StillKept
<1>2. CASE Reach \/ Return \/ Throw \/ Default \/ BrowserDefault
  <2>1. Hiding' /\ Quiet(run')
    BY <1>0, <1>2, ReachHides, ReturnHides, ThrowHides, DefaultHides, BrowserDefaultHides
  <2>2. UNCHANGED <<store, gone>> /\ (TopIs("event") \/ TopIs("fn"))
    BY <1>2 DEF Reach, Return, Throw, Default, BrowserDefault, Walked
  <2>3. ~CleaningIn(run)
    BY <1>0, <2>2, TopShape
  <2> QED
    BY <1>1, <2>1, <2>2, <2>3
<1>3. CASE NextGroup \/ EndDispatch
  <2>1. Hiding' /\ Quiet(run')
    BY <1>0, <1>3, DispatchHides
  <2>2. UNCHANGED <<store, gone>> /\ TopIs("dispatch")
    BY <1>3 DEF NextGroup, EndDispatch
  <2>3. ~CleaningIn(run)
    BY <1>0, <2>2, TopShape
  <2> QED
    BY <1>1, <2>1, <2>2, <2>3
<1>4. CASE Defaulted
  <2>1. TopIs("event") /\ run' = Below /\ triggered' = "" /\ UNCHANGED <<store, gone>>
    BY <1>4 DEF Defaulted, Lifted
  <2>0. TopIs("event")
    BY <1>4 DEF Defaulted
  <2>2. StackOK(run) /\ run # <<>> /\ Below = Front(run) /\ ~CleaningIn(run)
    BY <1>0, <2>0, TopShape
  <2>3. StackOK(Front(run)) /\ Quiet(Front(run))
    BY <2>2, PopOK
  <2>4. Hiding' /\ Quiet(run')
    BY <2>1, <2>2, <2>3 DEF Hiding
  <2> QED
    BY <1>1, <2>1, <2>2, <2>4
<1>5. CASE CallHandler
  BY <1>5, CallHandlerKept
<1>6. CASE CleanElement \/ CleanType \/ CleanEntry \/ EndClean
  BY <1>6, CleanElementKept, CleanTypeStepKept, CleanEntryStepKept, EndCleanKept
<1>7. ASSUME NEW e \in Elem, DoRemove(e)
      PROVE  EventsInv'
  BY <1>7, DoRemoveKept
<1>8. ASSUME NEW e \in Elem, NEW t \in EventType,
             UserEvent(e, t) \/ \E only \in BOOLEAN : DoTrigger(e, t, only)
      PROVE  EventsInv'
  <2>1. PageRuns /\ UNCHANGED <<store, triggered, gone>>
    BY <1>8 DEF UserEvent, DoTrigger, Spend, PageRuns
  <2>2. \E by, only : \/ run' = run \o <<EventFrame(by, e, t, only)>>
                      \/ run = <<>> /\ run' = <<EventFrame(by, e, t, only)>>
    BY <1>8, Zenon DEF UserEvent, DoTrigger
  <2>3. Hiding' /\ Quiet(run')
    BY <1>0, <2>1, <2>2, CallHides
  <2> QED
    BY <1>1, <2>1, <2>3, PageIsQuiet
<1>9. CASE \/ \E e \in Elem, k \in Key : DoRemoveData(e, k) \/ DoSetData(e, k)
           \/ \E b \in Bindings : DoBind(b) \/ \E all \in BOOLEAN : DoUnbind(b, all)
  BY <1>9, StoreCallKept
<1>10. CASE UNCHANGED vars
  BY <1>10 DEF vars, EventsInv, Hiding
<1> QED
  BY <1>2, <1>3, <1>4, <1>5, <1>6, <1>7, <1>8, <1>9, <1>10 DEF Next

\* A page on which nothing was bound yet.
LEMMA EventsInit == Init => EventsInv
<1> SUFFICES ASSUME Init
             PROVE  EventsInv
  OBVIOUS
<1>1. run = <<>> /\ triggered = "" /\ gone = {} /\ store = NewStore
  BY DEF Init
<1>2. StackOK(<<>>) /\ Len(<<>>) = 0
  BY StackEmpty DEF StackOK
<1>3. Hiding
  BY <1>1, <1>2 DEF Hiding
<1>4. /\ store.cache = <<>> /\ store.expando = [e \in Elem |-> 0] /\ store.deletedIds = <<>> /\ store.guid = 1
      /\ store.native = {} /\ store.attaches = 0
  BY <1>1 DEF NewStore
<1>5. StoreShape(store)
  BY <1>1, <1>4 DEF StoreShape, NewStore
<1>6. DOMAIN store.cache = {}
  BY <1>4
<1>7. Numbers(store)
  <2>1. Stack(store.deletedIds) /\ Len(store.deletedIds) = 0
    BY <1>4, StackEmpty
  <2>2. store.cache = [i \in DOMAIN store.cache |-> store.cache[i]]
    BY <1>4, <1>6
  <2>3. 1..Len(store.deletedIds) = {}
    BY <2>1
  <2>4. store.expando \in [Elem -> Nat] /\ \A e \in Elem : store.expando[e] = 0
    BY <1>4
  <2> QED
    BY <1>4, <1>5, <1>6, <2>1, <2>2, <2>3, <2>4 DEF Numbers, NumbersOK
<1>8. StoreOK(store)
  BY <1>6, <1>7 DEF StoreOK, Entries
<1>9. \A e \in Elem, t \in EventType : ~Wants(store, e, t)
  BY <1>6, NoHandlersOK DEF Wants, Handlers, HasEntry
<1>10. Wired(store, {})
  <2>1. Heard(store) = {}
    BY <1>9 DEF Heard
  <2>2. Wanting(store) = {}
    BY <1>9, EventsAssumption DEF Wanting
  <2> QED
    BY <1>4, <2>1, <2>2, FS_EmptySet DEF Wired
<1>11. OneOut(store, gone)
  BY <1>1 DEF OneOut
<1>12. ~CleaningIn(run)
  BY <1>1 DEF CleaningIn
<1> QED
  BY <1>3, <1>8, <1>10, <1>11, <1>12, Whole DEF EventsInv

-----------------------------------------------------------------------------
\* However events nest, and whatever is thrown, when no script runs no event is
\* hidden from its handlers: the hiding of a triggered event ends with its
\* native method.
THEOREM HidingEndsAlways == Spec => []HidingEnds
<1>1. EventsInv => HidingEnds
  <2> SUFFICES ASSUME EventsInv, run = <<>>
               PROVE  triggered = ""
    BY DEF HidingEnds
  <2>1. ~Native(run)
    BY StackEmpty DEF Native
  <2> QED
    BY <2>1 DEF EventsInv, Hiding
<1> QED
  BY <1>1, EventsInit, EventsStep, PTL DEF Spec

\* Whatever is bound, unbound, removed, spent and thrown in whatever order, the
\* cache never holds an entry with nothing in it.
THEOREM NothingLeftAlways == Spec => []NothingLeft
<1>1. EventsInv => NothingLeft
  BY DEF EventsInv, StoreInv, StoreOK, Entries, EntryOK, NothingLeft
<1> QED
  BY <1>1, EventsInit, EventsStep, PTL DEF Spec

\* Whenever a script runs or an event comes, the browser calls the listeners of
\* exactly the elements and types that have handlers, focusin is simulated for
\* as many elements as want it, and the delegates of a list are in front.
THEOREM ListenersMatchAlways == Spec => []ListenersMatch
<1>1. EventsInv => ListenersMatch
  <2> SUFFICES ASSUME EventsInv, ~TopIs("clean")
               PROVE  /\ store.native = {p \in Elem \X EventType : ~HasSetup(p[2]) /\ Handlers(store, p[1], p[2]).list # <<>>}
                      /\ store.attaches = Cardinality({e \in Elem : Handlers(store, e, "focusin").list # <<>>})
                      /\ \A i \in DOMAIN store.cache :
                           /\ store.cache[i].handle <=> HasEvents(store.cache[i])
                           /\ \A t \in EventType :
                                \A j \in DOMAIN store.cache[i].events[t].list :
                                  store.cache[i].events[t].list[j].sel # Nothing
                                    <=> j <= store.cache[i].events[t].delegateCount
    BY DEF ListenersMatch
  <2>1. ~CleaningIn(run)
    BY DEF CleaningIn, TopIs, Top
  <2>2. StoreOK(store) /\ Wired(store, {})
    BY <2>1, Whole DEF EventsInv
  <2>3. Heard(store) \ {} = Heard(store)
    OBVIOUS
  <2>4. store.native = {p \in Elem \X EventType : ~HasSetup(p[2]) /\ Handlers(store, p[1], p[2]).list # <<>>}
    BY <2>2, <2>3 DEF Wired, Heard, Wants
  <2>5. store.attaches = Cardinality({e \in Elem : Handlers(store, e, "focusin").list # <<>>})
    BY <2>2 DEF Wired, Wanting, Wants
  <2>6. ASSUME NEW i \in DOMAIN store.cache
        PROVE  /\ store.cache[i].handle <=> HasEvents(store.cache[i])
               /\ \A t \in EventType :
                    \A j \in DOMAIN store.cache[i].events[t].list :
                      store.cache[i].events[t].list[j].sel # Nothing
                        <=> j <= store.cache[i].events[t].delegateCount
    <3>1. PICK c : c = store.cache[i]
      OBVIOUS
    <3>2. EntryShape(c)
      BY <2>2, <3>1 DEF StoreOK, Entries, EntryOK
    <3>3. ASSUME NEW t \in EventType, NEW j \in DOMAIN c.events[t].list
          PROVE  c.events[t].list[j].sel # Nothing <=> j <= c.events[t].delegateCount
      <4>1. HandlersOK(c.events[t])
        BY <3>2 DEF EntryShape
      <4>2. j \in 1..Len(c.events[t].list)
        BY <4>1, StackLen DEF HandlersOK
      <4> QED
        BY <4>1, <4>2 DEF HandlersOK
    <3> QED
      BY <3>1, <3>2, <3>3 DEF EntryShape
  <2> QED
    BY <2>4, <2>5, <2>6
<1> QED
  BY <1>1, EventsInit, EventsStep, PTL DEF Spec

\* A handler of one() that was called is in no list, whatever its function did,
\* until the page binds it again.
THEOREM OneIsGoneAlways == Spec => []OneIsGone
<1>1. EventsInv => OneIsGone
  <2> SUFFICES ASSUME EventsInv, NEW e \in Elem, NEW t \in EventType,
                      NEW j \in DOMAIN Handlers(store, e, t).list
               PROVE  [elem |-> e, type |-> t, h |-> Handlers(store, e, t).list[j]] \notin gone
    BY DEF OneIsGone
  <2>1. StoreOK(store) /\ OneOut(store, gone)
    BY DEF EventsInv, StoreInv
  <2>2. HandlersOK(Handlers(store, e, t))
    BY <2>1, TheirHandlers
  <2>3. j \in 1..Len(Handlers(store, e, t).list)
    BY <2>2, StackLen DEF HandlersOK
  <2> QED
    BY <2>1, <2>3 DEF OneOut
<1> QED
  BY <1>1, EventsInit, EventsStep, PTL DEF Spec
=============================================================================
