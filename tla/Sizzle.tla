------------------------------- MODULE Sizzle -------------------------------
(***************************************************************************)
(* The library's own search for a selector, as it runs where the browser's *)
(* querySelectorAll cannot answer.  A search is one call, but not a pure   *)
(* one: it leaves memory behind, in the library and on the elements, which *)
(* the rest of the same search, a search nested in it and every later one  *)
(* read.  Every operator takes that memory, m, and returns it.             *)
(*                                                                         *)
(*   run         dirruns: an integer for an outermost search, then a part  *)
(*               no earlier draw of Math.random had                        *)
(*   cachedruns  which element of a search is matched now                  *)
(*   outermost   outermostContext: None when no search runs, Doc (false in *)
(*               the code) for the document                                *)
(*   dirs        what elem[expando][dir] says: for the combinator and run  *)
(*               in its key, matched or not, and when it was found not to  *)
(*   nth, last   elem[expando].nth of a parent, elem[expando]["nth-last"]  *)
(*   runs        matcherCachedRuns of every compiled function              *)
(***************************************************************************)
EXTENDS Selectors

CONSTANTS CacheLength  \* Expr.cacheLength

NewMemory ==
  [run |-> <<0, 0>>, draws |-> 0, cachedruns |-> 0, outermost |-> None,
   dirs |-> <<>>, nth |-> <<>>, last |-> <<>>, runs |-> <<>>,
   compiled |-> <<>>, tokens |-> <<>>]

With(f, x, y) == [z \in DOMAIN f \cup {x} |-> IF z = x THEN y ELSE f[z]]
Answer(ok, m) == [ok |-> ok, m |-> m]
Found(out, m) == [out |-> out, m |-> m]

\* A cache of createCache: the oldest entry leaves when there are too many.
CacheHas(cache, key) == \E i \in DOMAIN cache : cache[i].key = key
CacheGet(cache, key) == cache[CHOOSE i \in DOMAIN cache : cache[i].key = key].value
CachePut(cache, key, value) ==
  LET c == Append(cache, [key |-> key, value |-> value])
  IN  IF Len(c) > CacheLength THEN Tail(c) ELSE c

\* Mutation of NextRun: a search does not change the number of runs.
NextRunSame(m) == IF m.outermost = None THEN m
  ELSE [m EXCEPT !.draws = @ + 1, !.run = <<@[1], m.draws + 1>>]

\* dirruns += 1, or a random part for a search within another.
NextRun(m) ==
  IF m.outermost = None THEN [m EXCEPT !.run = <<@[1] + 1, 0>>]
  ELSE [m EXCEPT !.draws = @ + 1, !.run = <<@[1], m.draws + 1>>]

Dir(rel) == IF rel \in {">", " "} THEN "parentNode" ELSE "previousSibling"

Next1(d, dir, e) ==
  IF e = Doc THEN None
  ELSE IF dir = "parentNode" THEN d.up[e]
  ELSE IF Before(d, e) = <<>> THEN None ELSE Last(Before(d, e))

\* :nth-child counts on from the child its parent remembers of this run, and
\* from the first child when that one is not before the element.
CountOf(d, ks, from, to) == Cardinality({j \in from .. to : IsElement(d, ks[j])})

NthForward(m, d, e) ==
  LET p == d.up[e]
      ks == d.kids[p]
      i == IndexOf(ks, e)
      c == IF p \in DOMAIN m.nth THEN m.nth[p] ELSE [run |-> <<-1, 0>>, at |-> 0, diff |-> 0]
      on == c.run = m.run /\ c.at > 0 /\ i > c.at + 1
      diff == IF on THEN c.diff + CountOf(d, ks, c.at + 2, i) ELSE CountOf(d, ks, 1, i)
  IN  [n |-> diff, m |-> [m EXCEPT !.nth = With(@, p, [run |-> m.run, at |-> i - 1, diff |-> diff])]]

\* :nth-last-child leaves the count with every element it passes.
NthBackward(m, d, e) ==
  LET ks == d.kids[d.up[e]]
      i == IndexOf(ks, e)
      passed == {ks[j] : j \in {k \in i .. Len(ks) : IsElement(d, ks[k])}}
      count(x) == CountOf(d, ks, IndexOf(ks, x), Len(ks))
  IN  IF e \in DOMAIN m.last /\ m.last[e].run = m.run THEN [n |-> m.last[e].diff, m |-> m]
      ELSE [n |-> count(e),
            m |-> [m EXCEPT !.last = [x \in DOMAIN @ \cup passed |->
                     IF x \in passed THEN [run |-> m.run, diff |-> count(x)] ELSE @[x]]]]

\* first, last and only: no element on the side(s) looked at.
Alone(d, kind, e) ==
  LET ks == d.kids[d.up[e]]
      i == IndexOf(ks, e)
  IN  /\ kind \in {"first", "only"} => CountOf(d, ks, 1, i - 1) = 0
      /\ kind \in {"last", "only"} => CountOf(d, ks, i + 1, Len(ks)) = 0

\* The count against the cycle and the offset.
Cycle(t, diff) == diff = t.n \/ (IF t.n = 0 THEN diff = 0 ELSE diff % t.n = 0 /\ diff >= 0)
InCycle(t, r) == Answer(Cycle(t, r.n - t.k), r.m)

Child(m, d, t, e) ==
  IF t.n = 1 /\ t.k = 0 /\ t.name \in {"nth", "nth-last"} THEN Answer(d.up[e] # None, m)
  ELSE IF t.name \notin {"nth", "nth-last"} THEN Answer(Alone(d, t.name, e), m)
  ELSE InCycle(t, IF t.name = "nth" THEN NthForward(m, d, e) ELSE NthBackward(m, d, e))

RECURSIVE MatchTo(_, _, _, _, _, _, _), Walk(_, _, _, _, _, _, _, _), Nearest(_, _, _, _),
          Search(_, _, _, _, _), Select(_, _, _, _, _, _),
          Compile(_, _), PositionsOf(_, _, _, _, _), NeedsContext(_), RSibling(_)

Nearest(d, dir, e, all) ==
  LET x == Next1(d, dir, e)
  IN  IF x = None \/ all \/ IsElement(d, x) THEN x ELSE Nearest(d, dir, x, all)

\* The groups js are tried in turn; path names the place of a combinator.
TrySome(m, d, gs, js, x, c, path) ==
  FoldLeft(LAMBDA a, j : IF a.ok THEN a
             ELSE MatchTo(a.m, d, gs[j], Len(gs[j]), x, c, Append(path, j)),
           Answer(FALSE, m), js)

Backwards(gs) == Reverse([i \in DOMAIN gs |-> i])
Unlike(r) == Answer(~r.ok, r.m)
AnyFound(r) == Answer(r.out # <<>>, r.m)

Filter(m, d, t, e, path) ==
  CASE t.type \in {"TAG", "CLASS", "ID"} -> Answer(Fits(d, t, e), m)
    [] t.type = "CHILD" -> Child(m, d, t, e)
    [] t.type = "NOT" -> Unlike(TrySome(NextRun(m), d, t.of, Backwards(t.of), e, None, path))
    [] t.type = "HAS" -> AnyFound(Search(m, d, t.of, e, <<>>))

\* What a combinator (or the check of the context, at the front of a group)
\* asks of a node it leads to.
Reached(m, d, ts, i, x, c, path) ==
  IF i <= 1 THEN Answer(x = c, m) ELSE MatchTo(m, d, ts, i - 1, x, c, path)

\* What is remembered of a node decides, when it matched or when it was seen
\* for the element that is matched now.
Known(entry, m) == entry.yes \/ entry.run = m.cachedruns

Entry(key, yes, run) == [key |-> key, yes |-> yes, run |-> run]

\* What came of it; a search within may have put its own entry in the place.
Remembered(r, at, key) ==
  [r EXCEPT !.m = IF @.dirs[at].key = key
                    THEN [@ EXCEPT !.dirs[at] = Entry(key, r.ok, r.m.cachedruns)] ELSE @]

WalkOn(r, d, ts, i, x, c, path, key) ==
  IF r.ok THEN r ELSE Walk(r.m, d, ts, i, x, c, path, key)

Walk(m, d, ts, i, e, c, path, key) ==
  LET dir == Dir(IF i = 0 THEN " " ELSE ts[i].type)
      x == Nearest(d, dir, e, i <= 1 /\ dir = "parentNode")
      at == <<x, dir>>
      seen == at \in DOMAIN m.dirs /\ m.dirs[at].key = key
      asked == [m EXCEPT !.dirs = With(@, at, Entry(key, FALSE, -1))]
  IN  IF x = None \/ (seen /\ Known(m.dirs[at], m)) THEN Answer(x # None /\ m.dirs[at].yes, m)
      ELSE WalkOn(IF seen THEN Answer(FALSE, m)
                  ELSE Remembered(Reached(asked, d, ts, i, x, c, path), at, key),
                  d, ts, i, x, c, path, key)

Combine(m, d, ts, i, e, c, path) ==
  LET rel == IF i = 0 THEN " " ELSE ts[i].type
      x == Nearest(d, Dir(rel), e, i <= 1 /\ Dir(rel) = "parentNode")
  IN  IF rel \notin {">", "+"} THEN Walk(m, d, ts, i, e, c, path, <<m.run, Append(path, i)>>)
      ELSE IF x = None THEN Answer(FALSE, m)
      ELSE Reached(m, d, ts, i, x, c, path)

Onwards(r, d, ts, i, e, c, path) ==
  IF r.ok THEN MatchTo(r.m, d, ts, i - 1, e, c, path) ELSE r

\* The first i tokens of a group, from the right.  Only the element the group
\* starts with is held against the context, and only in the outermost search.
MatchTo(m, d, ts, i, e, c, path) ==
  IF i = 0 /\ (c = Doc \/ c # m.outermost) THEN Answer(TRUE, m)
  ELSE IF i = 0 \/ IsRelative(ts[i]) THEN Combine(m, d, ts, i, e, c, path)
  ELSE Onwards(Filter(m, d, ts[i], e, Append(path, i)), d, ts, i, e, c, path)

\* compile: a function, by its number in runs; the filters of its :not()s are
\* compiled with it.
Compile(m, key) ==
  IF CacheHas(m.compiled, key) THEN m
  ELSE LET nots == SelectSeq(FlattenSeq(Reverse(key)), LAMBDA t : t.type = "NOT")
           m1 == FoldLeft(LAMBDA a, t : Compile(a, t.of), m, nots)
       IN  [m1 EXCEPT !.runs = Append(@, 0),
                      !.compiled = CachePut(@, key, Len(m1.runs) + 1)]

\* condense with a filter: the elements of a list that the first i tokens of a
\* group hold of.  None stands for a place that has been emptied.
Keeping(out, x, r) == Found(IF r.ok THEN Append(out, x) ELSE out, r.m)

Condense(a, d, ts, c, path) ==
  IF ts = <<>> THEN a
  ELSE FoldLeft(LAMBDA b, x : Keeping(b.out, x, MatchTo(b.m, d, ts, Len(ts), x, c, path)),
                Found(<<>>, a.m), SelectSeq(a.out, LAMBDA x : x # None))

HasPosition(ts) == \E i \in DOMAIN ts : IsPosition(ts[i])
NextRelative(ts, p) ==
  LET js == {j \in p .. Len(ts) : IsRelative(ts[j])}
  IN  IF js = {} THEN Len(ts) + 1 ELSE CHOOSE j \in js : \A k \in js : j <= k

\* createPositionalPseudo: a list keeps what is at the positions.
AtPositions(t, a) ==
  LET at == SetToSortSeq(Taken(t, Len(a.out)), <)
  IN  Found(SelectSeq([i \in DOMAIN at |-> a.out[at[i] + 1]], LAMBDA x : x # None), a.m)

\* setMatcher with a seed: the tokens before the positional thin the seed out,
\* those after it thin out what it took.
TakeOn(a, d, ts, p, c, path) ==
  IF p > Len(ts) THEN a
  ELSE PositionsOf(AtPositions(ts[p], a), d, SubSeq(ts, p + 1, Len(ts)), c, Append(path, p))

PositionsOf(a, d, ts, c, path) ==
  LET p == IF HasPosition(ts) THEN AtPosition(ts) ELSE Len(ts) + 1
  IN  TakeOn(Condense(a, d, SubSeq(ts, 1, p - 1), c, path), d, ts, p, c, path)

MultipleContexts(m, d, sel, cs, results) ==
  FoldLeft(LAMBDA a, c : Search(a.m, d, sel, c, a.out), Found(results, m), cs)

\* What a positional's group found, or what is led on to from there.
LedOn(a, d, ts, j) ==
  IF j > Len(ts) THEN a ELSE MultipleContexts(a.m, d, <<SubSeq(ts, j, Len(ts))>>, a.out, <<>>)

Behind(results, r) == Found(results \o r.out, r.m)

\* setMatcher without a seed: the tokens before the positional are searched for
\* anew.
SetFound(m, d, ts, results, c, path) ==
  LET p == AtPosition(ts)
      j == NextRelative(ts, p)
      before == Closed(SubSeq(ts, 1, p - 1))
      sel == IF before = <<>> THEN <<<<Tag("*")>>>> ELSE <<before>>
      took == AtPositions(ts[p], MultipleContexts(m, d, sel, <<c>>, <<>>))
  IN  Behind(results, LedOn(PositionsOf(took, d, SubSeq(ts, p + 1, j - 1), c, path), d, ts, j))

Backward(a) == Found(Reverse(a.out), a.m)
Staying(xs, r) == Found(SelectSeq(xs, LAMBDA x : x \in ToSet(r.out)), r.m)

\* With a seed, what was matched stays at its place in the list.
LedBack(s, d, ts, xs, j) ==
  IF j > Len(ts) THEN s ELSE Staying(xs, LedOn(Backward(s), d, ts, j))

SetKept(m, d, ts, xs, c, path) ==
  LET j == NextRelative(ts, AtPosition(ts))
  IN  LedBack(PositionsOf(Found(xs, m), d, SubSeq(ts, 1, j - 1), c, path), d, ts, xs, j)

(***************************************************************************)
(* superMatcher, outermost: every element in turn against the groups that  *)
(* have no positional, then the others with what is left.                  *)
(***************************************************************************)
Indices(gs, set) ==
  SelectSeq(Backwards(gs), LAMBDA i : HasPosition(gs[i]) = set)

\* Mutation of NextElement: the number of the element stays the same.
NextElementUncounted(m, no, unique) == [m EXCEPT !.run = unique, !.cachedruns = m.runs[no]]

\* Between two elements what nested searches changed is put back.
NextElement(m, no, unique) ==
  [m EXCEPT !.run = unique, !.cachedruns = m.runs[no] + 1, !.runs[no] = @ + 1]

EachElement(m, d, gs, no, xs, c, unique) ==
  FoldLeft(LAMBDA a, x :
             [Keeping(a.out, x, TrySome(a.m, d, gs, Indices(gs, FALSE), x, c, <<no>>))
                EXCEPT !.m = NextElement(@, no, unique)],
           Found(<<>>, m), xs)

\* sortOrder: from the documents down to where the ways to the two part.
RECURSIVE WayTo(_, _)
WayTo(d, e) == IF e = Doc THEN <<Doc>> ELSE Append(WayTo(d, d.up[e]), e)

\* siblingCheck; a way that ends is in front.
SiblingCheck(d, a, b) == a = None \/ (b # None /\ a \in ToSet(Before(d, b)))

SortsBefore(d, a, b) ==
  LET ap == WayTo(d, a)
      bp == WayTo(d, b)
      i == CHOOSE k \in 1 .. Len(ap) + 1 :
             /\ SubSeq(ap, 1, k - 1) = SubSeq(bp, 1, k - 1)
             /\ k > Len(ap) \/ k > Len(bp) \/ ap[k] # bp[k]
      At(s) == IF i > Len(s) THEN None ELSE s[i]
  IN  a # b /\ SiblingCheck(d, At(ap), At(bp))

\* Mutation of UniqueSort: duplicates stay.
UniqueSortOnly(d, xs) == SortSeq(xs, LAMBDA a, b : SortsBefore(d, a, b))

OnceEach(s) ==
  LET kept == SetToSortSeq({i \in DOMAIN s : i = 1 \/ s[i] # s[i - 1]}, <)
  IN  [i \in DOMAIN kept |-> s[kept[i]]]

UniqueSort(d, xs) == OnceEach(SortSeq(xs, LAMBDA a, b : SortsBefore(d, a, b)))

SetMatches(m, d, gs, js, c, no) ==
  FoldLeft(LAMBDA a, j : SetFound(a.m, d, gs[j], a.out, c, <<no, j>>), Found(<<>>, m), js)

\* With a seed, an element that one group matched is no longer there for the next.
Without(xs, gone) == [i \in DOMAIN xs |-> IF xs[i] \in gone THEN None ELSE xs[i]]
Adding(out, r) == Found(out \cup ToSet(r.out), r.m)

SetMatchesOf(m, d, gs, js, xs, c, no) ==
  FoldLeft(LAMBDA a, j : Adding(a.out, SetKept(a.m, d, gs[j], Without(xs, a.out), c, <<no, j>>)),
           Found({}, m), js)

\* The end of a search: what it changed for its own sake is put back.
Ended(m, unique, backup) == [m EXCEPT !.run = unique, !.outermost = backup]

\* The groups with a positional, after those without found r: they thin out the
\* seed, or look for elements of their own.
KeepSets(d, xs, r, k) == Found(SelectSeq(xs, LAMBDA x : x \in ToSet(r.out) \cup k.out), k.m)

FindSets(d, sets, r, f) ==
  LET over == r.out \o f.out
  IN  Found(IF f.out # <<>> /\ Len(r.out) + sets > 1 THEN UniqueSort(d, over) ELSE over, f.m)

MatchSets(r, d, gs, no, seed, xs, c) ==
  LET sets == Indices(gs, TRUE)
  IN  IF sets = <<>> \/ (Len(sets) < Len(gs) /\ Len(r.out) = Len(xs)) THEN r
      ELSE IF seed.is
      THEN KeepSets(d, xs, r, SetMatchesOf(r.m, d, gs, sets, Without(xs, ToSet(r.out)), c, no))
      ELSE FindSets(d, Len(sets), r, SetMatches(r.m, d, gs, sets, c, no))

SuperMatch(m0, d, gs, no, seed, c, results) ==
  LET m == NextRun(m0)
      from == IF RSibling(gs) /\ c # Doc THEN d.up[c] ELSE c
      xs == IF seed.is THEN seed.xs ELSE Inside(d, from)
      m1 == [m EXCEPT !.outermost = c, !.cachedruns = m.runs[no]]
      r == IF Indices(gs, FALSE) = <<>> THEN Found(<<>>, m1)
           ELSE EachElement(m1, d, gs, no, xs, c, m.run)
  IN  [Behind(results, MatchSets(r, d, gs, no, seed, xs, c))
         EXCEPT !.m = Ended(@, m.run, m0.outermost)]

\* matchExpr.needsContext and rsibling look at the text of the selector, that in
\* parentheses included; "2n+1" has a sign too.
NeedsContext(sel) ==
  \/ sel # <<>> /\ sel[1] # <<>> /\ sel[1][1].type \in {">", "+", "~"}
  \/ \E i \in DOMAIN sel : \E j \in DOMAIN sel[i] : IsPosition(sel[i][j]) \/ NeedsContext(sel[i][j].of)

RSibling(sel) ==
  \E i \in DOMAIN sel : \E j \in DOMAIN sel[i] :
    LET t == sel[i][j] IN t.type \in {"+", "~"} \/ (t.n > 0 /\ t.k > 0) \/ RSibling(t.of)

\* tokenize, but for its parsing: the groups of a selector are remembered.
Tokenize(m, sel) ==
  IF CacheHas(m.tokens, sel) THEN Found(CacheGet(m.tokens, sel), m)
  ELSE Found(sel, [m EXCEPT !.tokens = CachePut(@, sel, sel)])

Run(m, d, sel, seed, c, results) ==
  LET m1 == Compile(m, sel)
      no == IF CacheHas(m1.compiled, sel) THEN CacheGet(m1.compiled, sel) ELSE Len(m1.runs)
  IN  SuperMatch(m1, d, sel, no, seed, c, results)

\* Expr.find, what the browser looks up: by id in the document only, by class
\* where it has getElementsByClassName.
Finds(d, t, c) ==
  t.type = "TAG" \/ (t.type = "ID" /\ c = Doc) \/ (t.type = "CLASS" /\ d.native)
Browser(d, t, c) == SelectSeq(Inside(d, c), LAMBDA e : Fits(d, t, e))

NoSeed == [is |-> FALSE, xs |-> <<>>]
Seed(xs) == [is |-> TRUE, xs |-> xs]

\* The last token that finds a seed; 0 when a combinator comes first.
SeedAt(d, ts, c) ==
  LET is == {i \in DOMAIN ts : Finds(d, ts[i], c) /\ \A k \in i .. Len(ts) : ~IsRelative(ts[k])}
  IN  IF is = {} THEN 0 ELSE CHOOSE i \in is : \A k \in is : k <= i

\* select: the token that finds the seed leaves a copy of the group, not the one
\* that the cache of tokens has.
SelectSeeded(m, d, gs, c, results, seed) ==
  LET i == IF seed.is \/ Len(gs) > 1 \/ NeedsContext(gs) THEN 0 ELSE SeedAt(d, gs[1], c)
      found == Browser(d, gs[1][i], c)
      left == RemoveAt(gs[1], i)
  IN  IF i > 0 /\ (left = <<>> \/ found = <<>>) THEN Found(results \o found, m)
      ELSE Run(m, d, IF i > 0 THEN <<left>> ELSE gs, IF i > 0 THEN Seed(found) ELSE seed, c, results)

Trimmed(sel) == IF sel[1] # <<>> /\ sel[1][1].type = " " THEN <<Tail(sel[1])>> \o Tail(sel) ELSE sel

\* ... the first token may be the id of a new context.
Select(m0, d, sel, c, results, seed) ==
  LET t == Tokenize(m0, Trimmed(sel))
      ts == t.out[1]
      byId == /\ ~seed.is /\ Len(t.out) = 1 /\ c = Doc
              /\ Len(ts) > 2 /\ ts[1].type = "ID" /\ IsRelative(ts[2])
      there == Browser(d, ts[1], Doc)
  IN  IF byId /\ there = <<>> THEN Found(results, t.m)
      ELSE SelectSeeded(t.m, d, IF byId THEN <<Tail(ts)>> ELSE t.out,
                        IF byId THEN there[1] ELSE c, results, seed)

\* querySelectorAll knows neither positionals nor :has(), nor :not() of more
\* than one test; below an element it is asked from the element's id.
RECURSIVE Standard(_)
Standard(sel) ==
  /\ \A i \in DOMAIN sel : \A j \in DOMAIN sel[i] :
       /\ ~IsPosition(sel[i][j]) /\ sel[i][j].type # "HAS"
       /\ sel[i][j].type = "NOT" => Standard(sel[i][j].of) /\ Len(sel[i][j].of) = 1 /\ Len(sel[i][j].of[1]) = 1
  /\ \A i \in DOMAIN sel : ~IsRelative(Last(sel[i]))

BelowId(sel, c) ==
  [i \in DOMAIN sel |-> IF IsRelative(sel[i][1]) THEN <<Id(c)>> \o sel[i]
                        ELSE <<Id(c), Rel(" ")>> \o sel[i]]

QuerySelectorAll(d, sel, c) ==
  LET from == IF RSibling(sel) /\ c # Doc THEN d.up[c] ELSE c
      asked == IF c = Doc THEN sel ELSE BelowId(sel, c)
  IN  SelectSeq(Inside(d, from), LAMBDA e : MeansAny(d, asked, e, Doc))

\* Sizzle(selector, context, results).
Search(m, d, sel, c, results) ==
  LET t == sel[1][1]
      quick == /\ Len(sel) = 1 /\ Len(sel[1]) = 1 /\ t.name # "*"
               /\ t.type \in {"TAG", "ID"} \/ (t.type = "CLASS" /\ d.native)
      asks == d.native /\ Standard(sel) /\ (c = Doc => ~IsRelative(t))
  IN  IF quick THEN Found(results \o Browser(d, t, c), m)
      ELSE IF asks THEN Found(results \o QuerySelectorAll(d, sel, c),
                              IF c = Doc THEN m ELSE Tokenize(m, sel).m)
      ELSE Select(m, d, sel, c, results, NoSeed)

\* jQuery.fn.find.
OneList(d, cs, r) == IF Len(cs) > 1 THEN Found(UniqueSort(d, r.out), r.m) ELSE r

FindIn(m, d, sel, cs) == OneList(d, cs, MultipleContexts(m, d, sel, cs, <<>>))

\* winnow: the simple selectors, and the rest of them by membership.
Simple(sel) ==
  /\ Len(sel) = 1
  /\ \A i \in DOMAIN sel[1] : i = 1 \/ sel[1][i].type \in Relative \cup {"TAG"}
  /\ \A i \in DOMAIN sel[1] : sel[1][i].of = <<>>

Members(xs, r, not) == Found(SelectSeq(xs, LAMBDA x : (x \in ToSet(r.out)) # not), r.m)

Winnow(m, d, sel, xs, not) ==
  LET simple == Simple(sel)
      r == Select(m, d, IF not /\ simple THEN <<<<Not(sel)>>>> ELSE sel, Doc, <<>>, Seed(xs))
  IN  IF simple THEN r ELSE Members(xs, r, not)
=============================================================================
