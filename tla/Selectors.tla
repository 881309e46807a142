------------------------------ MODULE Selectors -----------------------------
(***************************************************************************)
(* What a selector of the page's library means, on a small document: the   *)
(* definition the library's own search is measured against.  A selector is *)
(* a sequence of groups (a comma between them), a group a sequence of      *)
(* tokens, and nothing here knows of a cache, a seed or an order of        *)
(* evaluation.                                                             *)
(***************************************************************************)
EXTENDS Integers, SequencesExt, FiniteSets

CONSTANTS Node  \* nodes of the document, numbers from 1

Doc == 0
None == -1

(***************************************************************************)
(* A document: the parent and the children of every node, the tag of each  *)
(* ("#text" for a node that is no element), those that have the class, and *)
(* whether the browser itself answers selectors.                           *)
(***************************************************************************)
IsElement(d, e) == e \in Node /\ d.tag[e] # "#text"

\* The element itself and what is inside it, in document order.
RECURSIVE Subtree(_, _)
Subtree(d, e) == <<e>> \o FlattenSeq([i \in DOMAIN d.kids[e] |-> Subtree(d, d.kids[e][i])])

\* Elements inside a node, as getElementsByTagName("*") lists them.
Inside(d, c) == SelectSeq(Tail(Subtree(d, c)), LAMBDA e : IsElement(d, e))

RECURSIVE Ancestors(_, _)
Ancestors(d, e) == IF e \in {Doc, None} THEN {} ELSE {d.up[e]} \cup Ancestors(d, d.up[e])

IndexOf(s, x) == CHOOSE i \in DOMAIN s : s[i] = x
Before(d, e) == LET ks == d.kids[d.up[e]] IN SubSeq(ks, 1, IndexOf(ks, e) - 1)
ElementsBefore(d, e) == SelectSeq(Before(d, e), LAMBDA x : IsElement(d, x))

(***************************************************************************)
(* Tokens.  name: a tag, a class or a kind of child; n: an element's id, a *)
(* position, the cycle of an nth-child; k: its offset; of: the selector in *)
(* the parentheses.                                                        *)
(***************************************************************************)
Token(type, name, n, k, of) == [type |-> type, name |-> name, n |-> n, k |-> k, of |-> of]
Tag(t) == Token("TAG", t, 0, 0, <<>>)
Class == Token("CLASS", "a", 0, 0, <<>>)
Id(e) == Token("ID", "", e, 0, <<>>)
Nth(kind, n, k) == Token("CHILD", kind, n, k, <<>>)
Not(sel) == Token("NOT", "", 0, 0, sel)
Has(sel) == Token("HAS", "", 0, 0, sel)
Pos(kind, n) == Token(kind, "", n, 0, <<>>)
Rel(kind) == Token(kind, "", 0, 0, <<>>)

Relative == {">", " ", "+", "~"}
Positions == {"first", "last", "eq", "even", "odd", "lt", "gt"}

IsRelative(t) == t.type \in Relative
IsPosition(t) == t.type \in Positions

\* The nodes a combinator leads to from an element.
Related(d, rel, e) ==
  CASE rel = ">" -> {d.up[e]}
    [] rel = " " -> Ancestors(d, e)
    [] rel = "~" -> ToSet(ElementsBefore(d, e))
    [] rel = "+" -> IF ElementsBefore(d, e) = <<>> THEN {} ELSE {Last(ElementsBefore(d, e))}

\* Positions (from 0) that a positional takes of a list of n.
Taken(t, n) ==
  LET at == IF t.n < 0 THEN t.n + n ELSE t.n
  IN  {i \in 0 .. n - 1 : CASE t.type = "first" -> i = 0
                            [] t.type = "last" -> i = n - 1
                            [] t.type = "eq" -> i = at
                            [] t.type = "even" -> i % 2 = 0
                            [] t.type = "odd" -> i % 2 = 1
                            [] t.type = "lt" -> i < at
                            [] t.type = "gt" -> i > at}

\* The i-th of n children.
IsNth(t, i, n) ==
  CASE t.name = "first" -> i = 1
    [] t.name = "last" -> i = n
    [] t.name = "only" -> n = 1
    [] t.name = "nth" -> \E r \in 0 .. n : i = t.n * r + t.k
    [] t.name = "nth-last" -> \E r \in 0 .. n : n + 1 - i = t.n * r + t.k

NthHolds(d, t, e) ==
  LET ks == SelectSeq(d.kids[d.up[e]], LAMBDA x : IsElement(d, x))
  IN  IsNth(t, IndexOf(ks, e), Len(ks))

\* The tests that look at nothing but the element.
Fits(d, t, e) ==
  CASE t.type = "TAG" -> t.name \in {"*", d.tag[e]}
    [] t.type = "CLASS" -> e \in d.cls
    [] t.type = "ID" -> e = t.n

(***************************************************************************)
(* An element is meant by the first i tokens of a group, from a context;   *)
(* None is the context of a selector in :not(), which may lead anywhere.   *)
(***************************************************************************)
RECURSIVE Means(_, _, _, _, _), Selected(_, _, _), Holds(_, _, _)
MeansAny(d, sel, e, c) == \E i \in DOMAIN sel : Means(d, sel[i], Len(sel[i]), e, c)

Holds(d, t, e) ==
  CASE t.type \in {"TAG", "CLASS", "ID"} -> Fits(d, t, e)
    [] t.type = "CHILD" -> NthHolds(d, t, e)
    [] t.type = "NOT" -> ~MeansAny(d, t.of, e, None)
    [] t.type = "HAS" -> Selected(d, t.of, e) # {}

Means(d, ts, i, e, c) ==
  IF i = 0 THEN c = None \/ c \in Ancestors(d, e)
  ELSE IF ~IsRelative(ts[i]) THEN Holds(d, ts[i], e) /\ Means(d, ts, i - 1, e, c)
  ELSE IF i = 1 THEN c \in Related(d, ts[1].type, e)
  ELSE \E x \in Related(d, ts[i].type, e) : IsElement(d, x) /\ Means(d, ts, i - 1, x, c)

\* A positional takes its share of what the tokens before it select; what
\* follows it holds of what it took, or is reached from there.
RECURSIVE Group(_, _, _), TakenOf(_, _, _)
AtPosition(ts) == CHOOSE p \in DOMAIN ts : IsPosition(ts[p]) /\ \A q \in 1 .. p - 1 : ~IsPosition(ts[q])

TakenOf(d, ts, xs) ==
  IF ts = <<>> THEN xs
  ELSE LET t == ts[1]
           ys == IF IsPosition(t)
                   THEN LET at == SetToSortSeq(Taken(t, Len(xs)), <)
                        IN  [i \in DOMAIN at |-> xs[at[i] + 1]]
                   ELSE SelectSeq(xs, LAMBDA e : Holds(d, t, e))
       IN  TakenOf(d, Tail(ts), ys)

\* A combinator with nothing after it leads to any element.
Closed(ts) == IF ts # <<>> /\ ts[Len(ts)].type = " " THEN Append(ts, Tag("*")) ELSE ts

Group(d, ts, c) ==
  IF \A i \in DOMAIN ts : ~IsPosition(ts[i])
  THEN {e \in ToSet(Inside(d, Doc)) : Means(d, ts, Len(ts), e, c)}
  ELSE LET p == AtPosition(ts)
           rest == {j \in p + 1 .. Len(ts) : IsRelative(ts[j])}
           j == IF rest = {} THEN Len(ts) + 1 ELSE CHOOSE x \in rest : \A y \in rest : x <= y
           before == Group(d, Closed(SubSeq(ts, 1, p - 1)), c)
           took == TakenOf(d, SubSeq(ts, p, j - 1),
                           SelectSeq(Inside(d, Doc), LAMBDA e : e \in before))
       IN  IF rest = {} THEN ToSet(took)
           ELSE UNION {Group(d, SubSeq(ts, j, Len(ts)), took[i]) : i \in DOMAIN took}

Selected(d, sel, c) == UNION {Group(d, sel[i], c) : i \in DOMAIN sel}

InOrder(d, es) == SelectSeq(Inside(d, Doc), LAMBDA e : e \in es)

\* What is left of a list of elements when a group filters it: positionals
\* count within the list.
RECURSIVE Kept(_, _, _)
Kept(d, ts, xs) ==
  IF \A i \in DOMAIN ts : ~IsPosition(ts[i])
  THEN SelectSeq(xs, LAMBDA e : Means(d, ts, Len(ts), e, Doc))
  ELSE LET p == AtPosition(ts)
       IN  TakenOf(d, SubSeq(ts, p, Len(ts)), Kept(d, SubSeq(ts, 1, p - 1), xs))
=============================================================================
