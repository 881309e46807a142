----------------------------- MODULE PageSearch -----------------------------
(***************************************************************************)
(* A page that searches and filters with the library while its document    *)
(* changes: every call is one step, and what it leaves in memory is there  *)
(* for the next.                                                           *)
(***************************************************************************)
EXTENDS Sizzle

CONSTANTS Documents, \* the documents a page starts with
          Asked,     \* selectors of jQuery.fn.find
          Filters,   \* selectors of jQuery.fn.filter and not
          Contexts,  \* lists of nodes searched below
          MaxCalls,  \* bound: calls of the library
          MaxChanges \* bound: changes of the document

VARIABLES page, mem, calls, changes,
          last  \* the last call, its arguments and its answer

searchVars == <<page, mem, calls, changes, last>>

NoCall == [kind |-> "none", sel |-> <<>>, from |-> <<>>, out |-> <<>>]

Init ==
  /\ page \in Documents
  /\ mem = NewMemory
  /\ calls = 0 /\ changes = 0
  /\ last = NoCall

Called(kind, sel, from, r) ==
  /\ calls' = calls + 1
  /\ mem' = r.m
  /\ last' = [kind |-> kind, sel |-> sel, from |-> from, out |-> r.out]
  /\ UNCHANGED <<page, changes>>

\* $(contexts).find(selector), the contexts in document order.
Find ==
  /\ calls < MaxCalls
  /\ \E sel \in Asked, cs \in Contexts :
       Called("find", sel, cs, FindIn(mem, page, sel, cs))

\* $(all).filter(selector) and .not(selector), of every element of the page; the
\* page gives no positional to not, which would become one within :not().
FilterSet ==
  /\ calls < MaxCalls
  /\ \E sel \in Filters, kind \in {"filter", "not"} :
       LET all == Inside(page, Doc)
       IN  /\ kind = "not" => ~HasPosition(sel[1])
           /\ Called(kind, sel, all, Winnow(mem, page, sel, all, kind = "not"))

\* Between two calls; before the first it would be another document.
Changed(d) ==
  /\ calls > 0 /\ changes < MaxChanges
  /\ changes' = changes + 1
  /\ page' = d
  /\ last' = NoCall
  /\ UNCHANGED <<mem, calls>>

\* The page moves an element to the front of another one's children.
Move(e, p) ==
  /\ IsElement(page, e) /\ IsElement(page, p)
  /\ p # e /\ e \notin Ancestors(page, p)
  /\ LET out == [page.kids EXCEPT ![page.up[e]] = SelectSeq(@, LAMBDA x : x # e)]
     IN  Changed([page EXCEPT !.up[e] = p, !.kids = [out EXCEPT ![p] = <<e>> \o @]])

\* addClass, removeClass.
SetClass(e) ==
  /\ IsElement(page, e)
  /\ Changed([page EXCEPT !.cls = IF e \in @ THEN @ \ {e} ELSE @ \cup {e}])

Next ==
  \/ Find \/ FilterSet
  \/ \E e, p \in Node : Move(e, p)
  \/ \E e \in Node : SetClass(e)

Spec == Init /\ [][Next]_searchVars

(***************************************************************************)
(* Properties                                                              *)
(***************************************************************************)
(***************************************************************************)
(* Where an element's failure is taken for another's: two ways to the same *)
(* missing ancestor (see the README).                                      *)
(***************************************************************************)
\* A :has() left of a descendant or sibling combinator: the search in it leaves
\* its own number of the element in cachedruns, and what is remembered with that
\* number may be taken for this element's (see the README).
LeavesRuns(ts) ==
  \E i, j \in DOMAIN ts : i < j /\ ts[i].type = "HAS" /\ ts[j].type \in {" ", "~"}

\* Several elements that a positional took are tested below a context, or several
\* of a list by a combinator in front of the positional, with one number.
Several == {"even", "odd", "lt", "gt"}
TestsSeveral(ts) ==
  \E p \in 1 .. Len(ts) - 1 : ts[p].type \in Several /\ ~IsRelative(ts[p + 1]) /\ ~IsPosition(ts[p + 1])
WalksSeveral(ts) ==
  HasPosition(ts) /\ \E i \in 1 .. AtPosition(ts) - 1 : ts[i].type \in {" ", "~"}

Meant(sel, cs) == UNION {Selected(page, sel, cs[i]) : i \in DOMAIN cs}

\* A search finds exactly the elements its selector means in the document as it
\* is now, whatever earlier and nested searches left in the caches of compiled
\* selectors and on the elements; with a :has() left of a combinator it finds no
\* others.
FindsWhatIsMeant ==
  (last.kind = "find" /\ \A i \in DOMAIN last.sel : TestsSeveral(last.sel[i]) => last.from = <<Doc>>) =>
    LET meant == Meant(last.sel, last.from)
    IN  /\ ToSet(last.out) \subseteq meant
        /\ (\A i \in DOMAIN last.sel : ~LeavesRuns(last.sel[i])) => ToSet(last.out) = meant

\* A positional that is led on by a combinator may find an element from two of
\* the elements it took; one group of it alone is not sorted.
LedOnAlone(sel) ==
  \E i \in DOMAIN sel : HasPosition(sel[i]) /\ NextRelative(sel[i], AtPosition(sel[i])) <= Len(sel[i])

\* What several groups, several contexts or a positional found come back as one
\* list in document order, every element once.
FindsInOrder ==
  (last.kind = "find" /\ (Len(last.from) = 1 => ~LedOnAlone(last.sel))) =>
    last.out = InOrder(page, ToSet(last.out))

\* filter keeps, in their order, the elements that fit the selector, a positional
\* counting among those of the list that fit what is left of it; not keeps the
\* others.
FiltersItsList ==
  (last.kind \in {"filter", "not"} /\ \A i \in DOMAIN last.sel : ~WalksSeveral(last.sel[i])) =>
    LET kept == UNION {ToSet(Kept(page, last.sel[i], last.from)) : i \in DOMAIN last.sel}
    IN  last.out = SelectSeq(last.from, LAMBDA e : (e \in kept) # (last.kind = "not"))
=============================================================================
