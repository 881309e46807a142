----------------------------- MODULE MCSelectors ----------------------------
(***************************************************************************)
(* Small documents, a selector of every kind of test and of every way the  *)
(* search takes, and calls one after the other with a change between them. *)
(***************************************************************************)
EXTENDS PageSearch

Tree(kids, tags, cls, native) ==
  [kids |-> kids, tag |-> tags, cls |-> cls, native |-> native,
   up |-> [e \in Node |-> CHOOSE p \in DOMAIN kids : e \in ToSet(kids[p])]]

Kids(f) == [p \in {Doc} \cup Node |-> IF p \in DOMAIN f THEN f[p] ELSE <<>>]

\* Nested divisions with paragraphs in both; siblings with a text between them.
Nested(native) ==
  Tree(Kids(0 :> <<1>> @@ 1 :> <<2, 5>> @@ 2 :> <<3, 4>>),
       <<"div", "div", "p", "p", "p">>, {1, 3}, native)
Flat(native) ==
  Tree(Kids(0 :> <<1>> @@ 1 :> <<2, 3, 4, 5>>),
       <<"div", "p", "#text", "p", "div">>, {2, 5}, native)

MCDocuments == {Nested(TRUE), Nested(FALSE), Flat(FALSE)}

Div == Tag("div")
P == Tag("p")
D == Rel(" ")

MCAsked ==
  {<<<<Div, D, P>>>>,                              \* div p
   <<<<Div, Class, D, Div, D, P>>>>,               \* div.a div p
   <<<<Rel(">"), P>>>>,                            \* > p
   <<<<Class, Rel("~"), P>>, <<Div, Rel("+"), P>>>>, \* .a ~ p, div + p
   <<<<P, Nth("nth", 2, 1)>>>>,                    \* p:nth-child(2n+1)
   <<<<P, Nth("nth-last", 0, 2)>>, <<Tag("*"), Nth("only", 0, 0)>>>>,
   <<<<P, Not(<<<<Div, Class, Rel(">"), P>>, <<Class>>>>)>>>>, \* p:not(div.a > p, .a)
   <<<<Div, D, Div, Has(<<<<Rel(">"), Class>>>>)>>>>, \* div div:has(> .a)
   <<<<Div, Has(<<<<P, Class>>>>), D, P>>>>,       \* div:has(p.a) p
   <<<<Id(1), D, P>>>>,                            \* #1 p
   <<<<P, Pos("first", 0)>>, <<Class>>>>,          \* p:first, .a
   <<<<Div, D, Pos("eq", 1), Class>>>>,            \* div :eq(1).a
   <<<<Div, Pos("even", 0), Rel(">"), P>>>>,       \* div:even > p
   <<<<P, Pos("gt", 0), Class>>, <<Div, Pos("lt", -1), Pos("last", 0)>>>>}

MCFilters ==
  {<<<<Class, D, P>>>>, <<<<Pos("odd", 0)>>>>, <<<<Div, Rel(">"), P, Pos("last", 0)>>>>,
   <<<<P, Class>>, <<Div, Rel("+"), Div>>>>}

MCContexts == {<<0>>, <<2>>, <<1, 2>>}
=============================================================================
