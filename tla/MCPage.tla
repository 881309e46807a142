------------------------------- MODULE MCPage -------------------------------
(***************************************************************************)
(* Scripts of a page of the login, each over one part of the library.      *)
(***************************************************************************)
EXTENDS PageScripts

CONSTANTS d1, d2, d3, q1, q2, onReady, f, g, v, w, none

MCDefId == {d1, d2, d3, q1, q2, onReady}
MCListId == {<<"page", "list">>} \union (MCDefId \X Action) \union ({q1, q2} \X {"complete"})
MCOwnList == <<"page", "list">>

Only(kind, n) == [k \in Kinds |-> IF k = kind THEN n ELSE 0]
MCScripts == {Only("list", 5), Only("deferred", 3), Only("request", 3), Only("ready", 5)}

MCListOptions ==
  {[once |-> FALSE, memory |-> FALSE, unique |-> TRUE, stopOnFalse |-> FALSE],
   [once |-> FALSE, memory |-> TRUE, unique |-> TRUE, stopOnFalse |-> TRUE],
   [once |-> TRUE, memory |-> TRUE, unique |-> FALSE, stopOnFalse |-> FALSE]}

MCSettings ==
  {[global |-> TRUE, timeout |-> TRUE, via |-> "xhr", hooks |-> {"prefilter"}],
   [global |-> TRUE, timeout |-> FALSE, via |-> "sync", hooks |-> {}],
   [global |-> TRUE, timeout |-> FALSE, via |-> "script", hooks |-> {"beforeSend"}],
   [global |-> FALSE, timeout |-> FALSE, via |-> "none", hooks |-> {}]}

MCHandled == {"ajaxStart", "ajaxSend", "ajaxStop"}

Symmetric == Permutations({f, g}) \union Permutations({d1, d2}) \union Permutations({v, w})
               \union Permutations({q1, q2})
=============================================================================
