------------------------------ MODULE MCServices ------------------------------
(***************************************************************************)
(* Constants for TLC.                                                      *)
(***************************************************************************)
EXTENDS Services, TLC

CONSTANTS a, b, px, py, c1, c2, c3, parent, copy

MCCallers == {a, b}
MCPlans   == {px, py}
MCModes   == {"prefer", "only"}

MCPoolCaller == {c1, c2, c3}
MCProcess    == {parent, copy}
MCProcessOf  == (c1 :> parent) @@ (c2 :> parent) @@ (c3 :> copy)
MCTwoCallers == {c1, c2}

MCSize == [p \in 0..NumPages |-> IF p = 0 THEN 1 ELSE p]

\* Some answer with more than was asked for.  A request that picks its providers, a strict one, and one without the cache.
MCQueries ==
  [provider : {None}, routed : {"a", "b"}, fallback : {TRUE}, max : {2}, cached : {TRUE}]
    \cup [provider : {"c"}, routed : {"a"}, fallback : {FALSE}, max : {2}, cached : {TRUE}]
    \cup [provider : {"d"}, routed : {"a"}, fallback : {TRUE}, max : {2}, cached : {FALSE}]
MCPages(p) == CASE p = "b" -> {<<"x">>} [] p = "c" -> {<<"x", "x">>} [] OTHER -> {<<"x", "y", "z">>}
MCSameScope(p, o) == TRUE
(***************************************************************************)
(* Search requests: three sites, one of them under a public suffix, and a  *)
(* token that is no domain.  Recency and vertical, domains, and locale are *)
(* varied one after the other, the limits are lower than in the code.      *)
(***************************************************************************)
MCSite == {"x", "y", "w.gov"}
MCCovers ==
  [t \in MCSite \cup {".gov", "?"} |-> CASE t = ".gov" -> {"w.gov"} [] t = "?" -> {} [] OTHER -> {t}]

Searchers ==
  {"serper", "serpbase", "brave", "tavily", "querit", "linkup", "exa", "firecrawl", "parallel",
   "you", "searxng", "keenable", "octen", "tinyfish"}
MCOrders ==
  {<<s>> : s \in Searchers}
    \cup {<<"tavily", "exa">>, <<"linkup", "brave">>, <<"serper", "keenable">>, <<"searxng", "firecrawl">>}

Simple ==
  [timeRange |-> None, freshness |-> None, type |-> "search", include |-> <<>>, exclude |-> <<>>,
   ownSite |-> FALSE, room |-> 9, country |-> None, language |-> None, hint |-> None,
   inferred |-> None, ownCountry |-> None, ownLanguage |-> None, defaultCountry |-> None,
   defaultLanguage |-> None, answers |-> FALSE]

Timed ==
  {[Simple EXCEPT !.timeRange = t, !.freshness = f, !.type = v, !.answers = w] :
     t \in {None, "hour", "day"}, f \in {None, "day", "week"}, v \in {"search", "news"},
     w \in BOOLEAN}
Filtered ==
  {[Simple EXCEPT !.include = i, !.exclude = e, !.ownSite = o, !.room = r] :
     i \in {<<>>, <<"x">>, <<"?">>, <<"y", "?">>, <<"x", "y", "w.gov">>, <<".gov">>},
     e \in {<<>>, <<"x">>, <<"y", "?">>, <<"x", "y">>, <<".gov">>, <<"x", "y", "w.gov">>},
     o \in BOOLEAN, r \in {1, 2, 9}}
Placed ==
  {[Simple EXCEPT !.country = g, !.hint = h, !.ownCountry = d, !.language = l, !.ownLanguage = w,
                  !.defaultLanguage = n, !.inferred = i] :
     g \in {None, "at"}, h \in {None, "es"}, d \in {None, "ch"}, l \in {None, "fr"},
     w \in {None, "pt"}, n \in {None, "auto", "it"}, i \in {None, "de", "sw"}}
MCHomeOf == ("de" :> "de") @@ ("sw" :> None)

MCRequests   == Timed \cup Filtered \cup Placed
MCPriority   == <<"a", "b", "c", "d">>
MCLadder     == <<1, 2>>
=============================================================================
