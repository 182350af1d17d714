---------------------------- MODULE MCRequestPath ----------------------------
\* Two providers, one page in two spellings and another.  In every scene two requests.
EXTENDS RequestPath

MCUrl == {"x", "x2", "y"}
MCCanon == [u \in MCUrl |-> IF u = "x2" THEN "x" ELSE u]
MCEarlier(p, q) == p = "a" /\ q = "b"
MCPages(p) == IF p = "a" THEN {<<"x", "y">>} ELSE {<<"x2", "x">>}

Asked == [kind |-> "search", provider |-> None, routed |-> "a", fallback |-> TRUE, cache |-> "on",
        calls |-> None, wall |-> None, span |-> 4, context |-> None, urls |-> <<>>, stale |-> FALSE]
Search   == Asked
Extract  == [Asked EXCEPT !.kind = "extract", !.urls = <<"x", "y">>]
Research == [Asked EXCEPT !.kind = "research"]

NoLimit == [enabled |-> FALSE, policy |-> "degrade", calls |-> None, daily |-> None,
            timeout |-> None, context |-> None, usual |-> 6]
Limits(policy, calls, daily, timeout, context) ==
  [enabled |-> TRUE, policy |-> policy, calls |-> calls, daily |-> daily, timeout |-> timeout,
   context |-> context, usual |-> 6]

Plain(requests, pre) ==
  [order |-> <<"a", "b">>, keyed |-> {"a", "b"}, rekey |-> {}, pre |-> pre, maxUrls |-> 2, usual |-> 6,
   requests |-> requests]

MCScenes ==
  { \* searches, some of a cache only, while the second provider's key comes and goes
    [Plain({Search, [Search EXCEPT !.cache = "only", !.stale = TRUE]}, NoLimit) EXCEPT !.rekey = {"b"}],
    \* the day's calls and those of a request run out
    Plain({Search, [Search EXCEPT !.provider = "b", !.calls = 1]}, Limits("degrade", None, 2, 3, None)),
    Plain({Search}, Limits("degrade", 1, None, None, None)),
    \* research is never cached
    Plain({[Research EXCEPT !.cache = "bypass"]}, Limits("degrade", 1, None, 3, None)),
    Plain({[Research EXCEPT !.cache = "bypass", !.calls = 2]}, NoLimit),
    \* too long texts, refused or reduced
    Plain({Extract, [Extract EXCEPT !.context = 1]}, Limits("abort", None, None, None, 3)),
    Plain({[Extract EXCEPT !.urls = <<"x", "y", "x2">>], [Extract EXCEPT !.urls = <<"x">>]},
          Limits("degrade", None, None, None, 3)),
    \* an extraction by one provider, and by whoever has a key
    [Plain({[Extract EXCEPT !.provider = "b", !.urls = <<"x">>], [Extract EXCEPT !.fallback = FALSE, !.stale = TRUE, !.context = 7]}, NoLimit)
       EXCEPT !.rekey = {"a"}] }
=============================================================================
