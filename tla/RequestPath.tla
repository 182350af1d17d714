----------------------------- MODULE RequestPath -----------------------------
(***************************************************************************)
(* A request from end to end: execute_v3_request (orchestrator_v3.py) with *)
(* the adapters of search.py and extract.py.  It is planned, checked       *)
(* against the budget, looked up in the cache, executed, built into a      *)
(* response and stored.  Requests overlap; they share the cache and the    *)
(* ledger of calls.                                                        *)
(*                                                                         *)
(* How an execution goes is modules HedgedRace, ExtractFallback and        *)
(* ResearchFanOut; here it is any outcome they hand over.  How an entry is *)
(* written and read is module ResponseCache.                               *)
(*                                                                         *)
(* Requests bounds the requests, MaxAge the aging of the cache.  Scenes    *)
(* are the configurations, each with the requests made under it.           *)
(***************************************************************************)
EXTENDS ResponseBuild

CONSTANTS
  Provider,
  Scenes,         \* [order, keyed, rekey, pre, maxUrls, usual, requests]
  Pages(_),       \* provider -> the page lists a search there may return
  Sizes,          \* lengths of extracted texts
  MinContext, MaxContext,   \* MIN_CONTEXT_CHARS, MAX_CONTEXT_CHARS
  Requests,       \* identities of requests
  MaxAge, Stale   \* of a cache entry; from Stale on it is stale

P == INSTANCE BudgetPreflight

\* What the plans read of a request (RequestV3).
RequestV3 ==
  [kind : {"search", "research", "extract"}, provider : Provider \cup {None}, routed : Provider,
   fallback : BOOLEAN, cache : {"on", "only", "bypass"}, stale : BOOLEAN, urls : Seq(Url),
   calls : Nat \cup {None}, wall : Nat \cup {None}, span : Nat, context : Nat \cup {None}]

\* The limits of the operator (config.py:475-525, 570-580).
Limit == Nat \cup {None}
Preflights ==
  [enabled : BOOLEAN, policy : {"degrade", "abort"}, calls : Limit, daily : Limit, timeout : Limit,
   context : (MinContext..MaxContext) \cup {None}, usual : MinContext..MaxContext]

ASSUME ScenesAssumption ==
  /\ MinContext \in Nat /\ MaxContext \in Nat /\ Sizes \subseteq Nat
  /\ None \notin Nat /\ None \notin Provider
  /\ \A s \in Scenes :
       /\ s.maxUrls \in Nat /\ s.requests \subseteq RequestV3 /\ s.order \in Seq(Provider) \ {<<>>}
       /\ s.pre \in Preflights /\ s.usual = s.pre.usual

\* No provider stands twice in the configured order (config.py:264-290); None is not a
\* word; the alphabet puts one of two providers first; a search finds some list of pages.
ASSUME NamesAssumption ==
  /\ \A s \in Scenes : IsInjective(s.order)
  /\ None \notin Served \cup Lost \cup {"skipped"}
  /\ \A p, q, o \in Provider :
       /\ p = q \/ Earlier(p, q) \/ Earlier(q, p)
       /\ ~Earlier(p, p)
       /\ Earlier(p, q) /\ Earlier(q, o) => Earlier(p, o)
  /\ \A p \in Provider : Pages(p) # {} /\ Pages(p) \subseteq Seq(Url)

VARIABLES
  scene,      \* the configuration
  keyed,      \* providers with a key
  ledger,     \* units used today, None before the state store exists
  cache,      \* the entries
  pc, req,    \* request -> where it stands, its parameters
  plan,       \* request -> [order, first]
  verdict,    \* request -> the decision of the preflight
  run,        \* request -> what the execution returned
  resp,       \* request -> the response
  sent        \* request -> calls sent to providers (history)

vars == <<scene, keyed, ledger, cache, pc, req, plan, verdict, run, resp, sent>>

Init ==
  /\ scene \in Scenes /\ keyed = scene.keyed
  /\ ledger \in {None, 0} /\ cache = {}
  /\ pc = [r \in Requests |-> "idle"]
  /\ req = [r \in Requests |-> None] /\ plan = [r \in Requests |-> None]
  /\ verdict = [r \in Requests |-> P!Proceed]
  /\ run = [r \in Requests |-> None] /\ resp = [r \in Requests |-> None]
  /\ sent = [r \in Requests |-> 0]

Goto(r, step) == pc' = [pc EXCEPT ![r] = step]
-----------------------------------------------------------------------------
(***************************************************************************)
(* _plan_search_v3, _plan_extract_v3                                       *)
(***************************************************************************)
Automatic == Among(scene.order, keyed)

\* The routed or requested provider, then the others in the configured order.
SearchOrder(q) ==
  LET first == IF q.provider = None THEN q.routed ELSE q.provider
  IN IF q.fallback \/ q.kind = "research"
     THEN <<first>> \o Among(Automatic, Provider \ {first}) ELSE <<first>>

\* With no provider configured the first of the list stands in.
ExtractOrder(q) ==
  LET auto  == IF Automatic # <<>> THEN Automatic ELSE SubSeq(scene.order, 1, 1)
      named == <<q.provider>> \o Among(Automatic, Provider \ {q.provider})
      all   == IF q.provider = None THEN auto ELSE named
  IN IF q.fallback THEN all ELSE SubSeq(all, 1, 1)

PlanOf(q) ==
  LET order == IF q.kind = "extract" THEN ExtractOrder(q) ELSE SearchOrder(q)
  IN [order |-> order, first |-> order[1]]

Submit(r, q) ==
  /\ pc[r] = "idle"
  /\ req' = [req EXCEPT ![r] = q]
  /\ plan' = [plan EXCEPT ![r] = PlanOf(q)]
  /\ Goto(r, "preflight")
  /\ UNCHANGED <<scene, keyed, ledger, cache, verdict, run, resp, sent>>

\* A key is removed between two requests; bound: once, and none is added.
Rekey(p) ==
  /\ p \in scene.rekey \cap keyed
  /\ keyed' = keyed \ {p}
  /\ UNCHANGED <<scene, ledger, cache, pc, req, plan, verdict, run, resp, sent>>
-----------------------------------------------------------------------------
(***************************************************************************)
(* Preflight: the ledger is read without being created.                    *)
(***************************************************************************)
\* _with_budget_preflight
Evidenced(rs, decision) ==
  IF decision.action = "proceed" THEN rs
  ELSE [rs EXCEPT !.receipt.preflight = decision.action, !.evidence = @ + 1]

Complete(rs) == [rs EXCEPT !.receipt = Completed(@, rs.attempts)]

\* A response that may not be built is an exception to the caller.
Answer(r, rs) ==
  IF ValidResponse(rs) THEN Goto(r, "done") /\ resp' = [resp EXCEPT ![r] = rs]
  ELSE Goto(r, "raised") /\ UNCHANGED resp

Preflight(r) ==
  LET decision == P!Decide(scene.pre, req[r], plan[r].order, ledger)
  IN
  /\ pc[r] = "preflight"
  /\ verdict' = [verdict EXCEPT ![r] = decision]
  /\ IF decision.action = "abort"
     THEN /\ Answer(r, Complete(Evidenced(Refusal(req[r].kind, plan[r].order, "bypassed"), decision)))
          /\ UNCHANGED <<req, plan>>
     ELSE /\ req' = [req EXCEPT ![r] = P!Reduced(@, decision)]
          /\ plan' = [plan EXCEPT ![r].order = P!ReducedOrder(@, decision)]
          /\ Goto(r, "lookup")
          /\ UNCHANGED resp
  /\ UNCHANGED <<scene, keyed, ledger, cache, run, sent>>
-----------------------------------------------------------------------------
(***************************************************************************)
(* The cache: derive_cache_key over the search request, or                 *)
(* ExtractionCacheIdentityV3; what is kept is the response.                *)
(***************************************************************************)
\* The characters a plan allows (prepare_extract_request).
Chars(r) ==
  LET asked == P!OrElse(req[r].context, scene.usual)
  IN IF asked < MinContext THEN MinContext ELSE P!Least(asked, MaxContext)

\* A deadline, and what may change from one moment to the next in the plan of an
\* extraction, is no part of the key.
Key(r) ==
  LET q == req[r]
  IN [kind |-> q.kind, provider |-> q.provider, fallback |-> q.fallback, calls |-> q.calls,
      urls |-> q.urls, span |-> q.span,
      context |-> IF q.kind = "extract" THEN Chars(r) ELSE None,
      scope   |-> IF q.kind = "extract" THEN {} ELSE Range(plan[r].order)]

Enabled(r) == req[r].cache # "bypass"
Found(r)   == {e \in cache : /\ e.key = Key(r)
                             /\ e.age < Stale \/ (req[r].stale /\ e.age <= MaxAge)}

BugSamePlan(e, r) == TRUE
SamePlan(e, r)    == e.resp.receipt.order = plan[r].order

\* response_payload_from_cache_material, and what the orchestrator adds to it.
FromCache(e, r) ==
  Evidenced(
    [e.resp EXCEPT !.attempts = <<>>, !.receipt = OfHit(@, e.by),
                   !.cache    = IF e.age < Stale THEN "fresh_hit" ELSE "stale_hit",
                   !.status   = IF e.age < Stale THEN @ ELSE "degraded",
                   !.warnings = IF e.age < Stale THEN @ ELSE @ \cup {"stale"}],
    verdict[r])

\* A stored text may be gone (_finalize_extract_response).
Lookup(r) ==
  /\ pc[r] = "lookup"
  /\ ledger' = IF Enabled(r) /\ req[r].kind # "extract" THEN P!OrElse(ledger, 0) ELSE ledger
  /\ \/ \E e \in Found(r) :
          /\ Enabled(r) /\ SamePlan(e, r)
          /\ \E kept \in SUBSET {s \in e.resp.stored : s.ok} :
               LET hit == FromCache(e, r)
               IN Answer(r, [hit EXCEPT
                    !.stored   = {IF s \in kept THEN s ELSE [s EXCEPT !.ok = FALSE] : s \in @},
                    !.warnings = IF kept = {s \in e.resp.stored : s.ok} THEN @ ELSE @ \cup {"unstored"}])
     \/ /\ ~Enabled(r) \/ \A e \in Found(r) : ~SamePlan(e, r)
        /\ IF req[r].cache = "only"
           THEN Answer(r, Evidenced(Complete(Refusal(req[r].kind, plan[r].order, "miss")), verdict[r]))
           ELSE Goto(r, "execute") /\ UNCHANGED resp
  /\ UNCHANGED <<scene, keyed, cache, req, plan, verdict, run, sent>>
-----------------------------------------------------------------------------
(***************************************************************************)
(* The outcomes of an execution.  A fate per provider of the plan; a call  *)
(* that was sent costs a unit of the request's and the day's allowance,    *)
(* and one that finds none left is skipped.                                *)
(***************************************************************************)
Sent == {"answered", "empty", "failed", "superseded", "late"}

Attempt(p, fate) ==
  CASE fate \in {"answered", "empty"}  -> Called(p, "success")
    [] fate = "cut"                    -> Called(p, "partial")
    [] fate = "failed"                 -> Called(p, "failed")
    [] fate \in {"superseded", "late"} -> Called(p, "cancelled")
    [] OTHER                           -> Skipped(p, fate)

Fates(order, kinds) == [DOMAIN order -> kinds]
Of(fates, kinds)    == {i \in DOMAIN fates : fates[i] \in kinds}
Attempts(order, fates) == [i \in DOMAIN order |-> Attempt(order[i], fates[i])]

\* Units a request may spend: max_provider_attempts and what is left of the day.
BugUnits(r) == P!OrElse(req[r].calls, 2)
Units(r) ==
  LET own == P!OrElse(req[r].calls, 2)
  IN IF ~scene.pre.enabled \/ scene.pre.daily = None THEN own
     ELSE P!Least(own, IF ledger = None THEN scene.pre.daily ELSE scene.pre.daily - P!Least(ledger, scene.pre.daily))

Affordable(fates, kinds, units) ==
  /\ Cardinality(Of(fates, kinds)) <= units
  /\ Of(fates, {"budget_blocked"}) # {} => Cardinality(Of(fates, kinds)) = units

Payload(kind, p, items, raw) ==
  [provider |-> p, items |-> items, raw |-> raw, research |-> kind = "research", error |-> FALSE,
   limited |-> FALSE, superseded |-> {}, fallback |-> "none"]
Nothing(kind, p, items) == [Payload(kind, p, items, items) EXCEPT !.error = TRUE, !.fallback = "selected_failed"]

Listed(p, pages) == [i \in DOMAIN pages |-> Item(pages[i], p, 1)]

\* _execute_search_v3: whoever answers with something wins, the others then running are
\* superseded, those not started are excluded; else the first empty answer.
SearchRuns(r) ==
  LET order == plan[r].order
      ok(f) ==
        LET won == Of(f, {"answered"})
        IN /\ Cardinality(won) <= 1
           /\ won = {} => Of(f, {"superseded", "policy_excluded"}) = {}
           /\ won # {} => Of(f, {"late"}) = {}
           /\ Affordable(f, Sent, Units(r))
      said(f, w) == IF w = 1 THEN "none" ELSE IF f[1] = "empty" THEN "insufficient_results" ELSE "selected_failed"
      handed(f) ==
        LET best == IF Of(f, {"answered"}) # {} THEN Of(f, {"answered"}) ELSE Of(f, {"empty"})
            w    == Min(best)
        IN IF best = {} THEN {Nothing("search", plan[r].first, <<>>)}
           ELSE {[Payload("search", order[w], Listed(order[w], pages), Listed(order[w], pages)) EXCEPT
                    !.superseded = {order[i] : i \in Of(f, {"superseded"})}, !.fallback = said(f, w)] :
                   pages \in IF f[w] = "answered" THEN Pages(order[w]) ELSE {<<>>}}
  IN UNION {{[payload |-> h, attempts |-> Attempts(order, f), calls |-> Cardinality(Of(f, Sent))] : h \in handed(f)} :
      f \in {g \in Fates(order, Sent \cup {"circuit_open", "budget_blocked", "deadline_exceeded", "policy_excluded"}) :
               ok(g)}}

\* _execute_research_v3: the pages of all that answered in time, each once; the time may
\* be over before those are read, or while they are.
ResearchRuns(r) ==
  LET order == plan[r].order
      listed(p) == Listed(p, CHOOSE pages \in Pages(p) : TRUE)
      raw(f)    == Joined([i \in DOMAIN order |-> IF f[i] = "answered" THEN listed(order[i]) ELSE <<>>])
      first(s)  == {i \in DOMAIN s : \A j \in 1..(i - 1) : Canon[s[j].url] # Canon[s[i].url]}
      handed(f, short) ==
        IF raw(f) = <<>> THEN Nothing("research", plan[r].first, <<>>)
        ELSE [Payload("research", plan[r].first, At(raw(f), first(raw(f))), raw(f)) EXCEPT !.limited = short]
  IN UNION {{[payload |-> handed(f, short), attempts |-> Attempts(order, f), calls |-> Cardinality(Of(f, Sent))] :
               short \in BOOLEAN} :
      f \in {g \in Fates(order, {"answered", "failed", "late", "circuit_open", "budget_blocked", "deadline_exceeded"}) :
               Affordable(g, Sent, Units(r))}}

\* _execute_extract_v3: each URL is refused, served by one provider, or by none; a
\* provider is asked for what is still open, which a URL whose failure is final is not.
Processed(r) == SubSeq(req[r].urls, 1, P!Least(Len(req[r].urls), scene.maxUrls))

ExtractRuns(r) ==
  LET order   == plan[r].order
      urls    == Processed(r)
      \* by[u] is the provider that served u, or minus the one whose failure was final, 0 for
      \* neither, one past the last for refused.
      givers  == [DOMAIN urls -> DOMAIN order \cup {-i : i \in DOMAIN order} \cup {0, Len(order) + 1}]
      serving(by) == {by[u] : u \in DOMAIN urls} \cap DOMAIN order
      closing(by) == {-by[u] : u \in DOMAIN urls} \cap DOMAIN order
      asked(by, i) == {u \in DOMAIN urls : by[u] = 0 \/ {by[u], -by[u]} \cap (i..Len(order)) # {}}
      fits(by, f) ==
        /\ \A i \in DOMAIN order :
             /\ asked(by, i) = {} <=> f[i] = "policy_excluded"
             /\ i \in serving(by) <=> f[i] \in {"answered", "cut"}
             /\ i \in closing(by) => f[i] \in {"answered", "cut", "failed"}
        /\ Affordable(f, Sent \cup {"cut"}, Units(r))
      item(by, u, size) ==
        IF by[u] \in serving(by)
        THEN Item(urls[u], IF Cardinality(serving(by)) > 1 THEN order[by[u]] ELSE None, size)
        ELSE Miss(urls[u])
      handed(by, f, size) ==
        LET items == [u \in DOMAIN urls |-> item(by, u, size)]
            last  == Max(serving(by))
        IN IF \A u \in DOMAIN urls : by[u] = Len(order) + 1 THEN Nothing("extract", plan[r].first, <<>>)
           ELSE IF serving(by) = {} THEN Nothing("extract", plan[r].first, items)
           ELSE [Payload("extract", order[last], items, items) EXCEPT
                   !.fallback = IF last = 1 THEN "none" ELSE "selected_failed"]
      refused(by) == \A u \in DOMAIN urls : by[u] = Len(order) + 1
  IN UNION {UNION {{[payload |-> handed(by, f, size),
                     attempts |-> IF refused(by) THEN <<>> ELSE Attempts(order, f),
                     calls |-> Cardinality(Of(f, Sent \cup {"cut"}))] : size \in Sizes} :
              f \in {g \in Fates(order, {"answered", "cut", "failed", "circuit_open", "budget_blocked",
                                         "deadline_exceeded", "policy_excluded"}) : fits(by, g)}} :
      by \in givers}

Runs(r) ==
  CASE req[r].kind = "search"   -> SearchRuns(r)
    [] req[r].kind = "research" -> ResearchRuns(r)
    [] req[r].kind = "extract"  -> ExtractRuns(r)

Execute(r) ==
  /\ pc[r] = "execute"
  /\ \E o \in Runs(r) :
       /\ run' = [run EXCEPT ![r] = o]
       /\ sent' = [sent EXCEPT ![r] = o.calls]
       /\ ledger' = P!OrElse(ledger, 0) + IF scene.pre.enabled /\ scene.pre.daily # None THEN o.calls ELSE 0
  /\ Goto(r, "finish")
  /\ UNCHANGED <<scene, keyed, cache, req, plan, verdict, resp>>
-----------------------------------------------------------------------------
(***************************************************************************)
(* Normalize, attach the evidence, complete, finalize, write.              *)
(***************************************************************************)
Omitted(r) == Len(req[r].urls) - Len(Processed(r))

Finalized(r, rs, storable) ==
  IF req[r].kind # "extract" THEN rs
  ELSE Bounded(rs, Chars(r), Omitted(r), storable)

\* _search_cache_write_eligible, _extract_cache_write_eligible: every URL has its page.
WorthKeeping(r, rs) ==
  /\ rs.results # <<>>
  /\ req[r].kind = "extract" => \A it \in Range(run[r].payload.items) : ~it.error

Entry(r, rs) == [key |-> Key(r), resp |-> rs, by |-> r, age |-> 0]

\* The write may fail.
Finish(r) ==
  /\ pc[r] = "finish"
  /\ \E storable \in BOOLEAN, written \in BOOLEAN :
       LET built == Built(req[r].kind, run[r].payload, run[r].attempts, plan[r].order)
           rs    == Finalized(r, Complete(Evidenced(built, verdict[r])), storable)
           final == [rs EXCEPT !.cache = IF req[r].cache = "bypass" THEN "bypassed" ELSE @]
       IN /\ ~storable => final.stored # {}
          /\ Answer(r, final)
          /\ cache' = IF /\ written /\ Enabled(r) /\ ValidResponse(final)
                         /\ final.status # "failed" /\ WorthKeeping(r, final)
                      THEN {e \in cache : e.key # Key(r)} \cup {Entry(r, final)} ELSE cache
  /\ UNCHANGED <<scene, keyed, ledger, req, plan, verdict, run, sent>>

Age ==
  /\ \E e \in cache : e.age <= MaxAge
  /\ cache' = {[e EXCEPT !.age = @ + 1] : e \in {e \in cache : e.age <= MaxAge}}
  /\ UNCHANGED <<scene, keyed, ledger, pc, req, plan, verdict, run, resp, sent>>

Next ==
  \/ \E r \in Requests :
       \/ \E q \in scene.requests : Submit(r, q)
       \/ Preflight(r) \/ Lookup(r) \/ Execute(r) \/ Finish(r)
  \/ \E p \in Provider : Rekey(p)
  \/ Age

Spec == Init /\ [][Next]_vars
-----------------------------------------------------------------------------
(***************************************************************************)
(* Properties.                                                             *)
(***************************************************************************)
Live(r) == run[r] # None
Rows(r) == Projected(resp[r], run[r].payload.items, SubSeq(req[r].urls, Len(Processed(r)) + 1, Len(req[r].urls)))

\* Once a provider was called the caller gets an answer and not an exception about the
\* receipt, and the answer has every page that was served: each URL of an extraction
\* its row, in order, with its page or the reason (contract_v3.py:327-671, 1166-1309;
\* runtime_v3.py:447-560; compat_v3.py:128-202).
PaidIsAnswered ==
  \A r \in Requests :
    /\ pc[r] = "raised" => sent[r] = 0
    /\ pc[r] = "done" /\ Live(r) =>
         /\ \A it \in Range(run[r].payload.items) :
              ~it.error => \E x \in Range(resp[r].results) : Canon[x.url] = Canon[it.url]
         /\ req[r].kind = "extract" /\ run[r].payload.items # <<>> =>
              /\ [k \in DOMAIN Rows(r) |-> Rows(r)[k].url] = req[r].urls
              /\ \A k \in DOMAIN Processed(r) :
                   Rows(r)[k].error = run[r].payload.items[k].error

\* A response says "failed" when nothing was served, "ok" only when nothing is missing,
\* shortened, old or left out by a limit, and names a limit only when a call or the reading
\* of the pages of a research ran into one; a lost race is no limit
\* (runtime_v3.py:585-668; search.py:1815-1819; orchestrator_v3.py:466-488).
StatusTrue ==
  \A r \in Requests : pc[r] = "done" =>
    /\ resp[r].status = "failed" => resp[r].results = <<>>
    /\ resp[r].status = "ok" =>
         /\ resp[r].cache # "stale_hit"
         /\ \A x \in Range(resp[r].results) : x.text = x.of.text
         /\ Live(r) => /\ \A it \in Range(run[r].payload.items) : ~it.error
                       /\ ~run[r].payload.limited
                       /\ \A a \in Range(run[r].attempts) : a.skip \notin {"budget_blocked", "deadline_exceeded"}
    /\ "limited" \in resp[r].warnings /\ Live(r) =>
         \/ run[r].payload.limited
         \/ \E a \in Range(run[r].attempts) :
              \/ a.skip \in {"budget_blocked", "deadline_exceeded"}
              \/ a.outcome = "cancelled" /\ a.provider \notin run[r].payload.superseded

\* No request sends more calls than its own limit and the operator's, and all together
\* no more than the day's, though each read the ledger before it was executed; the texts
\* of an extraction fit in the operator's limit, whether fresh or from the cache
\* (budget_preflight_v3.py:205-280; orchestrator_v3.py:186-240; bounded_context_v3.py:55-141).
CapsHold ==
  /\ \A r \in Requests :
       sent[r] > 0 => /\ req[r].calls # None => sent[r] <= req[r].calls
                      /\ scene.pre.enabled /\ scene.pre.calls # None => sent[r] <= scene.pre.calls
                      /\ scene.pre.enabled /\ scene.pre.timeout # None =>
                           P!Timeout(req[r]) # None /\ P!Timeout(req[r]) <= scene.pre.timeout
  /\ scene.pre.enabled /\ scene.pre.daily # None /\ ledger # None => ledger <= scene.pre.daily
  /\ \A r \in Requests :
       pc[r] = "done" /\ req[r].kind = "extract" /\ scene.pre.enabled /\ scene.pre.context # None =>
         Total([i \in DOMAIN resp[r].results |-> resp[r].results[i].text]) <= scene.pre.context

\* A hit is a whole answer to the same request under the same plan, and says that no
\* provider was called for it (orchestrator_v3.py:430-516; extract.py:1133-1217).
HitsAreWhole ==
  \A r \in Requests : pc[r] = "done" /\ resp[r].cache \in {"fresh_hit", "stale_hit"} =>
    /\ sent[r] = 0 /\ resp[r].attempts = <<>> /\ resp[r].receipt.decisions = <<>>
    /\ resp[r].receipt.origin.order = plan[r].order
    /\ resp[r].results # <<>> /\ ~resp[r].error
    /\ req[r].kind = "extract" =>
         {x.of.slot : x \in Range(resp[r].results)} = DOMAIN Processed(r) /\ "partial" \notin resp[r].warnings

\* What read_budget_snapshot's documentation says, "a missing row is distinct from an
\* unavailable database so policy can fail closed only when necessary"
\* (state_store_v3.py:849-853): while no store is broken none is refused for want of it.
ClosedOnlyWhenNecessary ==
  \A r \in Requests : verdict[r].reason # "budget_ledger_unavailable"
-----------------------------------------------------------------------------
(***************************************************************************)
(* The inductive invariant of HitsAreWhole.                                *)
(***************************************************************************)
IsReceipt(rc) ==
  rc = [order |-> rc.order, selected |-> rc.selected, fallback |-> rc.fallback, preflight |-> rc.preflight,
        completed |-> rc.completed, decisions |-> rc.decisions, origin |-> rc.origin]

IsResponse(rs) ==
  /\ rs = [kind |-> rs.kind, results |-> rs.results, observed |-> rs.observed, attempts |-> rs.attempts,
           status |-> rs.status, warnings |-> rs.warnings, error |-> rs.error, receipt |-> rs.receipt,
           evidence |-> rs.evidence, limits |-> rs.limits, stored |-> rs.stored, cache |-> rs.cache]
  /\ IsReceipt(rs.receipt)

IsResult(x) == x = [url |-> x.url, of |-> x.of, members |-> x.members, text |-> x.text]

Allowed(urls) == DOMAIN SubSeq(urls, 1, P!Least(Len(urls), scene.maxUrls))
SlotsOf(results) == {x.of.slot : x \in Range(results)}

\* An entry is a whole answer to whoever has its key.
IsWhole(e) ==
  /\ e = [key |-> e.key, resp |-> e.resp, by |-> e.by, age |-> e.age] /\ IsResponse(e.resp)
  /\ e.resp.results # <<>> /\ ~e.resp.error
  /\ e.key.kind = "extract" =>
       SlotsOf(e.resp.results) = Allowed(e.key.urls) /\ "partial" \notin e.resp.warnings

\* An extraction without an error has an item for every URL that may be fetched, and the
\* providers it names are among those that served.
RunServes(r) ==
  LET items    == run[r].payload.items
      attempts == run[r].attempts
  IN req[r].kind = "extract" =>
       /\ ~run[r].payload.research /\ run[r].payload.raw = items
       /\ items # <<>> /\ (\A it \in Range(items) : ~it.error) =>
            /\ DOMAIN items = Allowed(req[r].urls)
            /\ DOMAIN attempts = DOMAIN plan[r].order
            /\ \A i \in DOMAIN attempts : attempts[i].provider = plan[r].order[i]
            /\ \/ \A u \in DOMAIN items : items[u].provider = None
               \/ \A u \in DOMAIN items :
                    \E i \in ServedAttempts(attempts) : items[u].provider = attempts[i].provider

Inv ==
  /\ scene \in Scenes
  /\ DOMAIN pc = Requests /\ DOMAIN req = Requests /\ DOMAIN plan = Requests
  /\ DOMAIN run = Requests /\ DOMAIN resp = Requests /\ DOMAIN sent = Requests
  /\ \A r \in Requests :
       /\ pc[r] \in {"idle", "preflight", "lookup", "execute"} => sent[r] = 0
       /\ pc[r] = "preflight" => req[r] \in scene.requests
       /\ pc[r] \in {"lookup", "execute", "finish"} => req[r].urls \in Seq(Url)
       /\ pc[r] = "finish" => RunServes(r)
  /\ (\A e \in cache : IsWhole(e)) /\ HitsAreWhole

\* The inductive invariant of StatusTrue.  What is kept is no failure, and is called
\* "ok" only when no text was cut.
Uncut(results) == \A x \in Range(results) : x.text = x.of.text

StatusKnown ==
  /\ \A r \in Requests :
       /\ pc[r] \in {"idle", "preflight", "lookup", "execute"} => run[r] = None
  /\ \A e \in cache : e.resp.status # "failed" /\ (e.resp.status = "ok" => Uncut(e.resp.results))

StatusInv == StatusKnown /\ StatusTrue

\* The inductive invariant of CapsHold.  Once it has passed the preflight a plan is within
\* the limits; each URL of an extraction has a text of its own; and what is kept is within
\* the limit it is kept under.
Within(r) ==
  LET pre == scene.pre
  IN /\ req[r] \in RequestV3
     /\ pre.enabled =>
          /\ pre.calls # None => P!PlannedCalls(req[r], plan[r].order) <= pre.calls
          /\ pre.timeout # None => P!Timeout(req[r]) # None /\ P!Timeout(req[r]) <= pre.timeout
          /\ pre.context # None => P!Context(req[r], pre.usual) <= pre.context

RunSized(r) ==
  LET raw == run[r].payload.raw
  IN req[r].kind = "extract" =>
       /\ ~run[r].payload.research
       /\ raw \in Seq(Range(raw))
       /\ \A s \in DOMAIN raw : raw[s].size \in Nat
       /\ \A i \in DOMAIN run[r].attempts :
            i \in DOMAIN plan[r].order /\ run[r].attempts[i].provider = plan[r].order[i]

TextsOf(results) == [i \in DOMAIN results |-> results[i].text]

CapsKnown ==
  /\ ledger \in Nat \cup {None}
  /\ \A r \in Requests :
       /\ pc[r] \in {"preflight", "lookup", "execute", "finish"} =>
            plan[r] = [order |-> plan[r].order, first |-> plan[r].first] /\ plan[r].order \in Seq(Provider)
       /\ pc[r] \in {"lookup", "execute", "finish"} => Within(r)
       /\ pc[r] = "finish" => RunSized(r)
  /\ \A e \in cache : e.key.kind = "extract" => Total(TextsOf(e.resp.results)) \in 0..e.key.context

CapsInv == CapsKnown /\ CapsHold

\* The inductive invariant of PaidIsAnswered.  A plan names no provider twice, and a run has
\* one attempt of each; it hands over what the attempts that served returned, and says of
\* which the caller hears, and whether that was the first of the plan.
Tried(attempts, order) ==
  attempts # <<>> =>
    /\ DOMAIN attempts = DOMAIN order
    /\ \A i \in DOMAIN order :
         attempts[i].provider = order[i] /\ attempts[i].outcome \in Served \cup Lost \cup {"skipped"}

Listing(items) ==
  /\ Len(items) \in Nat /\ DOMAIN items = 1..Len(items)
  /\ \A s \in DOMAIN items : items[s].size \in Nat

Speaks(payload, attempts, order) ==
  \/ payload.research
  \/ ServedAttempts(attempts) = {} /\ \A it \in Range(payload.items) : it.error
  \/ \E w \in ServedAttempts(attempts) :
       payload.provider = order[w] /\ ((payload.fallback = "none") <=> (w = 1))

ServedBy(it, attempts) == \E i \in ServedAttempts(attempts) : it.provider = attempts[i].provider

Answering(r, o) ==
  LET payload == o.payload
      items   == payload.items
      raw     == payload.raw
  IN /\ Tried(o.attempts, plan[r].order) /\ Speaks(payload, o.attempts, plan[r].order)
     /\ Listing(raw) /\ Listing(items)
     /\ payload.research => req[r].kind = "research" /\ \A it \in Range(raw) : ServedBy(it, o.attempts)
     /\ req[r].kind # "extract" => Range(items) \subseteq Range(raw)
     /\ req[r].kind = "extract" /\ items # <<>> =>
          /\ raw = items /\ DOMAIN items = Allowed(req[r].urls)
          /\ \A u \in DOMAIN items :
               items[u].url = req[r].urls[u] /\ (items[u].error => items[u].provider = None)
          /\ \/ \A u \in DOMAIN items : items[u].provider = None
             \/ \A u \in DOMAIN items : items[u].error \/ ServedBy(items[u], o.attempts)

RunAnswers(r) == Answering(r, run[r])

AnswerKnown ==
  \A r \in Requests :
    /\ pc[r] \in {"preflight", "lookup", "execute", "finish"} => IsInjective(plan[r].order)
    /\ pc[r] = "finish" => RunAnswers(r)

AnswerInv == AnswerKnown /\ PaidIsAnswered
=============================================================================
