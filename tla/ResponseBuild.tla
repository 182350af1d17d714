---------------------------- MODULE ResponseBuild ----------------------------
(***************************************************************************)
(* From what the providers returned to the response the caller gets:       *)
(* response_from_legacy (runtime_v3.py), the bounds of an extraction       *)
(* (bounded_context_v3.py), what ResponseV3 refuses to hold                *)
(* (contract_v3.py), and the older shape an extraction is answered in      *)
(* (compat_v3.py).                                                         *)
(*                                                                         *)
(* An item is a URL, the provider it is marked with, whether it says why   *)
(* there is no page, and the length of its text.  An observation is named  *)
(* by the attempt it came from and its place there.                        *)
(***************************************************************************)
EXTENDS RoutingReceipt, Selection

CONSTANTS
  Url,            \* spellings of page addresses
  Canon,          \* spelling -> canonical_url
  Earlier(_, _)   \* the alphabet, of providers

Item(u, p, size) == [url |-> u, provider |-> p, error |-> FALSE, size |-> size]
Miss(u)          == [url |-> u, provider |-> None, error |-> TRUE, size |-> 0]
-----------------------------------------------------------------------------
(***************************************************************************)
(* The observations: every item the providers returned, each tied to the   *)
(* attempt that returned it.                                               *)
(***************************************************************************)
ServedAttempts(attempts) == {i \in DOMAIN attempts : attempts[i].outcome \in Served}

\* successful_attempt: the selected provider's last one, else the last of all.
Best(attempts, selected) ==
  LET own == {i \in ServedAttempts(attempts) : attempts[i].provider = selected}
  IN IF own # {} THEN Max(own)
     ELSE IF ServedAttempts(attempts) # {} THEN Max(ServedAttempts(attempts)) ELSE 0

\* multi_source_extract: pages of several providers in one answer.
Merged(kind, items, attempts) ==
  kind = "extract" /\
  Cardinality({attempts[i].provider : i \in ServedAttempts(attempts)}
                \cap {it.provider : it \in {t \in Range(items) : ~t.error}}) > 1

\* The slots of the raw items that belong to attempt i.  A page nobody served is
\* anchored to the best attempt.
Slots(kind, raw, attempts, best, i) ==
  {s \in DOMAIN raw :
     \/ raw[s].provider = attempts[i].provider
     \/ kind = "extract" /\ raw[s].provider = None /\ raw[s].error /\ i = best}

Observation(raw, s, slots, i, provider) ==
  [slot |-> s, attempt |-> i, index |-> Cardinality({t \in slots : t < s}), provider |-> provider,
   url |-> raw[s].url, text |-> IF raw[s].error THEN 0 ELSE raw[s].size]

Observations(kind, payload, attempts, selected) ==
  LET raw  == payload.raw
      best == Best(attempts, selected)
  IN IF attempts # <<>> /\ (payload.research \/ Merged(kind, payload.items, attempts))
     THEN UNION {{Observation(raw, s, Slots(kind, raw, attempts, best, i), i, attempts[i].provider) :
                    s \in Slots(kind, raw, attempts, best, i)} : i \in ServedAttempts(attempts)}
     ELSE IF selected = None \/ best = 0 THEN {}
     ELSE {Observation(raw, s, DOMAIN raw, best, selected) : s \in DOMAIN raw}
-----------------------------------------------------------------------------
(***************************************************************************)
(* The results                                                             *)
(***************************************************************************)
Result(seen, members) == [url |-> seen.url, of |-> seen, members |-> members, text |-> seen.text]

\* project_extract_results_from_observations: one per requested URL, in that order.
BySlot(observed) ==
  CHOOSE s \in [1..Cardinality(observed) -> observed] :
    \A i, j \in DOMAIN s : i < j => s[i].slot < s[j].slot

ExtractResults(observed) ==
  [i \in DOMAIN BySlot(observed) |-> Result(BySlot(observed)[i], {BySlot(observed)[i]})]

\* _observation_order: whatever the order of arrival.
Leads(o, q) == Earlier(o.provider, q.provider) \/ (o.provider = q.provider /\ o.index < q.index)

\* project_results_from_observations: one per page, where its first item stands; the
\* observation of that spelling speaks for it.
SearchResults(items, observed) ==
  LET cluster(u) == {o \in observed : Canon[o.url] = Canon[u]}
      first == {i \in DOMAIN items :
                  /\ cluster(items[i].url) # {}
                  /\ \A j \in 1..(i - 1) : Canon[items[j].url] # Canon[items[i].url]}
      ranks == Places(items, first)
      voice(u) == LET same == {o \in cluster(u) : o.url = u}
                      from == IF same # {} THEN same ELSE cluster(u)
                  IN CHOOSE o \in from : \A q \in from : q = o \/ Leads(o, q)
  IN [r \in DOMAIN ranks |-> Result(voice(items[ranks[r]].url), cluster(items[ranks[r]].url))]
-----------------------------------------------------------------------------

Limited(payload, attempts) ==
  \/ payload.limited
  \/ \E a \in Range(attempts) :
       \/ a.outcome = "cancelled" /\ a.provider \notin payload.superseded
       \/ a.skip \in {"budget_blocked", "deadline_exceeded"}

Built(kind, payload, attempts, order) ==
  LET selected == IF payload.research THEN None ELSE payload.provider
      observed == Observations(kind, payload, attempts, selected)
      results  == IF kind = "extract" THEN ExtractResults(observed)
                  ELSE SearchResults(payload.items, observed)
      missing  == \E it \in Range(payload.items) : it.error
      failed   == payload.error /\ results = <<>>
      limited  == Limited(payload, attempts)
  IN [kind |-> kind, results |-> results, observed |-> observed, attempts |-> attempts,
      status   |-> IF failed THEN "failed" ELSE IF missing \/ limited THEN "degraded" ELSE "ok",
      warnings |-> (IF missing THEN {"partial"} ELSE {})
                     \cup (IF limited /\ ~failed THEN {"limited"} ELSE {}),
      error    |-> failed,
      receipt  |-> [order |-> order, selected |-> IF results = <<>> THEN None ELSE selected,
                    fallback |-> payload.fallback, preflight |-> None, completed |-> FALSE,
                    decisions |-> <<>>, origin |-> None],
      evidence |-> 0, limits |-> None, stored |-> {}, cache |-> "miss"]

\* The responses that no provider was asked for.
Refusal(kind, order, disposition) ==
  [kind |-> kind, results |-> <<>>, observed |-> {}, attempts |-> <<>>, status |-> "failed",
   warnings |-> {}, error |-> TRUE,
   receipt |-> [order |-> order, selected |-> None, fallback |-> "none", preflight |-> None,
                completed |-> FALSE, decisions |-> <<>>, origin |-> None],
   evidence |-> 0, limits |-> None, stored |-> {}, cache |-> disposition]
-----------------------------------------------------------------------------
(***************************************************************************)
(* apply_bounded_context: the texts of an extraction within one budget     *)
(***************************************************************************)
Total(lengths) == FoldSeq(+, 0, lengths)

\* _fair_share_allocations: satisfy whoever needs no more than an equal share; when
\* nobody does, give equal shares, the remainder to the first.
Share(left, active) == left \div Cardinality(active)

Round(lengths, was) ==
  LET n    == Share(was.left, was.active)
      meet == {i \in was.active : lengths[i] <= n}
      rest == was.left % Cardinality(was.active)
  IN IF was.active = {} \/ was.left <= 0 THEN was
     ELSE IF meet # {}
     THEN [given  |-> [i \in DOMAIN lengths |-> IF i \in meet THEN lengths[i] ELSE was.given[i]],
           active |-> was.active \ meet,
           left   |-> was.left - MapThenSumSet(LAMBDA i : lengths[i], meet)]
     ELSE [given  |-> [i \in DOMAIN lengths |->
                        IF i \notin was.active THEN was.given[i]
                        ELSE n + IF Cardinality({j \in was.active : j < i}) < rest THEN 1 ELSE 0],
           active |-> {}, left |-> 0]

FairShare(lengths, budget) ==
  LET start == [given |-> [i \in DOMAIN lengths |-> 0], active |-> DOMAIN lengths, left |-> budget]
      round[r \in 0..(Len(lengths) + 1)] == IF r = 0 THEN start ELSE Round(lengths, round[r - 1])
  IN IF Total(lengths) <= budget THEN lengths ELSE round[Len(lengths) + 1].given

\* Full texts that did not fit are stored; storing may fail.
Bounded(resp, chars, omitted, storable) ==
  LET lengths == [i \in DOMAIN resp.results |-> resp.results[i].text]
      given   == FairShare(lengths, chars)
      cut     == {i \in DOMAIN lengths : given[i] < lengths[i]}
  IN [resp EXCEPT
        !.results  = [i \in DOMAIN @ |-> IF i \in cut THEN [@[i] EXCEPT !.text = given[i]] ELSE @[i]],
        !.stored   = {[of |-> resp.results[i].of, ok |-> storable] : i \in cut},
        !.warnings = @ \cup (IF cut # {} THEN {"truncated"} ELSE {})
                       \cup (IF omitted > 0 THEN {"omitted"} ELSE {})
                       \cup (IF cut # {} /\ ~storable THEN {"unstored"} ELSE {}),
        !.limits   = [chars |-> chars, omitted |-> omitted],
        !.status   = IF @ # "failed" /\ (cut # {} \/ omitted > 0) THEN "degraded" ELSE @]
-----------------------------------------------------------------------------
(***************************************************************************)
(* ResponseV3.__post_init__                                                *)
(***************************************************************************)
ValidResponse(resp) ==
  /\ ValidReceipt(resp.receipt, resp.attempts)
  /\ \A o, p \in resp.observed : <<o.attempt, o.index>> = <<p.attempt, p.index>> => o = p
  /\ \A r \in Range(resp.results) :
       /\ r.of \in r.members /\ r.members \subseteq resp.observed
       /\ r.text <= r.of.text
  /\ {s.of : s \in resp.stored} \subseteq resp.observed
  /\ resp.status = "degraded" =>
       resp.warnings \cap {"stale", "truncated", "omitted", "partial", "limited"} # {}
  /\ resp.error = (resp.status = "failed")
-----------------------------------------------------------------------------
(***************************************************************************)
(* v3_response_to_legacy_extract and _append_omitted_url_errors: one row   *)
(* per requested URL.  The k-th row of a URL takes the k-th result with    *)
(* that URL; a row that says why there is no page stays without one.       *)
(***************************************************************************)
Projected(resp, items, omittedUrls) ==
  LET nth(seq, i) == Cardinality({j \in 1..i : seq[j].url = seq[i].url})
      answer(i)   == {r \in DOMAIN resp.results :
                        /\ resp.results[r].url = items[i].url
                        /\ nth(resp.results, r) = nth(items, i)}
      row(i)      == [url |-> items[i].url, error |-> items[i].error,
                      text |-> IF answer(i) = {} THEN 0 ELSE resp.results[CHOOSE r \in answer(i) : TRUE].text]
      kept        == Places(items, {i \in DOMAIN items : answer(i) # {} \/ items[i].error})
  IN [k \in DOMAIN kept |-> row(kept[k])] \o
     [k \in DOMAIN omittedUrls |-> [url |-> omittedUrls[k], error |-> TRUE, text |-> 0]]
=============================================================================
