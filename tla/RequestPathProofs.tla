--------------------------- MODULE RequestPathProofs ---------------------------
(***************************************************************************)
(* Four properties of RequestPath, for any providers, configurations,      *)
(* requests and outcomes of executions.                                    *)
(*                                                                         *)
(* HitsAreWhole: what is found in the cache is a whole answer.  The long   *)
(* way there is from what an extraction hands over (RunServes) to the      *)
(* response that is kept: an item for every URL, an observation for every  *)
(* item, a result for every observation.                                   *)
(*                                                                         *)
(* StatusTrue: what is built says no more than the run it is built from    *)
(* (FinalTells), and no run hands over a result list cut by a limit.       *)
(*                                                                         *)
(* CapsHold: a run costs no more than the units it had (RunCosts), the     *)
(* preflight leaves no more than the limits (PreflightFits), and the       *)
(* shares of the texts of an extraction sum to the budget at most, for     *)
(* any number of texts and rounds (FairShareFits).                         *)
(*                                                                         *)
(* PaidIsAnswered: what a run hands over is enough for an answer           *)
(* (RunsAnswer), whatever is built from such a run is valid and shows      *)
(* every page that was served, and compat_v3.py makes of it a row for      *)
(* every URL (FinalAnswers).                                               *)
(***************************************************************************)
EXTENDS RequestPath, FiniteLemmas, SequenceTheorems

-----------------------------------------------------------------------------
(***************************************************************************)
(* What the steps from the parts to the response leave of it               *)
(***************************************************************************)
LEMMA EvidencedKeeps ==
  ASSUME NEW rs, IsResponse(rs), NEW d
  PROVE  LET new == Evidenced(rs, d) IN
         /\ IsResponse(new)
         /\ new.results = rs.results /\ new.observed = rs.observed /\ new.attempts = rs.attempts
         /\ new.warnings = rs.warnings /\ new.error = rs.error /\ new.status = rs.status
         /\ new.cache = rs.cache /\ new.stored = rs.stored
         /\ new.receipt.order = rs.receipt.order /\ new.receipt.decisions = rs.receipt.decisions
         /\ new.receipt.origin = rs.receipt.origin /\ new.receipt.completed = rs.receipt.completed
BY DEF Evidenced, IsResponse, IsReceipt

LEMMA CompletedIs ==
  ASSUME NEW rc, IsReceipt(rc), NEW attempts
  PROVE  LET new == Completed(rc, attempts) IN
         IsReceipt(new) /\ new.order = rc.order /\ new.completed = TRUE
<1> DEFINE decisions == Decisions(rc.order, rc.selected, attempts, rc.preflight = "abort")
           fallback  == Fallback(rc.order, rc.selected, decisions, rc.fallback)
           new       == Completed(rc, attempts)
<1>1. new = [rc EXCEPT !.decisions = decisions, !.completed = TRUE, !.origin = None, !.fallback = fallback]
  BY DEF Completed, IsReceipt
<1> HIDE DEF decisions, fallback, new
<1>2. new = [order |-> rc.order, selected |-> rc.selected, fallback |-> fallback, preflight |-> rc.preflight,
             completed |-> TRUE, decisions |-> decisions, origin |-> None]
  BY <1>1 DEF IsReceipt
<1>3. IsReceipt(new) /\ new.order = rc.order /\ new.completed = TRUE
  BY <1>2 DEF IsReceipt
<1>. QED  BY <1>3 DEF new

LEMMA CompleteKeeps ==
  ASSUME NEW rs, IsResponse(rs)
  PROVE  LET new == Complete(rs) IN
         /\ IsResponse(new)
         /\ new.results = rs.results /\ new.observed = rs.observed /\ new.attempts = rs.attempts
         /\ new.warnings = rs.warnings /\ new.error = rs.error /\ new.status = rs.status
         /\ new.cache = rs.cache /\ new.receipt.order = rs.receipt.order /\ new.receipt.completed = TRUE
<1> DEFINE done == Completed(rs.receipt, rs.attempts)
           new  == Complete(rs)
<1>1. new = [rs EXCEPT !.receipt = done]
  BY DEF Complete
<1>2. IsReceipt(done) /\ done.order = rs.receipt.order /\ done.completed = TRUE
  BY CompletedIs DEF IsResponse
<1> HIDE DEF done, new
<1>3. new = [kind |-> rs.kind, results |-> rs.results, observed |-> rs.observed, attempts |-> rs.attempts,
             status |-> rs.status, warnings |-> rs.warnings, error |-> rs.error, receipt |-> done,
             evidence |-> rs.evidence, limits |-> rs.limits, stored |-> rs.stored, cache |-> rs.cache]
  BY <1>1 DEF IsResponse
<1>4. /\ IsResponse(new)
      /\ new.results = rs.results /\ new.observed = rs.observed /\ new.attempts = rs.attempts
      /\ new.warnings = rs.warnings /\ new.error = rs.error /\ new.status = rs.status
      /\ new.cache = rs.cache /\ new.receipt = done
  BY <1>2, <1>3 DEF IsResponse
<1>. QED  BY <1>2, <1>4 DEF new

LEMMA RefusalIs ==
  ASSUME NEW kind, NEW order, NEW disposition
  PROVE  IsResponse(Refusal(kind, order, disposition)) /\ Refusal(kind, order, disposition).cache = disposition
BY DEF Refusal, IsResponse, IsReceipt

\* A response nobody was asked for is no hit.
LEMMA RefusedIsNoHit ==
  ASSUME NEW kind, NEW order, NEW disposition \in {"bypassed", "miss"}, NEW d
  PROVE  /\ Complete(Evidenced(Refusal(kind, order, disposition), d)).cache = disposition
         /\ Evidenced(Complete(Refusal(kind, order, disposition)), d).cache = disposition
<1> DEFINE rs == Refusal(kind, order, disposition)
<1>1. IsResponse(rs) /\ rs.cache = disposition
  BY RefusalIs
<1> HIDE DEF rs
<1>2. IsResponse(Evidenced(rs, d)) /\ Evidenced(rs, d).cache = disposition
  BY <1>1, EvidencedKeeps
<1>3. IsResponse(Complete(rs)) /\ Complete(rs).cache = disposition
  BY <1>1, CompleteKeeps
<1>4. Complete(Evidenced(rs, d)).cache = disposition
  BY <1>2, CompleteKeeps
<1>5. Evidenced(Complete(rs), d).cache = disposition
  BY <1>3, EvidencedKeeps
<1>. QED  BY <1>4, <1>5 DEF rs

\* The bounds shorten texts; what each result stands for stays.
LEMMA BoundedKeeps ==
  ASSUME NEW rs, IsResponse(rs), NEW chars, NEW omitted, NEW storable
  PROVE  LET new == Bounded(rs, chars, omitted, storable) IN
         /\ IsResponse(new)
         /\ new.error = rs.error /\ new.cache = rs.cache /\ new.receipt = rs.receipt
         /\ "partial" \in new.warnings => "partial" \in rs.warnings
         /\ DOMAIN new.results = DOMAIN rs.results
         /\ rs.results = <<>> => new.results = <<>>
         /\ \A i \in DOMAIN rs.results : IsResult(rs.results[i]) => new.results[i].of = rs.results[i].of
<1> DEFINE lengths == [i \in DOMAIN rs.results |-> rs.results[i].text]
           given   == FairShare(lengths, chars)
           cut     == {i \in DOMAIN lengths : given[i] < lengths[i]}
           texts   == [i \in DOMAIN rs.results |->
                        IF i \in cut THEN [rs.results[i] EXCEPT !.text = given[i]] ELSE rs.results[i]]
           lost    == {[of |-> rs.results[i].of, ok |-> storable] : i \in cut}
           said    == rs.warnings \cup (IF cut # {} THEN {"truncated"} ELSE {})
                         \cup (IF omitted > 0 THEN {"omitted"} ELSE {})
                         \cup (IF cut # {} /\ ~storable THEN {"unstored"} ELSE {})
           status  == IF rs.status # "failed" /\ (cut # {} \/ omitted > 0) THEN "degraded" ELSE rs.status
           limits  == [chars |-> chars, omitted |-> omitted]
           new     == Bounded(rs, chars, omitted, storable)
<1>1. new = [rs EXCEPT !.results = texts, !.stored = lost, !.warnings = said, !.limits = limits, !.status = status]
  BY DEF Bounded
<1>2. /\ DOMAIN texts = DOMAIN rs.results
      /\ \A i \in DOMAIN rs.results : IsResult(rs.results[i]) => texts[i].of = rs.results[i].of
  <2> HIDE DEF given
  <2>1. ASSUME NEW i \in DOMAIN rs.results, IsResult(rs.results[i]) PROVE texts[i].of = rs.results[i].of
    <3> DEFINE x == rs.results[i]
    <3>1. (texts[i] = [x EXCEPT !.text = given[i]] \/ texts[i] = x) /\ IsResult(x)
      BY <2>1
    <3> HIDE DEF x, texts
    <3>2. texts[i].of = x.of
      BY <3>1 DEF IsResult
    <3>. QED  BY <3>2 DEF x
  <2>. QED  BY <2>1
<1>3. rs.results = <<>> => texts = <<>>
  <2> HIDE DEF given
  <2>. QED  OBVIOUS
<1>4. "partial" \in said => "partial" \in rs.warnings
  OBVIOUS
<1> HIDE DEF texts, lost, said, status, limits, new
<1>5. /\ IsResponse(new) /\ new.results = texts /\ new.warnings = said
      /\ new.error = rs.error /\ new.cache = rs.cache /\ new.receipt = rs.receipt
  BY <1>1 DEF IsResponse
<1>. QED  BY <1>2, <1>3, <1>4, <1>5 DEF new

LEMMA BuiltIs ==
  ASSUME NEW kind, NEW payload, NEW attempts, NEW order
  PROVE  LET new == Built(kind, payload, attempts, order) IN
         /\ IsResponse(new)
         /\ new.cache = "miss" /\ new.receipt.order = order /\ new.attempts = attempts
         /\ kind = "extract" =>
              new.results = ExtractResults(Observations(kind, payload, attempts,
                                                        IF payload.research THEN None ELSE payload.provider))
         /\ "partial" \in new.warnings => \E it \in Range(payload.items) : it.error
<1> DEFINE selected == IF payload.research THEN None ELSE payload.provider
           observed == Observations(kind, payload, attempts, selected)
           results  == IF kind = "extract" THEN ExtractResults(observed) ELSE SearchResults(payload.items, observed)
           missing  == \E it \in Range(payload.items) : it.error
           failed   == payload.error /\ results = <<>>
           limited  == Limited(payload, attempts)
           status   == IF failed THEN "failed" ELSE IF missing \/ limited THEN "degraded" ELSE "ok"
           said     == (IF missing THEN {"partial"} ELSE {}) \cup (IF limited /\ ~failed THEN {"limited"} ELSE {})
           chosen   == IF results = <<>> THEN None ELSE selected
           new      == Built(kind, payload, attempts, order)
<1>1. new = [kind |-> kind, results |-> results, observed |-> observed, attempts |-> attempts,
             status |-> status, warnings |-> said, error |-> failed,
             receipt |-> [order |-> order, selected |-> chosen, fallback |-> payload.fallback, preflight |-> None,
                          completed |-> FALSE, decisions |-> <<>>, origin |-> None],
             evidence |-> 0, limits |-> None, stored |-> {}, cache |-> "miss"]
  BY DEF Built
<1>2. "partial" \in said => missing
  OBVIOUS
<1>3. kind = "extract" => results = ExtractResults(observed)
  OBVIOUS
<1> HIDE DEF results, observed, status, said, failed, chosen, new
<1>4. /\ IsResponse(new) /\ new.cache = "miss" /\ new.receipt.order = order /\ new.attempts = attempts
      /\ new.results = results /\ new.warnings = said
  BY <1>1 DEF IsResponse, IsReceipt
<1>. QED  BY <1>2, <1>3, <1>4 DEF new, observed

-----------------------------------------------------------------------------
(***************************************************************************)
(* The order of the results of an extraction                               *)
(***************************************************************************)
\* g lists the observations, one per slot of 1..n.
OnePerSlot(g, n, observed) ==
  /\ g \in [1..n -> observed]
  /\ \A i \in 1..n : g[i].slot = i
  /\ \A o \in observed : \E i \in 1..n : o = g[i]

\* Then each has one result, and these stand for every slot.
LEMMA OneResultPerSlot ==
  ASSUME NEW n \in Nat, NEW observed, NEW g, OnePerSlot(g, n, observed)
  PROVE  LET results == ExtractResults(observed) IN
         /\ DOMAIN results = 1..n /\ \A i \in 1..n : IsResult(results[i])
         /\ {results[i].of.slot : i \in 1..n} = 1..n
<1> DEFINE Increases(s) == \A i, j \in DOMAIN s : i < j => s[i].slot < s[j].slot
           s       == BySlot(observed)
           h       == [i \in 1..n |-> s[i].slot]
           results == ExtractResults(observed)
<1>1. IsFiniteSet(1..n) /\ Cardinality(1..n) = n
  BY FS_Interval
<1>2. Cardinality(observed) = n
  <2>1. g \in Bijection(1..n, observed)
    BY DEF OnePerSlot, Bijection, Injection, Surjection, IsInjective
  <2>. QED  BY <2>1, <1>1, FS_Bijection DEF ExistsBijection
<1>3. g \in [1..Cardinality(observed) -> observed] /\ Increases(g)
  BY <1>2 DEF OnePerSlot
<1>4. s \in [1..n -> observed] /\ Increases(s)
  BY <1>2, <1>3 DEF BySlot
<1> HIDE DEF s
<1>5. \A i \in 1..n : s[i].slot \in 1..n
  BY <1>4 DEF OnePerSlot
<1>6. h \in Injection(1..n, 1..n)
  <2>1. h \in [1..n -> 1..n]
    BY <1>5
  <2>2. ASSUME NEW i \in 1..n, NEW j \in 1..n, h[i] = h[j] PROVE i = j
    <3>1. s[i].slot = s[j].slot /\ s[i].slot \in Nat
      BY <2>2, <1>5
    <3>2. i < j => s[i].slot < s[j].slot
      BY <1>4
    <3>3. j < i => s[j].slot < s[i].slot
      BY <1>4
    <3>. QED  BY <3>1, <3>2, <3>3
  <2>. QED  BY <2>1, <2>2 DEF Injection, IsInjective
<1>7. h \in Surjection(1..n, 1..n)
  <2> HIDE DEF h
  <2>. QED  BY <1>1, <1>6, FS_Injection
<1>8. results = [i \in 1..n |-> Result(s[i], {s[i]})]
  BY <1>4 DEF ExtractResults, s
<1>9. \A i \in 1..n : results[i] = Result(s[i], {s[i]})
  BY <1>8
<1>10. \A i \in 1..n : IsResult(results[i]) /\ results[i].of = s[i]
  <2> SUFFICES ASSUME NEW i \in 1..n PROVE IsResult(results[i]) /\ results[i].of = s[i]
    OBVIOUS
  <2> DEFINE x == s[i]
             y == results[i]
  <2>1. y = Result(x, {x})
    BY <1>9
  <2> HIDE DEF x, y
  <2>2. IsResult(y) /\ y.of = x
    BY <2>1 DEF Result, IsResult
  <2>. QED  BY <2>2 DEF x, y
<1>11. DOMAIN results = 1..n
  BY <1>8
<1> HIDE DEF results
<1>12. {results[i].of.slot : i \in 1..n} = 1..n
  <2>1. \A i \in 1..n : results[i].of.slot = h[i]
    BY <1>10
  <2>2. \A k \in 1..n : \E i \in 1..n : h[i] = k
    <3> HIDE DEF h
    <3>. QED  BY <1>7 DEF Surjection
  <2>3. \A i \in 1..n : h[i] \in 1..n
    BY <1>5
  <2> HIDE DEF h
  <2> DEFINE at(i) == results[i].of.slot
  <2>4. \A i \in 1..n : at(i) = h[i]
    BY <2>1
  <2> HIDE DEF at
  <2>5. {at(i) : i \in 1..n} = 1..n
    <3>1. \A i \in 1..n : at(i) \in 1..n
      BY <2>3, <2>4
    <3>2. \A k \in 1..n : \E i \in 1..n : k = at(i)
      BY <2>2, <2>4
    <3>. QED  BY <3>1, <3>2
  <2>. QED  BY <2>5 DEF at
<1>. QED  BY <1>10, <1>11, <1>12 DEF results

LEMMA NoneObserved == ExtractResults({}) = <<>>
<1> DEFINE s == BySlot({})
<1>1. Cardinality({}) = 0 /\ 1..0 = {}
  BY FS_EmptySet
<1>2. [i \in {} |-> i] \in [1..Cardinality({}) -> {}]
  BY <1>1
<1>3. s \in [1..Cardinality({}) -> {}]
  <2> DEFINE f == [i \in {} |-> i]
  <2>1. f \in [1..Cardinality({}) -> {}] /\ \A i, j \in DOMAIN f : i < j => f[i].slot < f[j].slot
    BY <1>2
  <2> HIDE DEF f
  <2>. QED  BY <2>1 DEF BySlot
<1>4. DOMAIN s = {}
  BY <1>1, <1>3
<1> HIDE DEF s
<1>5. ExtractResults({}) = [i \in DOMAIN s |-> Result(s[i], {s[i]})]
  BY DEF ExtractResults, s
<1>. QED  BY <1>4, <1>5

LEMMA FirstOf == ASSUME NEW urls \in Seq(Url), scene \in Scenes
                 PROVE  \E n \in Nat : Allowed(urls) = 1..n
<1>1. Len(urls) \in Nat /\ scene.maxUrls \in Nat
  BY ScenesAssumption
<1> DEFINE n == P!Least(Len(urls), scene.maxUrls)
<1>2. n \in Nat /\ n <= Len(urls)
  BY <1>1 DEF P!Least
<1> HIDE DEF n
<1>3. DOMAIN SubSeq(urls, 1, n) = 1..n
  BY <1>2
<1>. QED  BY <1>2, <1>3 DEF Allowed, n

-----------------------------------------------------------------------------
(***************************************************************************)
(* The observations of an extraction that has a page for every URL         *)
(***************************************************************************)
LEMMA ObservedAt ==
  ASSUME NEW raw, NEW s, NEW slots, NEW i, NEW p
  PROVE  Observation(raw, s, slots, i, p).slot = s
BY DEF Observation

\* One provider at most is no merged answer.
LEMMA NotMerged ==
  ASSUME NEW items, NEW attempts, \A u \in DOMAIN items : items[u].provider = None
  PROVE  ~Merged("extract", items, attempts)
<1> DEFINE asked == {attempts[i].provider : i \in ServedAttempts(attempts)}
           named == {it.provider : it \in {t \in Range(items) : ~t.error}}
<1>1. \A p \in named : p = None
  BY DEF Range
<1>2. asked \cap named \in SUBSET {None}
  BY <1>1
<1> HIDE DEF asked, named
<1>3. Cardinality(asked \cap named) <= 1 /\ Cardinality(asked \cap named) \in Nat
  <2>1. IsFiniteSet({None}) /\ Cardinality({None}) = 1
    BY FS_Singleton
  <2>2. IsFiniteSet(asked \cap named) /\ Cardinality(asked \cap named) <= 1
    BY <2>1, <1>2, FS_Subset
  <2>. QED  BY <2>2, FS_CardinalityType
<1>4. ~(Cardinality(asked \cap named) > 1)
  BY <1>3
<1>. QED  BY <1>4 DEF Merged, asked, named

\* The providers of the items are among those that served, and the plan names none twice.
FullyServed(payload, attempts, order, n) ==
  /\ DOMAIN payload.items = 1..n /\ payload.raw = payload.items /\ ~payload.research
  /\ \A u \in 1..n : ~payload.items[u].error
  /\ IsInjective(order) /\ DOMAIN attempts = DOMAIN order
  /\ \A i \in DOMAIN attempts : attempts[i].provider = order[i]
  /\ \/ \A u \in 1..n : payload.items[u].provider = None
     \/ \A u \in 1..n : \E i \in ServedAttempts(attempts) : payload.items[u].provider = attempts[i].provider

\* Then every item is observed once, under its own slot.
LEMMA EachItemObserved ==
  ASSUME NEW payload, NEW attempts, NEW order, NEW selected, NEW n \in Nat,
         FullyServed(payload, attempts, order, n),
         Observations("extract", payload, attempts, selected) # {}
  PROVE  \E g : OnePerSlot(g, n, Observations("extract", payload, attempts, selected))
<1> DEFINE items    == payload.items
           observed == Observations("extract", payload, attempts, selected)
           best     == Best(attempts, selected)
           slots(i) == Slots("extract", items, attempts, best, i)
           seen(s, i) == Observation(items, s, slots(i), i, attempts[i].provider)
           served   == ServedAttempts(attempts)
<1> USE DEF FullyServed
<1>1. CASE attempts # <<>> /\ Merged("extract", items, attempts)
  <2>1. observed = UNION {{seen(s, i) : s \in slots(i)} : i \in served}
    BY <1>1 DEF Observations
  <2>2. \A i : slots(i) = {s \in 1..n : items[s].provider = attempts[i].provider}
    BY DEF Slots
  <2>3. \A u \in 1..n : \E i \in served : items[u].provider = attempts[i].provider
    BY <1>1, NotMerged
  <2>4. \A i, j \in served : attempts[i].provider = attempts[j].provider => i = j
    BY DEF ServedAttempts, IsInjective
  <2>5. \A s, i : seen(s, i).slot = s
    BY ObservedAt
  <2> DEFINE at(u) == CHOOSE i \in served : items[u].provider = attempts[i].provider
             g     == [u \in 1..n |-> seen(u, at(u))]
  <2>6. \A u \in 1..n : at(u) \in served /\ items[u].provider = attempts[at(u)].provider
    BY <2>3
  <2>7. ASSUME NEW i \in served, NEW s \in slots(i) PROVE s \in 1..n /\ i = at(s)
    <3>1. s \in 1..n /\ items[s].provider = attempts[i].provider
      BY <2>2
    <3> HIDE DEF at
    <3>. QED  BY <3>1, <2>4, <2>6
  <2>8. \A u \in 1..n : u \in slots(at(u))
    <3> HIDE DEF at
    <3>. QED  BY <2>2, <2>6
  <2> HIDE DEF at, slots, seen, observed, served
  <2>9. \A u \in 1..n : seen(u, at(u)) \in observed
    BY <2>1, <2>6, <2>8
  <2>10. g \in [1..n -> observed] /\ \A i \in 1..n : g[i].slot = i
    BY <2>5, <2>9
  <2>11. ASSUME NEW o \in observed PROVE \E u \in 1..n : o = g[u]
    <3>1. PICK i \in served : \E s \in slots(i) : o = seen(s, i)
      BY <2>1
    <3>2. PICK s \in slots(i) : o = seen(s, i)
      BY <3>1
    <3>3. s \in 1..n /\ i = at(s)
      BY <2>7
    <3>. QED  BY <3>2, <3>3
  <2> HIDE DEF g
  <2>. QED  BY <2>10, <2>11 DEF observed, OnePerSlot
<1>2. CASE ~(attempts # <<>> /\ Merged("extract", items, attempts))
  <2> DEFINE one(s) == Observation(items, s, 1..n, best, selected)
             g      == [u \in 1..n |-> one(u)]
  <2>1. observed = {one(s) : s \in 1..n}
    BY <1>2 DEF Observations
  <2>2. \A s : one(s).slot = s
    BY ObservedAt
  <2> HIDE DEF one, observed
  <2>3. g \in [1..n -> observed] /\ \A i \in 1..n : g[i].slot = i
    BY <2>1, <2>2
  <2>4. \A o \in observed : \E u \in 1..n : o = g[u]
    BY <2>1
  <2> HIDE DEF g
  <2>. QED  BY <2>3, <2>4 DEF observed, OnePerSlot
<1>. QED  BY <1>1, <1>2

-----------------------------------------------------------------------------
(***************************************************************************)
(* What an execution hands over                                            *)
(***************************************************************************)
LEMMA AttemptIs ==
  ASSUME NEW p, NEW fate
  PROVE  /\ Attempt(p, fate).provider = p
         /\ fate \in {"answered", "cut"} => Attempt(p, fate).outcome \in Served
BY DEF Attempt, Called, Skipped, Served

LEMMA ExtractServes ==
  ASSUME NEW r \in Requests, req[r].kind = "extract", NEW o \in ExtractRuns(r), o = run'[r],
         UNCHANGED <<scene, req, plan>>
  PROVE  RunServes(r)'
<1> DEFINE order   == plan[r].order
           urls    == Processed(r)
           givers == [DOMAIN urls -> DOMAIN order \cup {-i : i \in DOMAIN order} \cup {0, Len(order) + 1}]
           serving(by) == {by[u] : u \in DOMAIN urls} \cap DOMAIN order
           closing(by) == {-by[u] : u \in DOMAIN urls} \cap DOMAIN order
           asked(by, i) == {u \in DOMAIN urls : by[u] = 0 \/ {by[u], -by[u]} \cap (i..Len(order)) # {}}
           fits(by, f) ==
             /\ \A i \in DOMAIN order :
                  /\ asked(by, i) = {} <=> f[i] = "policy_excluded"
                  /\ i \in serving(by) <=> f[i] \in {"answered", "cut"}
                  /\ i \in closing(by) => f[i] \in {"answered", "cut", "failed"}
             /\ Affordable(f, Sent \cup {"cut"}, Units(r))
           item(by, u, size) ==
             IF by[u] \in serving(by)
             THEN Item(urls[u], IF Cardinality(serving(by)) > 1 THEN order[by[u]] ELSE None, size)
             ELSE Miss(urls[u])
           listed(by, size) == [u \in DOMAIN urls |-> item(by, u, size)]
           refused(by) == \A u \in DOMAIN urls : by[u] = Len(order) + 1
           handed(by, f, size) ==
             LET items == listed(by, size)
                 last  == Max(serving(by))
             IN IF \A u \in DOMAIN urls : by[u] = Len(order) + 1 THEN Nothing("extract", plan[r].first, <<>>)
                ELSE IF serving(by) = {} THEN Nothing("extract", plan[r].first, items)
                ELSE [Payload("extract", order[last], items, items) EXCEPT
                        !.fallback = IF last = 1 THEN "none" ELSE "selected_failed"]
           fates == {"answered", "cut", "failed", "circuit_open", "budget_blocked", "deadline_exceeded",
                     "policy_excluded"}
           out(by, f, size) ==
             [payload |-> handed(by, f, size),
              attempts |-> IF refused(by) THEN <<>> ELSE Attempts(order, f),
              calls |-> Cardinality(Of(f, Sent \cup {"cut"}))]
           able   == Fates(order, fates)
<1>1. ExtractRuns(r) = UNION {UNION {{out(by, f, size) : size \in Sizes} : f \in {g \in able : fits(by, g)}} :
                               by \in givers}
  BY DEF ExtractRuns
<1>2. \E by \in givers : \E f \in able : \E size \in Sizes : fits(by, f) /\ o = out(by, f, size)
  <2> HIDE DEF out, fits, able, givers
  <2>. QED  BY <1>1
<1>3. PICK by \in givers, f \in able, size \in Sizes : fits(by, f) /\ o = out(by, f, size)
  BY <1>2
<1> DEFINE items == listed(by, size)
           given == o.payload
           attempts == o.attempts
<1>4. given = handed(by, f, size) /\ attempts = IF refused(by) THEN <<>> ELSE Attempts(order, f)
  <2> HIDE DEF handed, refused, order
  <2>. QED  BY <1>3
<1>5. /\ ~given.research /\ given.raw = given.items
      /\ given.items = IF refused(by) THEN <<>> ELSE items
  <2> HIDE DEF listed, serving, order, urls
  <2>1. given = handed(by, f, size)
    BY <1>4
  <2> DEFINE same(x) == ~x.research /\ x.raw = x.items
  <2>2. \A p, y : LET x == Payload("extract", p, y, y) IN same(x) /\ x.items = y
    BY DEF Payload
  <2>3. \A p, y : LET x == Nothing("extract", p, y) IN same(x) /\ x.items = y
    BY DEF Nothing, Payload
  <2>4. \A p, y, z : LET x == [Payload("extract", p, y, y) EXCEPT !.fallback = z] IN same(x) /\ x.items = y
    BY DEF Payload
  <2>5. CASE refused(by)
    <3>1. given = Nothing("extract", plan[r].first, <<>>)
      BY <2>1, <2>5
    <3>. QED  BY <3>1, <2>3, <2>5
  <2>6. CASE ~refused(by) /\ serving(by) = {}
    <3>1. given = Nothing("extract", plan[r].first, items)
      BY <2>1, <2>6
    <3>. QED  BY <3>1, <2>3, <2>6
  <2>7. CASE ~refused(by) /\ serving(by) # {}
    <3> DEFINE p == order[Max(serving(by))]
               z == IF Max(serving(by)) = 1 THEN "none" ELSE "selected_failed"
    <3>1. given = [Payload("extract", p, items, items) EXCEPT !.fallback = z]
      BY <2>1, <2>7
    <3> HIDE DEF p, z, items, given
    <3>. QED  BY <3>1, <2>4, <2>7
  <2>. QED  BY <2>5, <2>6, <2>7
<1>6. ASSUME given.items # <<>>, \A it \in Range(given.items) : ~it.error
      PROVE  /\ DOMAIN given.items = Allowed(req[r].urls)
             /\ DOMAIN attempts = DOMAIN order
             /\ \A i \in DOMAIN attempts : attempts[i].provider = order[i]
             /\ \/ \A u \in DOMAIN given.items : given.items[u].provider = None
                \/ \A u \in DOMAIN given.items :
                     \E i \in ServedAttempts(attempts) : given.items[u].provider = attempts[i].provider
  <2>1. ~refused(by) /\ given.items = items
    BY <1>5, <1>6
  <2>2. attempts = Attempts(order, f)
    <3> HIDE DEF refused, order, attempts
    <3>. QED  BY <1>4, <2>1
  <2>3. /\ DOMAIN attempts = DOMAIN order
        /\ \A i \in DOMAIN order : attempts[i] = Attempt(order[i], f[i])
    BY <2>2 DEF Attempts
  <2>4. \A u \in DOMAIN urls : items[u] = item(by, u, size) /\ ~items[u].error
    <3>1. \A u \in DOMAIN urls : items[u] \in Range(items)
      BY DEF Range
    <3>. QED  BY <3>1, <2>1, <1>6
  <2>5. \A u \in DOMAIN urls : by[u] \in serving(by)
    BY <2>4 DEF Miss
  <2>6. \A u \in DOMAIN urls : by[u] \in DOMAIN order /\ f[by[u]] \in {"answered", "cut"}
    BY <2>5, <1>3
  <2>7. \A u \in DOMAIN urls :
          /\ by[u] \in ServedAttempts(attempts)
          /\ attempts[by[u]].provider = order[by[u]]
    BY <2>3, <2>6, AttemptIs DEF ServedAttempts
  <2>8. \A u \in DOMAIN urls :
          items[u].provider = IF Cardinality(serving(by)) > 1 THEN order[by[u]] ELSE None
    BY <2>4, <2>5 DEF Item
  <2>9. DOMAIN items = DOMAIN urls /\ DOMAIN urls = Allowed(req[r].urls)
    BY DEF Processed, Allowed
  <2>10. \A i \in DOMAIN attempts : attempts[i].provider = order[i]
    BY <2>3, AttemptIs
  <2> HIDE DEF items, urls, serving, order, attempts, given
  <2>. QED  BY <2>1, <2>3, <2>7, <2>8, <2>9, <2>10
<1>7. /\ run'[r].payload = given /\ run'[r].attempts = attempts /\ req' = req /\ plan' = plan /\ scene' = scene
  OBVIOUS
<1> HIDE DEF given, attempts
<1>. QED  BY <1>5, <1>6, <1>7 DEF RunServes, order, Allowed

-----------------------------------------------------------------------------
(***************************************************************************)
(* The response of a request that was executed                             *)
(***************************************************************************)
Selected(payload) == IF payload.research THEN None ELSE payload.provider
Final(r, storable) ==
  LET built == Built(req[r].kind, run[r].payload, run[r].attempts, plan[r].order)
      rs    == Finalized(r, Complete(Evidenced(built, verdict[r])), storable)
  IN [rs EXCEPT !.cache = IF req[r].cache = "bypass" THEN "bypassed" ELSE @]

LEMMA FinalIs ==
  ASSUME NEW r, NEW storable
  PROVE  LET final == Final(r, storable) IN
         /\ IsResponse(final) /\ final.cache \in {"miss", "bypassed"}
         /\ final.receipt.order = plan[r].order /\ final.receipt.completed = TRUE
         /\ "partial" \in final.warnings => \E it \in Range(run[r].payload.items) : it.error
         /\ req[r].kind = "extract" =>
              LET results == ExtractResults(Observations("extract", run[r].payload, run[r].attempts,
                                                         Selected(run[r].payload)))
              IN /\ DOMAIN final.results = DOMAIN results
                 /\ results = <<>> => final.results = <<>>
                 /\ \A i \in DOMAIN results : IsResult(results[i]) => final.results[i].of = results[i].of
<1> DEFINE kind     == req[r].kind
           payload  == run[r].payload
           attempts == run[r].attempts
           order    == plan[r].order
           results  == ExtractResults(Observations("extract", payload, attempts, Selected(payload)))
           missing  == \E it \in Range(payload.items) : it.error
           built    == Built(kind, payload, attempts, order)
           told     == Evidenced(built, verdict[r])
           done     == Complete(told)
           rs       == Finalized(r, done, storable)
           final    == Final(r, storable)
<1>1. /\ IsResponse(built) /\ built.cache = "miss" /\ built.receipt.order = order
      /\ "partial" \in built.warnings => missing
      /\ kind = "extract" => built.results = results
  <2> HIDE DEF payload, attempts, order, kind, built, missing
  <2>1. /\ IsResponse(built) /\ built.cache = "miss" /\ built.receipt.order = order
        /\ kind = "extract" =>
             built.results = ExtractResults(Observations(kind, payload, attempts, Selected(payload)))
        /\ "partial" \in built.warnings => missing
    BY BuiltIs DEF built, Selected, missing
  <2>. QED  BY <2>1
<1> HIDE DEF kind, payload, attempts, order, results, missing, built
<1>2. /\ IsResponse(told) /\ told.cache = "miss" /\ told.receipt.order = order
      /\ "partial" \in told.warnings => missing
      /\ kind = "extract" => told.results = results
  BY <1>1, EvidencedKeeps
<1> HIDE DEF told
<1>3. /\ IsResponse(done) /\ done.cache = "miss" /\ done.receipt.order = order
      /\ done.receipt.completed = TRUE
      /\ "partial" \in done.warnings => missing
      /\ kind = "extract" => done.results = results
  BY <1>2, CompleteKeeps
<1> HIDE DEF done
<1>4. /\ IsResponse(rs) /\ rs.cache = "miss" /\ rs.receipt.order = order
      /\ rs.receipt.completed = TRUE
      /\ "partial" \in rs.warnings => missing
      /\ kind = "extract" =>
           /\ DOMAIN rs.results = DOMAIN results
           /\ results = <<>> => rs.results = <<>>
           /\ \A i \in DOMAIN results : IsResult(results[i]) => rs.results[i].of = results[i].of
  <2>1. CASE kind = "extract"
    <3> DEFINE chars   == Chars(r)
               omitted == Omitted(r)
               new     == Bounded(done, chars, omitted, storable)
    <3>1. rs = new
      BY <2>1 DEF Finalized, kind
    <3> HIDE DEF chars, omitted, rs
    <3>2. /\ IsResponse(new) /\ new.cache = done.cache /\ new.receipt = done.receipt
          /\ "partial" \in new.warnings => "partial" \in done.warnings
          /\ DOMAIN new.results = DOMAIN done.results
          /\ done.results = <<>> => new.results = <<>>
          /\ \A i \in DOMAIN done.results :
               IsResult(done.results[i]) => new.results[i].of = done.results[i].of
      BY <1>3, BoundedKeeps
    <3> HIDE DEF new
    <3>. QED  BY <1>3, <2>1, <3>1, <3>2
  <2>2. CASE kind # "extract"
    <3>1. rs = done
      BY <2>2 DEF Finalized, kind
    <3> HIDE DEF rs
    <3>. QED  BY <1>3, <2>2, <3>1
  <2>. QED  BY <2>1, <2>2
<1>5. final = [rs EXCEPT !.cache = IF req[r].cache = "bypass" THEN "bypassed" ELSE @]
  BY DEF Final, rs, done, told, built, kind, payload, attempts, order
<1> HIDE DEF rs, final
<1>6. /\ IsResponse(final) /\ final.cache \in {"miss", "bypassed"}
      /\ final.receipt = rs.receipt /\ final.warnings = rs.warnings /\ final.results = rs.results
  BY <1>4, <1>5 DEF IsResponse
<1>7. /\ IsResponse(final) /\ final.cache \in {"miss", "bypassed"}
      /\ final.receipt.order = order /\ final.receipt.completed = TRUE
      /\ "partial" \in final.warnings => missing
      /\ kind = "extract" =>
           /\ DOMAIN final.results = DOMAIN results
           /\ results = <<>> => final.results = <<>>
           /\ \A i \in DOMAIN results : IsResult(results[i]) => final.results[i].of = results[i].of
  BY <1>4, <1>6
<1>. QED  BY <1>7 DEF kind, payload, attempts, order, results, missing, final

LEMMA KeyIs == ASSUME NEW r PROVE Key(r).kind = req[r].kind /\ Key(r).urls = req[r].urls
BY DEF Key

\* A response that is worth keeping is a whole answer.
LEMMA KeptIsWhole ==
  ASSUME scene \in Scenes, NEW r, req[r].urls \in Seq(Url), RunServes(r), NEW storable,
         ValidResponse(Final(r, storable)), Final(r, storable).status # "failed",
         WorthKeeping(r, Final(r, storable))
  PROVE  IsWhole(Entry(r, Final(r, storable)))
<1> DEFINE final    == Final(r, storable)
           payload  == run[r].payload
           attempts == run[r].attempts
           order    == plan[r].order
           items    == payload.items
           observed == Observations("extract", payload, attempts, Selected(payload))
           results  == ExtractResults(observed)
           e        == Entry(r, final)
<1>1. /\ IsResponse(final) /\ final.receipt.order = order /\ final.receipt.completed = TRUE
      /\ "partial" \in final.warnings => \E it \in Range(items) : it.error
      /\ req[r].kind = "extract" =>
           /\ DOMAIN final.results = DOMAIN results
           /\ \A i \in DOMAIN results : IsResult(results[i]) => final.results[i].of = results[i].of
  BY FinalIs, ZenonT(40)
<1> HIDE DEF final
<1>2. /\ final.results # <<>> /\ ~final.error /\ IsInjective(order)
      /\ req[r].kind = "extract" => \A it \in Range(items) : ~it.error
  <2>1. final.error = (final.status = "failed") /\ IsInjective(final.receipt.order)
    BY <1>1 DEF ValidResponse, ValidReceipt, final
  <2>2. final.results # <<>> /\ (req[r].kind = "extract" => \A it \in Range(items) : ~it.error)
    BY DEF WorthKeeping, final
  <2>. QED  BY <1>1, <2>1, <2>2 DEF final
<1>3. ASSUME req[r].kind = "extract"
      PROVE  SlotsOf(final.results) = Allowed(req[r].urls) /\ "partial" \notin final.warnings
  <2>1. "partial" \notin final.warnings /\ \A it \in Range(items) : ~it.error
    BY <1>1, <1>2, <1>3
  <2>2. observed # {}
    <3>1. CASE observed = {}
      <4>1. results = <<>>
        BY <3>1, NoneObserved
      <4> HIDE DEF results
      <4>. QED  BY <1>1, <1>2, <1>3, <4>1 DEF results
    <3>. QED  BY <3>1
  <2>3. payload.raw = items /\ ~payload.research
    BY <1>3 DEF RunServes
  <2>4. items # <<>>
    <3>1. CASE items = <<>>
      <4>1. \A i, best : Slots("extract", items, attempts, best, i) = {}
        BY <3>1 DEF Slots
      <4>2. observed = {}
        BY <2>3, <3>1, <4>1 DEF Observations
      <4>. QED  BY <2>2, <4>2
    <3>. QED  BY <3>1
  <2>5. PICK n \in Nat : Allowed(req[r].urls) = 1..n
    BY FirstOf
  <2>6. /\ DOMAIN items = 1..n
        /\ DOMAIN attempts = DOMAIN order
        /\ \A i \in DOMAIN attempts : attempts[i].provider = order[i]
        /\ \/ \A u \in 1..n : items[u].provider = None
           \/ \A u \in 1..n : \E i \in ServedAttempts(attempts) : items[u].provider = attempts[i].provider
    BY <1>3, <2>1, <2>4, <2>5 DEF RunServes
  <2>7. \A u \in 1..n : ~items[u].error
    BY <2>1, <2>6 DEF Range
  <2>8. FullyServed(payload, attempts, order, n)
    BY <1>2, <2>3, <2>6, <2>7 DEF FullyServed
  <2>9. PICK g : OnePerSlot(g, n, observed)
    <3> HIDE DEF payload, attempts, order
    <3>. QED  BY <2>2, <2>8, EachItemObserved
  <2> HIDE DEF observed
  <2>10. /\ DOMAIN results = 1..n /\ \A i \in 1..n : IsResult(results[i])
         /\ {results[i].of.slot : i \in 1..n} = 1..n
    BY <2>9, OneResultPerSlot
  <2> HIDE DEF results
  <2>11. DOMAIN final.results = 1..n /\ \A i \in 1..n : final.results[i].of = results[i].of
    BY <1>1, <1>3, <2>10 DEF observed, results
  <2>12. SlotsOf(final.results) = {final.results[i].of.slot : i \in 1..n}
    BY <2>11 DEF SlotsOf, Range
  <2>13. SlotsOf(final.results) = 1..n
    BY <2>10, <2>11, <2>12
  <2>. QED  BY <2>1, <2>5, <2>13
<1>4. e = [key |-> Key(r), resp |-> final, by |-> r, age |-> 0]
  BY DEF Entry
<1> DEFINE key == Key(r)
<1>5. key.kind = req[r].kind /\ key.urls = req[r].urls
  BY KeyIs
<1> HIDE DEF key, e
<1>6. e.key = key /\ e.resp = final /\ e = [key |-> e.key, resp |-> e.resp, by |-> e.by, age |-> e.age]
  BY <1>4 DEF key
<1>. QED  BY <1>1, <1>2, <1>3, <1>5, <1>6 DEF IsWhole, e, final

-----------------------------------------------------------------------------
(***************************************************************************)
(* Every step keeps the invariant.                                         *)
(***************************************************************************)
\* What Inv says of one request.
AskedOK(r) ==
  /\ pc[r] \in {"idle", "preflight", "lookup", "execute"} => sent[r] = 0
  /\ pc[r] = "preflight" => req[r] \in scene.requests
  /\ pc[r] \in {"lookup", "execute", "finish"} => req[r].urls \in Seq(Url)
  /\ pc[r] = "finish" => RunServes(r)
Hit(r) == pc[r] = "done" /\ resp[r].cache \in {"fresh_hit", "stale_hit"}
HitOK(r) ==
  /\ sent[r] = 0 /\ resp[r].attempts = <<>> /\ resp[r].receipt.decisions = <<>>
  /\ resp[r].receipt.origin.order = plan[r].order
  /\ resp[r].results # <<>> /\ ~resp[r].error
  /\ req[r].kind = "extract" =>
       SlotsOf(resp[r].results) = Allowed(req[r].urls) /\ "partial" \notin resp[r].warnings
Domains ==
  /\ DOMAIN pc = Requests /\ DOMAIN req = Requests /\ DOMAIN plan = Requests
  /\ DOMAIN run = Requests /\ DOMAIN resp = Requests /\ DOMAIN sent = Requests

LEMMA InvIs ==
  Inv <=> /\ scene \in Scenes /\ Domains
          /\ \A r \in Requests : AskedOK(r) /\ (Hit(r) => HitOK(r))
          /\ \A e \in cache : IsWhole(e)
BY DEF Inv, Domains, AskedOK, Hit, HitOK, HitsAreWhole, SlotsOf, Allowed, Processed

LEMMA WholeStays == ASSUME scene' = scene, NEW e, IsWhole(e) PROVE IsWhole(e)'
BY DEF IsWhole, Allowed

\* A step of one request leaves what is said of the others.
LEMMA OneRequest ==
  ASSUME Inv, NEW r \in Requests, scene' = scene, Domains',
         \A q \in Requests : q # r => /\ pc'[q] = pc[q] /\ req'[q] = req[q] /\ plan'[q] = plan[q]
                                      /\ run'[q] = run[q] /\ resp'[q] = resp[q] /\ sent'[q] = sent[q],
         AskedOK(r)', Hit(r)' => HitOK(r)', \A e \in cache' : IsWhole(e)'
  PROVE  Inv'
<1>1. scene' \in Scenes /\ \A q \in Requests : AskedOK(q) /\ (Hit(q) => HitOK(q))
  BY InvIs
<1>2. ASSUME NEW q \in Requests, q # r PROVE AskedOK(q)' /\ (Hit(q)' => HitOK(q)')
  <2>1. AskedOK(q)'
    BY <1>1, <1>2, SMTT(20) DEF AskedOK, RunServes, Allowed
  <2>2. Hit(q)' => HitOK(q)'
    BY <1>1, <1>2 DEF Hit, HitOK, Allowed
  <2>. QED  BY <2>1, <2>2
<1>3. \A q \in Requests : AskedOK(q)' /\ (Hit(q)' => HitOK(q)')
  BY <1>2
<1>4. \A e \in cache' : IsWhole(e)'
  OBVIOUS
<1>. QED
  BY <1>1, <1>3, <1>4 DEF Inv, Domains, AskedOK, Hit, HitOK, HitsAreWhole, SlotsOf, Allowed, Processed

LEMMA SubmitKept == ASSUME Inv, NEW r \in Requests, NEW q \in scene.requests, Submit(r, q) PROVE Inv'
<1>1. Domains /\ AskedOK(r) /\ \A e \in cache : IsWhole(e)
  BY InvIs
<1>2. /\ pc[r] = "idle" /\ pc' = [pc EXCEPT ![r] = "preflight"] /\ req' = [req EXCEPT ![r] = q]
      /\ plan' = [plan EXCEPT ![r] = PlanOf(q)] /\ UNCHANGED <<scene, cache, run, resp, sent>>
  BY DEF Submit, Goto
<1>3. Domains'
  BY <1>1, <1>2 DEF Domains
<1>4. AskedOK(r)' /\ ~Hit(r)'
  BY <1>1, <1>2 DEF AskedOK, Hit, Domains
<1>5. \A e \in cache' : IsWhole(e)'
  BY <1>1, <1>2, WholeStays
<1>. QED  BY <1>1, <1>2, <1>3, <1>4, <1>5, OneRequest DEF Domains

\* Answering ends the request, with the response or without.
LEMMA AnswerEnds ==
  ASSUME Domains, NEW r \in Requests, NEW rs, Answer(r, rs)
  PROVE  /\ DOMAIN pc' = Requests /\ DOMAIN resp' = Requests
         /\ \A q \in Requests : q # r => pc'[q] = pc[q] /\ resp'[q] = resp[q]
         /\ pc'[r] \in {"done", "raised"}
         /\ pc'[r] = "done" => resp'[r] = rs
BY DEF Answer, Goto, Domains

LEMMA PreflightKept == ASSUME Inv, NEW r \in Requests, Preflight(r) PROVE Inv'
<1> DEFINE decision == P!Decide(scene.pre, req[r], plan[r].order, ledger)
<1>1. scene \in Scenes /\ Domains /\ AskedOK(r) /\ \A e \in cache : IsWhole(e)
  BY InvIs
<1>2. pc[r] = "preflight" /\ UNCHANGED <<scene, cache, run, sent>>
  BY DEF Preflight
<1>3. \A e \in cache' : IsWhole(e)'
  BY <1>1, <1>2, WholeStays
<1>4. CASE decision.action = "abort"
  <2> DEFINE rs == Complete(Evidenced(Refusal(req[r].kind, plan[r].order, "bypassed"), decision))
  <2>1. Answer(r, rs) /\ UNCHANGED <<req, plan>>
    BY <1>4 DEF Preflight
  <2>2. rs.cache = "bypassed"
    BY RefusedIsNoHit
  <2> HIDE DEF rs
  <2>3. ~Hit(r)' /\ AskedOK(r)'
    BY <1>1, <2>1, <2>2, AnswerEnds DEF Hit, AskedOK
  <2>4. Domains'
    BY <1>1, <1>2, <2>1, AnswerEnds DEF Domains
  <2>. QED  BY <1>1, <1>2, <1>3, <2>1, <2>3, <2>4, OneRequest, AnswerEnds DEF Domains
<1>5. CASE decision.action # "abort"
  <2> DEFINE order == P!ReducedOrder(plan[r].order, decision)
             less  == P!Reduced(req[r], decision)
  <2>1. /\ req' = [req EXCEPT ![r] = less] /\ plan' = [plan EXCEPT ![r].order = order]
        /\ pc' = [pc EXCEPT ![r] = "lookup"] /\ resp' = resp
    BY <1>5 DEF Preflight, Goto
  <2>2. req[r] \in RequestV3
    BY <1>1, <1>2, ScenesAssumption DEF AskedOK
  <2>3. less.urls = req[r].urls /\ req[r].urls \in Seq(Url)
    BY <2>2 DEF RequestV3, P!Reduced
  <2> HIDE DEF order, less
  <2>4. /\ pc'[r] = "lookup" /\ req'[r] = less
        /\ \A q \in Requests : q # r => pc'[q] = pc[q] /\ req'[q] = req[q] /\ plan'[q] = plan[q]
    BY <1>1, <2>1 DEF Domains
  <2>5. Domains'
    BY <1>1, <1>2, <2>1 DEF Domains
  <2>6. AskedOK(r)' /\ ~Hit(r)'
    BY <1>1, <1>2, <2>3, <2>4 DEF AskedOK, Hit
  <2>. QED  BY <1>2, <1>3, <2>1, <2>4, <2>5, <2>6, OneRequest
<1>. QED  BY <1>4, <1>5

\* What a hit leaves of the entry.
LEMMA FromCacheIs ==
  ASSUME NEW e, IsResponse(e.resp), NEW r
  PROVE  LET hit == FromCache(e, r) IN
         /\ IsResponse(hit)
         /\ hit.attempts = <<>> /\ hit.receipt.decisions = <<>>
         /\ hit.receipt.origin.order = e.resp.receipt.order
         /\ hit.results = e.resp.results /\ hit.error = e.resp.error
         /\ "partial" \in hit.warnings => "partial" \in e.resp.warnings
<1> DEFINE rs == e.resp
           rc == OfHit(rs.receipt, e.by)
           disposition == IF e.age < Stale THEN "fresh_hit" ELSE "stale_hit"
           status   == IF e.age < Stale THEN rs.status ELSE "degraded"
           warnings == IF e.age < Stale THEN rs.warnings ELSE rs.warnings \cup {"stale"}
           new == [rs EXCEPT !.attempts = <<>>, !.receipt = rc, !.cache = disposition,
                             !.status = status, !.warnings = warnings]
           hit == FromCache(e, r)
<1>1. hit = Evidenced(new, verdict[r])
  BY DEF FromCache
<1>2. IsReceipt(rc) /\ rc.decisions = <<>> /\ rc.origin.order = rs.receipt.order
  BY DEF OfHit, IsReceipt
<1>3. IsResponse(rs) /\ ("partial" \in warnings => "partial" \in rs.warnings)
  OBVIOUS
<1> HIDE DEF rs, rc, disposition, status, warnings, hit
<1>4. new = [rs EXCEPT !.attempts = <<>>, !.receipt = rc, !.cache = disposition,
                       !.status = status, !.warnings = warnings]
  OBVIOUS
<1> HIDE DEF new
<1>5. /\ new.attempts = <<>> /\ new.receipt = rc
      /\ new.results = rs.results /\ new.error = rs.error /\ new.warnings = warnings
  BY <1>3, <1>4 DEF IsResponse
<1>6. IsResponse(new)
  BY <1>2, <1>3, <1>4, <1>5 DEF IsResponse
<1>7. /\ IsResponse(hit) /\ hit.attempts = <<>>
      /\ hit.receipt.decisions = <<>> /\ hit.receipt.origin.order = rs.receipt.order
      /\ hit.results = rs.results /\ hit.error = rs.error /\ hit.warnings = warnings
  BY <1>1, <1>2, <1>5, <1>6, EvidencedKeeps
<1>. QED  BY <1>3, <1>7 DEF hit, rs

LEMMA LookupKept == ASSUME Inv, NEW r \in Requests, Lookup(r) PROVE Inv'
<1>1. scene \in Scenes /\ Domains /\ AskedOK(r) /\ \A e \in cache : IsWhole(e)
  BY InvIs
<1>2. pc[r] = "lookup" /\ UNCHANGED <<scene, cache, req, plan, run, sent>>
  BY DEF Lookup
<1>3. \A e \in cache' : IsWhole(e)'
  BY <1>1, <1>2, WholeStays
<1>4. ASSUME NEW rs, Answer(r, rs), rs.cache \in {"fresh_hit", "stale_hit"} => HitOK(r)' \/ pc'[r] # "done"
      PROVE  Inv'
  <2>1. AskedOK(r)' /\ (Hit(r)' => HitOK(r)')
    BY <1>1, <1>4, AnswerEnds DEF Hit, AskedOK
  <2>2. Domains'
    BY <1>1, <1>2, <1>4, AnswerEnds DEF Domains
  <2>. QED  BY <1>1, <1>2, <1>3, <1>4, <2>1, <2>2, OneRequest, AnswerEnds DEF Domains
<1>5. ASSUME NEW e \in Found(r), SamePlan(e, r), NEW stored, NEW warnings,
             warnings = FromCache(e, r).warnings \/ warnings = FromCache(e, r).warnings \cup {"unstored"},
             Answer(r, [FromCache(e, r) EXCEPT !.stored = stored, !.warnings = warnings])
      PROVE  Inv'
  <2> DEFINE hit == FromCache(e, r)
             new == [hit EXCEPT !.stored = stored, !.warnings = warnings]
             key == Key(r)
  <2>1. e \in cache /\ e.key = key /\ e.resp.receipt.order = plan[r].order
    BY <1>5 DEF Found, SamePlan
  <2>2. key.kind = req[r].kind /\ key.urls = req[r].urls
    BY KeyIs
  <2> HIDE DEF key
  <2>3. IsWhole(e)
    BY <1>1, <2>1
  <2>4. /\ IsResponse(e.resp) /\ e.resp.results # <<>> /\ ~e.resp.error
        /\ req[r].kind = "extract" =>
             SlotsOf(e.resp.results) = Allowed(req[r].urls) /\ "partial" \notin e.resp.warnings
    BY <2>1, <2>2, <2>3 DEF IsWhole
  <2>5. /\ IsResponse(hit)
        /\ hit.attempts = <<>> /\ hit.receipt.decisions = <<>>
        /\ hit.receipt.origin.order = e.resp.receipt.order
        /\ hit.results = e.resp.results /\ hit.error = e.resp.error
        /\ "partial" \in hit.warnings => "partial" \in e.resp.warnings
    BY <2>4, FromCacheIs
  <2>6. "partial" \in warnings => "partial" \in e.resp.warnings
    BY <1>5, <2>5
  <2> HIDE DEF hit
  <2>7. /\ new.attempts = <<>> /\ new.receipt = hit.receipt
        /\ new.results = hit.results /\ new.error = hit.error /\ new.warnings = warnings
    BY <2>5 DEF IsResponse
  <2>8. Answer(r, new)
    BY <1>5 DEF hit
  <2> HIDE DEF new
  <2>9. ASSUME pc'[r] = "done" PROVE HitOK(r)'
    <3>1. resp'[r] = new
      BY <1>1, <2>8, <2>9, AnswerEnds
    <3>2. req'[r] = req[r] /\ plan'[r] = plan[r] /\ scene' = scene /\ sent'[r] = 0
      BY <1>1, <1>2 DEF AskedOK
    <3>. QED  BY <2>1, <2>4, <2>5, <2>6, <2>7, <3>1, <3>2 DEF HitOK, SlotsOf, Allowed
  <2>. QED  BY <1>4, <2>8, <2>9
<1>6. ASSUME pc' = [pc EXCEPT ![r] = "execute"], resp' = resp PROVE Inv'
  <2>1. Domains' /\ pc'[r] = "execute" /\ \A q \in Requests : q # r => pc'[q] = pc[q]
    BY <1>1, <1>2, <1>6 DEF Domains
  <2>2. AskedOK(r)' /\ ~Hit(r)'
    BY <1>1, <1>2, <2>1 DEF AskedOK, Hit
  <2>. QED  BY <1>2, <1>3, <1>6, <2>1, <2>2, OneRequest
<1>7. CASE \E e \in Found(r) : SamePlan(e, r) /\ \E kept :
             LET hit == FromCache(e, r)
             IN Answer(r, [hit EXCEPT
                  !.stored   = {IF s \in kept THEN s ELSE [s EXCEPT !.ok = FALSE] : s \in @},
                  !.warnings = IF kept = {s \in e.resp.stored : s.ok} THEN @ ELSE @ \cup {"unstored"}])
  BY <1>5, <1>7
<1>8. CASE req[r].cache = "only" /\
             Answer(r, Evidenced(Complete(Refusal(req[r].kind, plan[r].order, "miss")), verdict[r]))
  <2> DEFINE rs == Evidenced(Complete(Refusal(req[r].kind, plan[r].order, "miss")), verdict[r])
  <2>1. rs.cache = "miss"
    BY RefusedIsNoHit
  <2> HIDE DEF rs
  <2>2. Answer(r, rs)
    BY <1>8 DEF rs
  <2>. QED  BY <1>4, <2>1, <2>2
<1>9. CASE Goto(r, "execute") /\ UNCHANGED resp
  BY <1>6, <1>9 DEF Goto
<1>. QED  BY <1>7, <1>8, <1>9 DEF Lookup

LEMMA ExecuteKept == ASSUME Inv, NEW r \in Requests, Execute(r) PROVE Inv'
<1>1. scene \in Scenes /\ Domains /\ AskedOK(r) /\ \A e \in cache : IsWhole(e)
  BY InvIs
<1>2. /\ pc[r] = "execute" /\ pc' = [pc EXCEPT ![r] = "finish"]
      /\ UNCHANGED <<scene, cache, req, plan, resp>>
  BY DEF Execute, Goto
<1>3. PICK o \in Runs(r) : run' = [run EXCEPT ![r] = o] /\ sent' = [sent EXCEPT ![r] = o.calls]
  BY DEF Execute
<1>4. Domains'
  BY <1>1, <1>2, <1>3 DEF Domains
<1>5. /\ pc'[r] = "finish" /\ run'[r] = o
      /\ \A q \in Requests : q # r => pc'[q] = pc[q] /\ run'[q] = run[q] /\ sent'[q] = sent[q]
  BY <1>1, <1>2, <1>3 DEF Domains
<1>6. RunServes(r)'
  <2>1. CASE req[r].kind = "extract"
    <3>1. o \in ExtractRuns(r)
      BY <2>1 DEF Runs
    <3>. QED  BY <1>2, <1>5, <2>1, <3>1, ExtractServes
  <2>2. CASE req[r].kind # "extract"
    BY <1>2, <2>2 DEF RunServes
  <2>. QED  BY <2>1, <2>2
<1>7. AskedOK(r)' /\ ~Hit(r)'
  BY <1>1, <1>2, <1>5, <1>6 DEF AskedOK, Hit
<1>8. \A e \in cache' : IsWhole(e)'
  BY <1>1, <1>2, WholeStays
<1>. QED  BY <1>2, <1>4, <1>5, <1>7, <1>8, OneRequest

LEMMA FinishKept == ASSUME Inv, NEW r \in Requests, Finish(r) PROVE Inv'
<1>1. scene \in Scenes /\ Domains /\ AskedOK(r) /\ \A e \in cache : IsWhole(e)
  BY InvIs
<1>2. pc[r] = "finish" /\ UNCHANGED <<scene, req, plan, run, sent>>
  BY DEF Finish
<1>3. PICK storable \in BOOLEAN, written \in BOOLEAN :
        LET final == Final(r, storable)
        IN /\ Answer(r, final)
           /\ cache' = IF /\ written /\ Enabled(r) /\ ValidResponse(final)
                          /\ final.status # "failed" /\ WorthKeeping(r, final)
                       THEN {e \in cache : e.key # Key(r)} \cup {Entry(r, final)} ELSE cache
  BY DEF Finish, Final
<1> DEFINE final == Final(r, storable)
<1>4. final.cache \in {"miss", "bypassed"}
  BY FinalIs
<1>5. ValidResponse(final) /\ final.status # "failed" /\ WorthKeeping(r, final) => IsWhole(Entry(r, final))
  BY <1>1, <1>2, KeptIsWhole DEF AskedOK
<1> HIDE DEF final
<1>6. \A e \in cache' : IsWhole(e)'
  <2>1. \A e \in cache' : IsWhole(e)
    BY <1>1, <1>3, <1>5 DEF final
  <2>. QED  BY <1>2, <2>1, WholeStays
<1>7. Answer(r, final)
  BY <1>3 DEF final
<1>8. ~Hit(r)' /\ AskedOK(r)'
  BY <1>1, <1>4, <1>7, AnswerEnds DEF Hit, AskedOK
<1>9. Domains'
  BY <1>1, <1>2, <1>7, AnswerEnds DEF Domains
<1>. QED  BY <1>1, <1>2, <1>6, <1>7, <1>8, <1>9, OneRequest, AnswerEnds DEF Domains

LEMMA AgeKept == ASSUME Inv, Age PROVE Inv'
<1>1. \A e \in cache : IsWhole(e)
  BY InvIs
<1>2. \A e \in cache' : IsWhole(e)'
  <2>1. scene' = scene /\ cache' = {[e EXCEPT !.age = @ + 1] : e \in {e \in cache : e.age <= MaxAge}}
    BY DEF Age
  <2>2. ASSUME NEW e \in cache PROVE IsWhole([e EXCEPT !.age = @ + 1])
    <3> DEFINE old == e.age + 1
               new == [e EXCEPT !.age = old]
    <3> HIDE DEF old
    <3>1. IsWhole(e)
      BY <1>1
    <3>2. new = [key |-> e.key, resp |-> e.resp, by |-> e.by, age |-> old]
      BY <3>1 DEF IsWhole
    <3> HIDE DEF new
    <3>3. new.key = e.key /\ new.resp = e.resp
          /\ new = [key |-> new.key, resp |-> new.resp, by |-> new.by, age |-> new.age]
      BY <3>2
    <3>4. IsWhole(new)
      BY <3>1, <3>3 DEF IsWhole
    <3>. QED  BY <3>4 DEF new, old
  <2>3. \A e \in cache' : IsWhole(e)
    BY <2>1, <2>2
  <2>. QED  BY <2>1, <2>3, WholeStays
<1>3. UNCHANGED <<scene, pc, req, plan, run, resp, sent>>
  BY DEF Age
<1>. QED
  BY <1>2, <1>3, InvIs, ZenonT(60) DEF Inv, HitsAreWhole, RunServes, Allowed, Processed

LEMMA RestKept == ASSUME Inv, UNCHANGED <<scene, cache, pc, req, plan, run, resp, sent>> PROVE Inv'
BY DEF Inv, HitsAreWhole, RunServes, Allowed, Processed, IsWhole

\* A hit is a whole answer to the same request under the same plan, and no provider
\* was called for it (orchestrator_v3.py:430-516; extract.py:1133-1217).
THEOREM HitsTrue == Spec => []HitsAreWhole
<1>1. Init => Inv
  BY DEF Init, Inv, HitsAreWhole
<1>2. Inv /\ [Next]_vars => Inv'
  <2> SUFFICES ASSUME Inv, [Next]_vars PROVE Inv'
    OBVIOUS
  <2>1. ASSUME NEW r \in Requests, NEW q \in scene.requests, Submit(r, q) PROVE Inv'
    BY <2>1, SubmitKept
  <2>2. ASSUME NEW r \in Requests, Preflight(r) PROVE Inv'
    BY <2>2, PreflightKept
  <2>3. ASSUME NEW r \in Requests, Lookup(r) PROVE Inv'
    BY <2>3, LookupKept
  <2>4. ASSUME NEW r \in Requests, Execute(r) PROVE Inv'
    BY <2>4, ExecuteKept
  <2>5. ASSUME NEW r \in Requests, Finish(r) PROVE Inv'
    BY <2>5, FinishKept
  <2>6. ASSUME NEW p \in Provider, Rekey(p) PROVE Inv'
    BY <2>6, RestKept DEF Rekey
  <2>7. CASE Age
    BY <2>7, AgeKept
  <2>8. CASE UNCHANGED vars
    BY <2>8, RestKept DEF vars
  <2>. QED  BY <2>1, <2>2, <2>3, <2>4, <2>5, <2>6, <2>7, <2>8 DEF Next
<1>3. Inv => HitsAreWhole
  BY DEF Inv
<1>. QED  BY <1>1, <1>2, <1>3, PTL DEF Spec

-----------------------------------------------------------------------------
(***************************************************************************)
(* StatusTrue.  Each step from the parts to the response keeps what the    *)
(* status says of it; only the bounds cut a text, and they say so.         *)
(***************************************************************************)
Unserved(payload) == \E it \in Range(payload.items) : it.error

Tells(rs, payload, attempts) ==
  /\ rs.status = "failed" => rs.results = <<>>
  /\ rs.status = "ok" => ~Unserved(payload) /\ ~Limited(payload, attempts) /\ Uncut(rs.results)
  /\ "limited" \in rs.warnings => Limited(payload, attempts)

LEMMA ResultIsSeen == ASSUME NEW seen, NEW members PROVE Result(seen, members).text = Result(seen, members).of.text
BY DEF Result

LEMMA ResultIsResult == ASSUME NEW seen, NEW members PROVE IsResult(Result(seen, members))
BY DEF Result, IsResult

LEMMA ExtractedUncut ==
  ASSUME NEW observed
  PROVE  Uncut(ExtractResults(observed)) /\ \A i \in DOMAIN ExtractResults(observed) : IsResult(ExtractResults(observed)[i])
<1> DEFINE s == BySlot(observed)
           x(i) == Result(s[i], {s[i]})
           results == ExtractResults(observed)
<1>1. results = [i \in DOMAIN s |-> x(i)]
  BY DEF ExtractResults
<1>2. \A i : x(i).text = x(i).of.text /\ IsResult(x(i))
  BY ResultIsSeen, ResultIsResult
<1> HIDE DEF s, x, results
<1>. QED  BY <1>1, <1>2 DEF Uncut, Range, results

LEMMA SearchedUncut ==
  ASSUME NEW items, NEW observed
  PROVE  /\ Uncut(SearchResults(items, observed))
         /\ \A i \in DOMAIN SearchResults(items, observed) : IsResult(SearchResults(items, observed)[i])
<1> DEFINE cluster(u) == {o \in observed : Canon[o.url] = Canon[u]}
           first == {i \in DOMAIN items :
                      /\ cluster(items[i].url) # {}
                      /\ \A j \in 1..(i - 1) : Canon[items[j].url] # Canon[items[i].url]}
           ranks == Places(items, first)
           voice(u) == LET same == {o \in cluster(u) : o.url = u}
                           from == IF same # {} THEN same ELSE cluster(u)
                       IN CHOOSE o \in from : \A q \in from : q = o \/ Leads(o, q)
           x(i) == Result(voice(items[ranks[i]].url), cluster(items[ranks[i]].url))
           results == SearchResults(items, observed)
<1>1. results = [i \in DOMAIN ranks |-> x(i)]
  BY DEF SearchResults
<1>2. \A i : x(i).text = x(i).of.text /\ IsResult(x(i))
  <2> HIDE DEF voice, cluster, ranks
  <2>. QED  BY ResultIsSeen, ResultIsResult
<1> HIDE DEF ranks, x, results
<1>. QED  BY <1>1, <1>2 DEF Uncut, Range, results

LEMMA BuiltTells ==
  ASSUME NEW kind, NEW payload, NEW attempts, NEW order
  PROVE  LET new == Built(kind, payload, attempts, order) IN
         /\ IsResponse(new) /\ Tells(new, payload, attempts) /\ new.cache = "miss"
         /\ Uncut(new.results) /\ \A i \in DOMAIN new.results : IsResult(new.results[i])
<1> DEFINE selected == IF payload.research THEN None ELSE payload.provider
           observed == Observations(kind, payload, attempts, selected)
           results  == IF kind = "extract" THEN ExtractResults(observed) ELSE SearchResults(payload.items, observed)
           missing  == \E it \in Range(payload.items) : it.error
           failed   == payload.error /\ results = <<>>
           limited  == Limited(payload, attempts)
           status   == IF failed THEN "failed" ELSE IF missing \/ limited THEN "degraded" ELSE "ok"
           said     == (IF missing THEN {"partial"} ELSE {}) \cup (IF limited /\ ~failed THEN {"limited"} ELSE {})
           chosen   == IF results = <<>> THEN None ELSE selected
           new      == Built(kind, payload, attempts, order)
<1>1. new = [kind |-> kind, results |-> results, observed |-> observed, attempts |-> attempts,
             status |-> status, warnings |-> said, error |-> failed,
             receipt |-> [order |-> order, selected |-> chosen, fallback |-> payload.fallback, preflight |-> None,
                          completed |-> FALSE, decisions |-> <<>>, origin |-> None],
             evidence |-> 0, limits |-> None, stored |-> {}, cache |-> "miss"]
  BY DEF Built
<1>2. /\ status = "failed" => results = <<>>
      /\ status = "ok" => ~missing /\ ~limited
      /\ "limited" \in said => limited
  <2> HIDE DEF results, missing, limited
  <2>. QED  OBVIOUS
<1>3. Uncut(results) /\ \A i \in DOMAIN results : IsResult(results[i])
  <2> HIDE DEF observed
  <2>. QED  BY ExtractedUncut, SearchedUncut
<1> HIDE DEF results, observed, status, said, failed, chosen, new, missing, limited
<1>4. /\ IsResponse(new) /\ new.results = results /\ new.warnings = said /\ new.status = status /\ new.cache = "miss"
  BY <1>1 DEF IsResponse, IsReceipt
<1>. QED  BY <1>2, <1>3, <1>4 DEF new, Tells, missing, limited, Unserved

LEMMA BoundedTells ==
  ASSUME NEW rs, IsResponse(rs), Uncut(rs.results), \A i \in DOMAIN rs.results : IsResult(rs.results[i]),
         NEW payload, NEW attempts, Tells(rs, payload, attempts), NEW chars, NEW omitted, NEW storable
  PROVE  LET new == Bounded(rs, chars, omitted, storable) IN
         IsResponse(new) /\ Tells(new, payload, attempts) /\ new.cache = rs.cache
<1> DEFINE lengths == [i \in DOMAIN rs.results |-> rs.results[i].text]
           given   == FairShare(lengths, chars)
           cut     == {i \in DOMAIN lengths : given[i] < lengths[i]}
           texts   == [i \in DOMAIN rs.results |->
                        IF i \in cut THEN [rs.results[i] EXCEPT !.text = given[i]] ELSE rs.results[i]]
           lost    == {[of |-> rs.results[i].of, ok |-> storable] : i \in cut}
           said    == rs.warnings \cup (IF cut # {} THEN {"truncated"} ELSE {})
                         \cup (IF omitted > 0 THEN {"omitted"} ELSE {})
                         \cup (IF cut # {} /\ ~storable THEN {"unstored"} ELSE {})
           status  == IF rs.status # "failed" /\ (cut # {} \/ omitted > 0) THEN "degraded" ELSE rs.status
           limits  == [chars |-> chars, omitted |-> omitted]
           new     == Bounded(rs, chars, omitted, storable)
<1>1. new = [rs EXCEPT !.results = texts, !.stored = lost, !.warnings = said, !.limits = limits, !.status = status]
  BY DEF Bounded
<1>2. rs.results = <<>> => texts = <<>>
  <2> HIDE DEF given, cut
  <2>. QED  OBVIOUS
<1>3. "limited" \in said => "limited" \in rs.warnings
  OBVIOUS
<1>4. (status = "failed" => rs.status = "failed") /\ (status = "ok" => rs.status = "ok" /\ cut = {})
  <2> HIDE DEF cut
  <2>. QED  OBVIOUS
<1>5. cut = {} => DOMAIN texts = DOMAIN rs.results /\ \A i \in DOMAIN rs.results : texts[i] = rs.results[i]
  <2> HIDE DEF given, cut
  <2>. QED  OBVIOUS
<1> HIDE DEF texts, lost, said, status, limits, new, cut
<1>6. /\ IsResponse(new) /\ new.results = texts /\ new.warnings = said /\ new.status = status /\ new.cache = rs.cache
  BY <1>1 DEF IsResponse
<1>7. cut = {} => Uncut(texts)
  BY <1>5 DEF Uncut, Range
<1>. QED  BY <1>2, <1>3, <1>4, <1>6, <1>7 DEF new, Tells

LEMMA FinalTells ==
  ASSUME NEW r, NEW storable
  PROVE  /\ Tells(Final(r, storable), run[r].payload, run[r].attempts)
         /\ Final(r, storable).cache \in {"miss", "bypassed"}
<1> DEFINE kind     == req[r].kind
           payload  == run[r].payload
           attempts == run[r].attempts
           order    == plan[r].order
           built    == Built(kind, payload, attempts, order)
           told     == Evidenced(built, verdict[r])
           done     == Complete(told)
           rs       == Finalized(r, done, storable)
           final    == Final(r, storable)
           Good(x)  == IsResponse(x) /\ Tells(x, payload, attempts) /\ x.cache = "miss"
           Fine(x)  == Uncut(x.results) /\ \A i \in DOMAIN x.results : IsResult(x.results[i])
<1>1. Good(built) /\ Fine(built)
  <2> HIDE DEF kind, payload, attempts, order
  <2>. QED  BY BuiltTells
<1>2. final = [rs EXCEPT !.cache = IF req[r].cache = "bypass" THEN "bypassed" ELSE @]
  BY DEF Final
<1> HIDE DEF payload, attempts, order, built
<1>3. Good(told) /\ Fine(told)
  BY <1>1, EvidencedKeeps DEF Tells
<1> HIDE DEF told
<1>4. Good(done) /\ Fine(done)
  BY <1>3, CompleteKeeps DEF Tells
<1> HIDE DEF done
<1>5. Good(rs)
  <2>1. CASE kind = "extract"
    <3> DEFINE chars   == Chars(r)
               omitted == Omitted(r)
    <3>1. rs = Bounded(done, chars, omitted, storable)
      BY <2>1 DEF Finalized
    <3> HIDE DEF chars, omitted, rs
    <3>. QED  BY <1>4, <3>1, BoundedTells
  <2>2. CASE kind # "extract"
    BY <1>4, <2>2 DEF Finalized
  <2>. QED  BY <2>1, <2>2
<1> HIDE DEF rs, final
<1>6. /\ final.status = rs.status /\ final.warnings = rs.warnings /\ final.results = rs.results
      /\ final.cache \in {"miss", "bypassed"}
  BY <1>2, <1>5 DEF IsResponse
<1>. QED  BY <1>5, <1>6 DEF Tells, final, payload, attempts

-----------------------------------------------------------------------------
(***************************************************************************)
(* StatusInv, one request at a time                                        *)
(***************************************************************************)
Standing(r) ==
  /\ pc[r] \in {"idle", "preflight", "lookup", "execute"} => run[r] = None

\* What StatusTrue says of one request.
Told(r) ==
  /\ resp[r].status = "failed" => resp[r].results = <<>>
  /\ resp[r].status = "ok" =>
       /\ resp[r].cache # "stale_hit"
       /\ \A x \in Range(resp[r].results) : x.text = x.of.text
       /\ Live(r) => /\ \A it \in Range(run[r].payload.items) : ~it.error
                     /\ ~run[r].payload.limited
                     /\ \A a \in Range(run[r].attempts) : a.skip \notin {"budget_blocked", "deadline_exceeded"}
  /\ "limited" \in resp[r].warnings /\ Live(r) =>
       \/ run[r].payload.limited
       \/ \E a \in Range(run[r].attempts) :
            \/ a.skip \in {"budget_blocked", "deadline_exceeded"}
            \/ a.outcome = "cancelled" /\ a.provider \notin run[r].payload.superseded

Honest(e) == e.resp.status # "failed" /\ (e.resp.status = "ok" => Uncut(e.resp.results))

LEMMA StatusInvIs ==
  StatusInv <=> /\ \A r \in Requests : Standing(r) /\ (pc[r] = "done" => Told(r))
                /\ \A e \in cache : Honest(e)
BY DEF StatusInv, StatusKnown, StatusTrue, Standing, Told, Honest

LEMMA OneStatus ==
  ASSUME StatusInv, NEW r \in Requests,
         \A q \in Requests : q # r => /\ pc'[q] = pc[q] /\ req'[q] = req[q]
                                      /\ run'[q] = run[q] /\ resp'[q] = resp[q],
         Standing(r)', pc'[r] = "done" => Told(r)', \A e \in cache' : Honest(e)
  PROVE  StatusInv'
<1>1. \A q \in Requests : Standing(q) /\ (pc[q] = "done" => Told(q))
  BY StatusInvIs
<1>2. ASSUME NEW q \in Requests, q # r PROVE Standing(q)' /\ (pc'[q] = "done" => Told(q)')
  BY <1>1, <1>2 DEF Standing, Told, Live
<1>3. \A q \in Requests : Standing(q)' /\ (pc'[q] = "done" => Told(q)')
  BY <1>2
<1>4. \A e \in cache' : Honest(e)'
  BY DEF Honest, Uncut
<1>. QED  BY <1>3, <1>4 DEF StatusInv, StatusKnown, StatusTrue, Standing, Told, Honest

\* A response nobody was asked for.
LEMMA RefusedTells ==
  ASSUME NEW kind, NEW order, NEW disposition, NEW d
  PROVE  LET a == Complete(Evidenced(Refusal(kind, order, disposition), d))
             b == Evidenced(Complete(Refusal(kind, order, disposition)), d)
         IN a.status = "failed" /\ a.results = <<>> /\ b.status = "failed" /\ b.results = <<>>
<1> DEFINE rs == Refusal(kind, order, disposition)
<1>1. IsResponse(rs) /\ rs.status = "failed" /\ rs.results = <<>>
  BY RefusalIs DEF Refusal
<1> HIDE DEF rs
<1>2. LET x == Evidenced(rs, d) IN IsResponse(x) /\ x.status = "failed" /\ x.results = <<>>
  BY <1>1, EvidencedKeeps
<1>3. LET x == Complete(rs) IN IsResponse(x) /\ x.status = "failed" /\ x.results = <<>>
  BY <1>1, CompleteKeeps
<1>4. LET x == Complete(Evidenced(rs, d)) IN x.status = "failed" /\ x.results = <<>>
  <2> DEFINE y == Evidenced(rs, d)
  <2>1. IsResponse(y) /\ y.status = "failed" /\ y.results = <<>>
    BY <1>2
  <2> HIDE DEF y
  <2>2. Complete(y).status = "failed" /\ Complete(y).results = <<>>
    BY <2>1, CompleteKeeps
  <2>. QED  BY <2>2 DEF y
<1>5. LET x == Evidenced(Complete(rs), d) IN x.status = "failed" /\ x.results = <<>>
  <2> DEFINE y == Complete(rs)
  <2>1. IsResponse(y) /\ y.status = "failed" /\ y.results = <<>>
    BY <1>3
  <2> HIDE DEF y
  <2>2. Evidenced(y, d).status = "failed" /\ Evidenced(y, d).results = <<>>
    BY <2>1, EvidencedKeeps
  <2>. QED  BY <2>2 DEF y
<1>. QED  BY <1>4, <1>5 DEF rs

\* A hit says what the entry says, or that it is old.
LEMMA HitTells ==
  ASSUME NEW e, IsResponse(e.resp), Honest(e), NEW r
  PROVE  LET hit == FromCache(e, r) IN
         /\ IsResponse(hit) /\ hit.results = e.resp.results /\ hit.status # "failed"
         /\ hit.status = "ok" => hit.cache # "stale_hit" /\ Uncut(hit.results)
<1> DEFINE rs == e.resp
           rc == OfHit(rs.receipt, e.by)
           disposition == IF e.age < Stale THEN "fresh_hit" ELSE "stale_hit"
           status   == IF e.age < Stale THEN rs.status ELSE "degraded"
           warnings == IF e.age < Stale THEN rs.warnings ELSE rs.warnings \cup {"stale"}
           new == [rs EXCEPT !.attempts = <<>>, !.receipt = rc, !.cache = disposition,
                             !.status = status, !.warnings = warnings]
           hit == FromCache(e, r)
<1>1. hit = Evidenced(new, verdict[r])
  BY DEF FromCache
<1>2. IsReceipt(rc)
  BY DEF OfHit, IsReceipt
<1>3. IsResponse(rs) /\ status # "failed" /\ (status = "ok" => disposition # "stale_hit" /\ Uncut(rs.results))
  BY DEF Honest
<1> HIDE DEF rs, rc, disposition, status, warnings, hit
<1>4. new = [rs EXCEPT !.attempts = <<>>, !.receipt = rc, !.cache = disposition,
                       !.status = status, !.warnings = warnings]
  OBVIOUS
<1> HIDE DEF new
<1>5. new.receipt = rc /\ new.results = rs.results /\ new.status = status /\ new.cache = disposition
  BY <1>3, <1>4 DEF IsResponse
<1>6. IsResponse(new)
  BY <1>2, <1>3, <1>4, <1>5 DEF IsResponse
<1>7. IsResponse(hit) /\ hit.results = rs.results /\ hit.status = status /\ hit.cache = disposition
  BY <1>1, <1>5, <1>6, EvidencedKeeps
<1>. QED  BY <1>3, <1>7 DEF hit, rs

LEMMA SubmitTold ==
  ASSUME Inv, StatusInv, NEW r \in Requests, NEW q \in scene.requests, Submit(r, q) PROVE StatusInv'
<1>1. Domains /\ Standing(r) /\ \A e \in cache : Honest(e)
  BY InvIs, StatusInvIs
<1>2. /\ pc[r] = "idle" /\ pc' = [pc EXCEPT ![r] = "preflight"] /\ req' = [req EXCEPT ![r] = q]
      /\ UNCHANGED <<cache, run, resp>>
  BY DEF Submit, Goto
<1>3. pc'[r] = "preflight" /\ run'[r] = None
  BY <1>1, <1>2 DEF Standing, Domains
<1>. QED  BY <1>1, <1>2, <1>3, OneStatus DEF Domains, Standing

LEMMA PreflightTold == ASSUME Inv, StatusInv, NEW r \in Requests, Preflight(r) PROVE StatusInv'
<1> DEFINE decision == P!Decide(scene.pre, req[r], plan[r].order, ledger)
<1>1. scene \in Scenes /\ Domains /\ AskedOK(r) /\ Standing(r) /\ \A e \in cache : Honest(e)
  BY InvIs, StatusInvIs
<1>2. pc[r] = "preflight" /\ UNCHANGED <<cache, run>>
  BY DEF Preflight
<1>3. run[r] = None
  BY <1>1, <1>2 DEF Standing
<1>4. CASE decision.action = "abort"
  <2> DEFINE rs == Complete(Evidenced(Refusal(req[r].kind, plan[r].order, "bypassed"), decision))
  <2>1. Answer(r, rs) /\ UNCHANGED req
    BY <1>4 DEF Preflight
  <2>2. rs.status = "failed" /\ rs.results = <<>>
    BY RefusedTells
  <2> HIDE DEF rs
  <2>3. /\ \A q \in Requests : q # r => pc'[q] = pc[q] /\ resp'[q] = resp[q]
        /\ pc'[r] \in {"done", "raised"} /\ (pc'[r] = "done" => resp'[r] = rs)
    BY <1>1, <2>1, AnswerEnds
  <2>4. Standing(r)' /\ (pc'[r] = "done" => Told(r)')
    BY <1>2, <1>3, <2>2, <2>3 DEF Standing, Told, Live
  <2>. QED  BY <1>1, <1>2, <2>1, <2>3, <2>4, OneStatus
<1>5. CASE decision.action # "abort"
  <2> DEFINE less  == P!Reduced(req[r], decision)
  <2>1. req' = [req EXCEPT ![r] = less] /\ pc' = [pc EXCEPT ![r] = "lookup"] /\ resp' = resp
    BY <1>5 DEF Preflight, Goto
  <2> HIDE DEF less
  <2>2. /\ pc'[r] = "lookup" /\ \A q \in Requests : q # r => pc'[q] = pc[q] /\ req'[q] = req[q]
    BY <1>1, <2>1 DEF Domains
  <2>. QED  BY <1>1, <1>2, <1>3, <2>1, <2>2, OneStatus DEF Standing
<1>. QED  BY <1>4, <1>5

LEMMA LookupTold == ASSUME Inv, StatusInv, NEW r \in Requests, Lookup(r) PROVE StatusInv'
<1>1. /\ scene \in Scenes /\ Domains /\ AskedOK(r) /\ Standing(r)
      /\ \A e \in cache : Honest(e) /\ IsWhole(e)
  BY InvIs, StatusInvIs
<1>2. pc[r] = "lookup" /\ UNCHANGED <<cache, req, run>>
  BY DEF Lookup
<1>3. run[r] = None
  BY <1>1, <1>2 DEF Standing
<1>4. ASSUME NEW rs, Answer(r, rs), rs.status = "failed" => rs.results = <<>>,
             rs.status = "ok" => rs.cache # "stale_hit" /\ Uncut(rs.results)
      PROVE  StatusInv'
  <2>1. /\ \A q \in Requests : q # r => pc'[q] = pc[q] /\ resp'[q] = resp[q]
        /\ pc'[r] \in {"done", "raised"} /\ (pc'[r] = "done" => resp'[r] = rs)
    BY <1>1, <1>4, AnswerEnds
  <2>2. Standing(r)' /\ (pc'[r] = "done" => Told(r)')
    BY <1>2, <1>3, <1>4, <2>1 DEF Standing, Told, Live, Uncut
  <2>. QED  BY <1>1, <1>2, <2>1, <2>2, OneStatus
<1>5. ASSUME NEW e \in Found(r), NEW stored, NEW warnings,
             Answer(r, [FromCache(e, r) EXCEPT !.stored = stored, !.warnings = warnings])
      PROVE  StatusInv'
  <2> DEFINE hit == FromCache(e, r)
             new == [hit EXCEPT !.stored = stored, !.warnings = warnings]
  <2>1. e \in cache
    BY DEF Found
  <2>2. Honest(e) /\ IsResponse(e.resp)
    BY <1>1, <2>1 DEF IsWhole
  <2>3. /\ IsResponse(hit) /\ hit.status # "failed"
        /\ hit.status = "ok" => hit.cache # "stale_hit" /\ Uncut(hit.results)
    BY <2>2, HitTells
  <2>4. Answer(r, new)
    BY <1>5
  <2> HIDE DEF hit
  <2>5. new.results = hit.results /\ new.status = hit.status /\ new.cache = hit.cache
    BY <2>3 DEF IsResponse
  <2> HIDE DEF new
  <2>. QED  BY <1>4, <2>3, <2>4, <2>5
<1>6. ASSUME pc' = [pc EXCEPT ![r] = "execute"], resp' = resp PROVE StatusInv'
  <2>1. pc'[r] = "execute" /\ \A q \in Requests : q # r => pc'[q] = pc[q]
    BY <1>1, <1>6 DEF Domains
  <2>. QED  BY <1>1, <1>2, <1>3, <1>6, <2>1, OneStatus DEF Standing
<1>7. CASE \E e \in Found(r) : \E kept :
             LET hit == FromCache(e, r)
             IN Answer(r, [hit EXCEPT
                  !.stored   = {IF s \in kept THEN s ELSE [s EXCEPT !.ok = FALSE] : s \in @},
                  !.warnings = IF kept = {s \in e.resp.stored : s.ok} THEN @ ELSE @ \cup {"unstored"}])
  BY <1>5, <1>7
<1>8. CASE Answer(r, Evidenced(Complete(Refusal(req[r].kind, plan[r].order, "miss")), verdict[r]))
  <2> DEFINE rs == Evidenced(Complete(Refusal(req[r].kind, plan[r].order, "miss")), verdict[r])
  <2>1. rs.status = "failed" /\ rs.results = <<>>
    BY RefusedTells
  <2> HIDE DEF rs
  <2>2. Answer(r, rs)
    BY <1>8 DEF rs
  <2>. QED  BY <1>4, <2>1, <2>2
<1>9. CASE Goto(r, "execute") /\ UNCHANGED resp
  BY <1>6, <1>9 DEF Goto
<1>. QED  BY <1>7, <1>8, <1>9 DEF Lookup

LEMMA ExecuteTold == ASSUME Inv, StatusInv, NEW r \in Requests, Execute(r) PROVE StatusInv'
<1>1. Domains /\ Standing(r) /\ \A e \in cache : Honest(e)
  BY InvIs, StatusInvIs
<1>2. pc[r] = "execute" /\ pc' = [pc EXCEPT ![r] = "finish"] /\ UNCHANGED <<cache, req, resp>>
  BY DEF Execute, Goto
<1>3. PICK o \in Runs(r) : run' = [run EXCEPT ![r] = o]
  BY DEF Execute
<1>4. pc'[r] = "finish" /\ run'[r] = o /\ \A q \in Requests : q # r => pc'[q] = pc[q] /\ run'[q] = run[q]
  BY <1>1, <1>2, <1>3 DEF Domains
<1>. QED  BY <1>1, <1>2, <1>4, OneStatus DEF Standing

LEMMA FinishTold == ASSUME Inv, StatusInv, NEW r \in Requests, Finish(r) PROVE StatusInv'
<1>1. Domains /\ Standing(r) /\ \A e \in cache : Honest(e)
  BY InvIs, StatusInvIs
<1>2. pc[r] = "finish" /\ UNCHANGED <<req, run>>
  BY DEF Finish
<1>3. PICK storable \in BOOLEAN :
        LET final == Final(r, storable)
        IN /\ Answer(r, final)
           /\ \/ cache' = {e \in cache : e.key # Key(r)} \cup {Entry(r, final)} /\ final.status # "failed"
              \/ cache' = cache
  <2>1. PICK storable \in BOOLEAN, written \in BOOLEAN :
          LET final == Final(r, storable)
          IN /\ Answer(r, final)
             /\ cache' = IF /\ written /\ Enabled(r) /\ ValidResponse(final)
                            /\ final.status # "failed" /\ WorthKeeping(r, final)
                         THEN {e \in cache : e.key # Key(r)} \cup {Entry(r, final)} ELSE cache
    BY DEF Finish, Final
  <2>. QED  BY <2>1
<1> DEFINE final    == Final(r, storable)
           payload  == run[r].payload
           attempts == run[r].attempts
<1>4. Tells(final, payload, attempts) /\ final.cache \in {"miss", "bypassed"}
  BY FinalTells
<1>5. /\ Answer(r, final)
      /\ \/ cache' = {e \in cache : e.key # Key(r)} \cup {Entry(r, final)} /\ final.status # "failed"
         \/ cache' = cache
  BY <1>3
<1> HIDE DEF final
<1>6. \A e \in cache' : Honest(e)
  <2>1. final.status # "failed" => Honest(Entry(r, final))
    BY <1>4 DEF Honest, Entry, Tells
  <2>. QED  BY <1>1, <1>5, <2>1
<1>7. /\ \A q \in Requests : q # r => pc'[q] = pc[q] /\ resp'[q] = resp[q]
      /\ pc'[r] \in {"done", "raised"} /\ (pc'[r] = "done" => resp'[r] = final)
  BY <1>1, <1>5, AnswerEnds
<1>8. Standing(r)'
  BY <1>7 DEF Standing
<1>9. ASSUME pc'[r] = "done" PROVE Told(r)'
  <2>1. resp'[r] = final /\ run'[r].payload = payload /\ run'[r].attempts = attempts
    BY <1>2, <1>7, <1>9
  <2> HIDE DEF payload, attempts
  <2>. QED  BY <1>4, <2>1 DEF Told, Tells, Limited, Unserved, Uncut
<1>. QED  BY <1>2, <1>6, <1>7, <1>8, <1>9, OneStatus

LEMMA AgeTold == ASSUME Inv, StatusInv, Age PROVE StatusInv'
<1>1. \A e \in cache : Honest(e) /\ IsWhole(e)
  BY InvIs, StatusInvIs
<1>2. ASSUME NEW e \in cache PROVE Honest([e EXCEPT !.age = @ + 1])
  <2> DEFINE old == e.age + 1
             new == [e EXCEPT !.age = old]
  <2> HIDE DEF old
  <2>1. new.resp = e.resp
    BY <1>1 DEF IsWhole
  <2> HIDE DEF new
  <2>2. Honest(new)
    BY <1>1, <2>1 DEF Honest
  <2>. QED  BY <2>2 DEF new, old
<1>3. UNCHANGED <<pc, req, run, resp>> /\ cache' = {[e EXCEPT !.age = @ + 1] : e \in {e \in cache : e.age <= MaxAge}}
  BY DEF Age
<1>4. \A e \in cache' : Honest(e)
  BY <1>2, <1>3
<1>. QED  BY <1>3, <1>4 DEF StatusInv, StatusKnown, StatusTrue, Live, Honest, Uncut

LEMMA RestTold == ASSUME StatusInv, UNCHANGED <<cache, pc, req, run, resp>> PROVE StatusInv'
BY DEF StatusInv, StatusKnown, StatusTrue, Live, Uncut

\* A response says "failed" when nothing was served, "ok" only when nothing is missing,
\* shortened, old or left out by a limit, and names a limit only when a call or the
\* reading of the pages of a research ran into one; a lost race is no limit
\* (runtime_v3.py:585-668; search.py:1815-1819; orchestrator_v3.py:466-488).
THEOREM StatusIsTrue == Spec => []StatusTrue
<1>1. Init => Inv /\ StatusInv
  BY DEF Init, Inv, HitsAreWhole, StatusInv, StatusKnown, StatusTrue
<1>2. Inv /\ StatusInv /\ [Next]_vars => Inv' /\ StatusInv'
  <2> SUFFICES ASSUME Inv, StatusInv, [Next]_vars PROVE Inv' /\ StatusInv'
    OBVIOUS
  <2>1. ASSUME NEW r \in Requests, NEW q \in scene.requests, Submit(r, q) PROVE Inv' /\ StatusInv'
    BY <2>1, SubmitKept, SubmitTold
  <2>2. ASSUME NEW r \in Requests, Preflight(r) PROVE Inv' /\ StatusInv'
    BY <2>2, PreflightKept, PreflightTold
  <2>3. ASSUME NEW r \in Requests, Lookup(r) PROVE Inv' /\ StatusInv'
    BY <2>3, LookupKept, LookupTold
  <2>4. ASSUME NEW r \in Requests, Execute(r) PROVE Inv' /\ StatusInv'
    BY <2>4, ExecuteKept, ExecuteTold
  <2>5. ASSUME NEW r \in Requests, Finish(r) PROVE Inv' /\ StatusInv'
    BY <2>5, FinishKept, FinishTold
  <2>6. ASSUME NEW p \in Provider, Rekey(p) PROVE Inv' /\ StatusInv'
    BY <2>6, RestKept, RestTold DEF Rekey
  <2>7. ASSUME Age PROVE Inv' /\ StatusInv'
    BY <2>7, AgeKept, AgeTold
  <2>8. ASSUME UNCHANGED vars PROVE Inv' /\ StatusInv'
    BY <2>8, RestKept, RestTold DEF vars
  <2>. QED  BY <2>1, <2>2, <2>3, <2>4, <2>5, <2>6, <2>7, <2>8 DEF Next
<1>3. StatusInv => StatusTrue
  BY DEF StatusInv
<1>. QED  BY <1>1, <1>2, <1>3, PTL DEF Spec
-----------------------------------------------------------------------------
(***************************************************************************)
(* The texts of an extraction within one budget                            *)
(***************************************************************************)
\* A sum over a set is the sum of what is nothing elsewhere.
LEMMA SumElsewhere ==
  ASSUME NEW S, IsFiniteSet(S), NEW f, \A x \in S : f[x] \in Nat, NEW T \in SUBSET S,
         NEW g, \A x \in S : g[x] = IF x \in T THEN f[x] ELSE 0
  PROVE  SumOf(g, S) = SumOf(f, T)
<1> DEFINE Good == {s \in SUBSET S : SumOf(g, s) = SumOf(f, s \cap T)}
<1>1. ASSUME NEW s \in SUBSET S
      PROVE  IsFiniteSet(s) /\ SumOf(f, s) \in Nat /\ SumOf(g, s) \in Nat
  <2>1. IsFiniteSet(s)
    BY FS_Subset
  <2>2. SumOf(f, s) \in Nat
    BY <2>1, SumType
  <2>3. SumOf(g, s) \in Nat
    BY <2>1, SumType
  <2>. QED  BY <2>1, <2>2, <2>3
<1>2. {} \in Good
  <2>1. SumOf(f, {}) = 0 /\ SumOf(g, {}) = 0 /\ {} \cap T = {}
    BY SumUnfolds
  <2>. QED  BY <2>1
<1>3. ASSUME NEW s \in SUBSET S, s # {}, \A x \in s : s \ {x} \in Good PROVE s \in Good
  <2>1. PICK x \in s : TRUE
    BY <1>3
  <2>2. SumOf(g, s) = g[x] + SumOf(g, s \ {x})
    BY <1>1, SumWithout
  <2>3. SumOf(g, s \ {x}) = SumOf(f, (s \ {x}) \cap T)
    BY <1>3
  <2>4. SumOf(f, (s \ {x}) \cap T) \in Nat /\ f[x] \in Nat
    BY <1>1
  <2>5. CASE x \in T
    <3>1. (s \cap T) \ {x} = (s \ {x}) \cap T /\ s \cap T \in SUBSET S
      OBVIOUS
    <3>2. SumOf(f, s \cap T) = f[x] + SumOf(f, (s \cap T) \ {x})
      BY <1>1, <2>5, SumWithout
    <3>3. g[x] = f[x]
      BY <2>5
    <3>4. SumOf(g, s) = SumOf(f, s \cap T)
      BY <2>2, <2>3, <3>1, <3>2, <3>3
    <3>. QED  BY <3>4
  <2>6. CASE x \notin T
    <3>1. s \cap T = (s \ {x}) \cap T /\ g[x] = 0
      BY <2>6
    <3>2. SumOf(f, s \cap T) = SumOf(f, (s \ {x}) \cap T)
      BY <3>1
    <3>3. SumOf(g, s \ {x}) \in Nat
      BY <1>1
    <3>4. SumOf(g, s) = SumOf(g, s \ {x})
      BY <2>2, <3>1, <3>3
    <3>5. SumOf(g, s) = SumOf(f, s \cap T)
      BY <2>3, <3>2, <3>4
    <3>. QED  BY <3>5
  <2>. QED  BY <2>5, <2>6
<1>4. SUBSET S \subseteq Good
  <2> HIDE DEF Good
  <2>. QED  BY <1>2, <1>3, OverSubsets
<1>5. S \cap T = T /\ S \in Good
  BY <1>4
<1>. QED  BY <1>5

\* At most rest have fewer than rest before them.
LEMMA RankedFew ==
  ASSUME NEW T, IsFiniteSet(T), T \subseteq Nat, NEW rest \in Nat
  PROVE  Cardinality({i \in T : Cardinality({j \in T : j < i}) < rest}) <= rest
<1> DEFINE few == {i \in T : Cardinality({j \in T : j < i}) < rest}
           last == Max(few)
           before == {j \in T : j < last}
<1>1. CASE few = {}
  <2>1. Cardinality(few) = 0
    BY <1>1, FS_EmptySet
  <2>. QED  BY <2>1
<1>2. CASE few # {}
  <2>1. IsFiniteSet(few) /\ few \subseteq Nat
    <3>1. few \subseteq T
      OBVIOUS
    <3>. QED  BY <3>1, FS_Subset
  <2>2. last \in few /\ \A j \in few : j <= last
    <3> HIDE DEF few
    <3>. QED  BY <1>2, <2>1, LargestOf
  <2>3. last \in T /\ Cardinality(before) < rest
    BY <2>2
  <2>4. \A j \in few : j \in T /\ j \in Nat /\ last \in Nat
    BY <2>1, <2>2
  <2> HIDE DEF last
  <2>5. few \subseteq before \cup {last}
    <3>1. ASSUME NEW j \in few, j # last PROVE j \in before
      BY <2>2, <2>4, <3>1
    <3>. QED  BY <3>1
  <2>6. IsFiniteSet(before) /\ Cardinality(before) \in Nat /\ last \notin before
    <3>1. before \subseteq T
      OBVIOUS
    <3>2. last \notin before
      BY <2>1, <2>2
    <3>. QED  BY <3>1, <3>2, FS_Subset, FS_CardinalityType
  <2> HIDE DEF before, few
  <2>7. IsFiniteSet(before \cup {last}) /\ Cardinality(before \cup {last}) = Cardinality(before) + 1
    BY <2>6, FS_AddElement
  <2>8. Cardinality(few) <= Cardinality(before \cup {last}) /\ Cardinality(few) \in Nat
    BY <2>1, <2>5, <2>7, FS_Subset, FS_CardinalityType
  <2>9. Cardinality(few) <= rest
    BY <2>3, <2>6, <2>7, <2>8
  <2>. QED  BY <2>9 DEF few
<1>. QED  BY <1>1, <1>2

LEMMA TotalIs == ASSUME NEW f PROVE Total(f) = SumOf(f, DOMAIN f)
BY DEF Total, FoldSeq, FoldFunction, SumOf

\* What has been given and what is left is the budget at most.
Allotted(D, budget) ==
  {x \in [given : [D -> Nat], active : SUBSET D, left : Nat] : SumOf(x.given, D) + x.left <= budget}

\* Texts: their places, and how long they are.
Texts(lengths, n) == n \in Nat /\ lengths \in [1..n -> Nat]

LEMMA RoundIs ==
  ASSUME NEW lengths, NEW was
  PROVE  LET n == Share(was.left, was.active)
             meet == {i \in was.active : lengths[i] <= n}
             rest == was.left % Cardinality(was.active)
         IN Round(lengths, was) =
              IF was.active = {} \/ was.left <= 0 THEN was
              ELSE IF meet # {}
              THEN [given  |-> [i \in DOMAIN lengths |-> IF i \in meet THEN lengths[i] ELSE was.given[i]],
                    active |-> was.active \ meet, left |-> was.left - SumOf(lengths, meet)]
              ELSE [given  |-> [i \in DOMAIN lengths |->
                                 IF i \notin was.active THEN was.given[i]
                                 ELSE n + IF Cardinality({j \in was.active : j < i}) < rest THEN 1 ELSE 0],
                    active |-> {}, left |-> 0]
BY DEF Round, MapThenSumSet, SumOf, FoldFunctionOnSet

LEMMA RoundKeeps ==
  ASSUME NEW n, NEW lengths, Texts(lengths, n), NEW budget \in Nat, NEW was \in Allotted(1..n, budget)
  PROVE  Round(lengths, was) \in Allotted(1..n, budget)
<1> DEFINE D == 1..n
           active == was.active
           left  == was.left
           given == was.given
           c     == Cardinality(active)
           share == left \div c
           rest  == left % c
           meet  == {i \in active : lengths[i] <= share}
           new   == Round(lengths, was)
<1>1. n \in Nat /\ DOMAIN lengths = D /\ \A i \in D : lengths[i] \in Nat
  BY DEF Texts
<1>2. given \in [D -> Nat] /\ active \in SUBSET D /\ left \in Nat /\ SumOf(given, D) + left <= budget
  BY DEF Allotted
<1>3. IsFiniteSet(D) /\ IsFiniteSet(active) /\ c \in Nat
  <2>1. IsFiniteSet(D)
    BY <1>1, FS_Interval
  <2>2. IsFiniteSet(active)
    BY <1>2, <2>1, FS_Subset
  <2>. QED  BY <2>1, <2>2, FS_CardinalityType
<1>4. SumOf(given, D) \in Nat
  <2> HIDE DEF D
  <2>. QED  BY <1>2, <1>3, SumType
<1>5. CASE active = {} \/ left <= 0
  BY <1>5, RoundIs
<1>6. CASE ~(active = {} \/ left <= 0)
  <2>1. c > 0
    BY <1>3, <1>6, FS_EmptySet
  <2>2. share \in Nat /\ rest \in Nat /\ share * c + rest = left
    BY <1>2, <1>3, <2>1, Divides
  <2>3. CASE meet # {}
    <3> DEFINE sum == SumOf(lengths, meet)
               g  == [i \in D |-> IF i \in meet THEN lengths[i] ELSE given[i]]
               h  == [i \in D |-> IF i \in meet THEN lengths[i] ELSE 0]
    <3>1. new = [given |-> g, active |-> active \ meet, left |-> left - sum]
      BY <1>1, <1>6, <2>3, RoundIs DEF Share
    <3> HIDE DEF new
    <3>2. \A i \in D : given[i] \in Nat /\ lengths[i] \in Nat
      BY <1>1, <1>2
    <3>3. \A i \in D : /\ g[i] \in Nat /\ h[i] \in Nat /\ g[i] <= given[i] + h[i]
                       /\ h[i] = IF i \in meet THEN lengths[i] ELSE 0
      BY <3>2
    <3>4. \A i \in meet : i \in active /\ lengths[i] <= share
      OBVIOUS
    <3>5. meet \in SUBSET D /\ {} \in SUBSET active
      BY <1>2
    <3>6. g \in [D -> Nat]
      BY <3>2
    <3> HIDE DEF g, h, meet, D, given, active, c, share, rest, left
    <3>7. SumOf(h, D) = sum
      BY <1>1, <1>3, <3>3, <3>5, SumElsewhere
    <3>8. \A i \in D : h[i] <= IF i \in {} THEN share + 1 ELSE IF i \in active THEN share ELSE 0
      BY <2>2, <3>3, <3>4
    <3>9. SumOf(h, D) <= share * Cardinality(active) + Cardinality({})
      BY <1>2, <1>3, <2>2, <3>3, <3>5, <3>8, SumWithin
    <3>10. SumOf(g, D) <= SumOf(given, D) + SumOf(h, D)
      BY <1>2, <1>3, <3>2, <3>3, SumsCompare
    <3>11. SumOf(g, D) \in Nat /\ SumOf(h, D) \in Nat
      BY <1>3, <3>3, SumType
    <3>12. Cardinality({}) = 0
      BY FS_EmptySet
    <3>13. sum <= left /\ sum \in Nat
      <4>1. share * c \in Nat
        BY <1>3, <2>2
      <4>. QED  BY <1>2, <2>2, <3>7, <3>9, <3>11, <3>12, <4>1 DEF c
    <3>14. left - sum \in Nat /\ SumOf(g, D) + (left - sum) <= budget
      BY <1>2, <1>4, <3>7, <3>10, <3>11, <3>13
    <3>15. active \ meet \in SUBSET D
      BY <1>2
    <3> HIDE DEF sum
    <3>16. new \in Allotted(D, budget)
      BY <3>1, <3>6, <3>14, <3>15 DEF Allotted
    <3>. QED  BY <3>16 DEF D, new
  <2>4. CASE meet = {}
    <3> DEFINE few == {i \in active : Cardinality({j \in active : j < i}) < rest}
               extra(i) == IF Cardinality({j \in active : j < i}) < rest THEN 1 ELSE 0
               g  == [i \in D |-> IF i \notin active THEN given[i] ELSE share + extra(i)]
               h  == [i \in D |-> IF i \in active THEN share + extra(i) ELSE 0]
    <3>1. new = [given |-> g, active |-> {}, left |-> 0]
      BY <1>1, <1>6, <2>4, RoundIs DEF Share
    <3> HIDE DEF new
    <3>2. \A i \in D : extra(i) \in {0, 1} /\ (i \in active => (extra(i) = 1 <=> i \in few))
      OBVIOUS
    <3> HIDE DEF extra, D, given, active, c, share, rest, left
    <3>3. \A i \in D : g[i] \in Nat /\ h[i] \in Nat /\ g[i] <= given[i] + h[i]
      <4>1. ASSUME NEW i \in D PROVE g[i] \in Nat /\ h[i] \in Nat /\ g[i] <= given[i] + h[i]
        <5>1. given[i] \in Nat /\ (extra(i) = 0 \/ extra(i) = 1)
          BY <1>2, <3>2
        <5>2. CASE i \in active
          <6>1. g[i] = share + extra(i) /\ h[i] = share + extra(i)
            BY <5>2
          <6>. QED  BY <2>2, <5>1, <6>1
        <5>3. CASE i \notin active
          <6>1. g[i] = given[i] /\ h[i] = 0
            BY <5>3
          <6>. QED  BY <5>1, <6>1
        <5>. QED  BY <5>2, <5>3
      <4>. QED  BY <4>1
    <3>4. \A i \in D : h[i] <= IF i \in few THEN share + 1 ELSE IF i \in active THEN share ELSE 0
      <4>1. \A i \in few : i \in active
        OBVIOUS
      <4> HIDE DEF few
      <4>. QED  BY <2>2, <3>2, <4>1
    <3>5. g \in [D -> Nat]
      BY <3>3
    <3>6. Cardinality(few) <= rest
      <4>1. active \subseteq Nat
        BY <1>1, <1>2 DEF D
      <4>. QED  BY <1>3, <2>2, <4>1, RankedFew
    <3>7. few \in SUBSET active /\ Cardinality(few) \in Nat
      BY <1>3, FS_Subset, FS_CardinalityType
    <3> HIDE DEF few, g, h
    <3>8. SumOf(h, D) <= share * Cardinality(active) + Cardinality(few)
      BY <1>2, <1>3, <2>2, <3>3, <3>4, <3>7, SumWithin
    <3>9. SumOf(g, D) <= SumOf(given, D) + SumOf(h, D)
      BY <1>2, <1>3, <3>3, SumsCompare
    <3>10. SumOf(g, D) \in Nat /\ SumOf(h, D) \in Nat
      BY <1>3, <3>3, SumType
    <3>11. SumOf(h, D) <= left
      <4>1. share * c \in Nat
        BY <1>3, <2>2
      <4>. QED  BY <1>2, <2>2, <3>6, <3>7, <3>8, <3>10, <4>1 DEF c
    <3>12. SumOf(g, D) + 0 <= budget
      BY <1>2, <1>4, <3>9, <3>10, <3>11
    <3>13. new \in Allotted(D, budget)
      BY <3>1, <3>5, <3>12 DEF Allotted
    <3>. QED  BY <3>13 DEF D, new
  <2>. QED  BY <2>3, <2>4
<1>. QED  BY <1>5, <1>6

IsRounds(it, lengths, budget) ==
  it = [r \in 0..(Len(lengths) + 1) |->
         IF r = 0 THEN [given |-> [i \in DOMAIN lengths |-> 0], active |-> DOMAIN lengths, left |-> budget]
         ELSE Round(lengths, it[r - 1])]

LEMMA FairShareIs ==
  ASSUME NEW lengths, NEW budget
  PROVE  FairShare(lengths, budget) =
           IF Total(lengths) <= budget THEN lengths
           ELSE (CHOOSE it : IsRounds(it, lengths, budget))[Len(lengths) + 1].given
BY DEF FairShare, IsRounds

LEMMA NothingGiven ==
  ASSUME NEW S, IsFiniteSet(S)
  PROVE  SumOf([i \in S |-> 0], S) = 0
<1> DEFINE g == [i \in S |-> 0]
<1>1. \A x \in S : g[x] \in Nat /\ g[x] = IF x \in {} THEN g[x] ELSE 0
  OBVIOUS
<1>2. {} \in SUBSET S
  OBVIOUS
<1> HIDE DEF g
<1>3. SumOf(g, {}) = 0
  BY <1>1, SumUnfolds
<1>4. SumOf(g, S) = SumOf(g, {})
  BY <1>1, <1>2, SumElsewhere
<1>. QED  BY <1>3, <1>4 DEF g

\* _fair_share_allocations gives no more than there is.
LEMMA FairShareFits ==
  ASSUME NEW n, NEW lengths, Texts(lengths, n), NEW budget \in Nat
  PROVE  FairShare(lengths, budget) \in [1..n -> Nat] /\ SumOf(FairShare(lengths, budget), 1..n) <= budget
<1> DEFINE D == 1..n
           A == Allotted(D, budget)
           start == [given |-> [i \in D |-> 0], active |-> D, left |-> budget]
           it == CHOOSE h : IsRounds(h, lengths, budget)
<1>1. n \in Nat /\ lengths \in [D -> Nat] /\ DOMAIN lengths = D /\ Len(lengths) = n
  <2>1. n \in Nat /\ lengths \in [1..n -> Nat]
    BY DEF Texts
  <2>2. lengths \in Seq(Nat)
    BY <2>1
  <2>. QED  BY <2>1, <2>2
<1>2. IsFiniteSet(D)
  BY <1>1, FS_Interval
<1>3. start \in A
  <2>1. SumOf([i \in D |-> 0], D) = 0
    BY <1>2, NothingGiven
  <2> HIDE DEF D
  <2>2. [i \in D |-> 0] \in [D -> Nat] /\ SumOf([i \in D |-> 0], D) + budget <= budget
    BY <2>1
  <2>. QED  BY <2>2 DEF Allotted
<1>4. \A was \in A : Round(lengths, was) \in A
  BY RoundKeeps
<1>5. CASE Total(lengths) <= budget
  BY <1>1, <1>5, FairShareIs, TotalIs
<1>6. CASE ~(Total(lengths) <= budget)
  <2>1. \E h : IsRounds(h, lengths, budget)
    <3> DEFINE step == [p \in Nat \X A |-> Round(lengths, p[2])]
    <3>1. StepsIn(step, A)
      <4>1. ASSUME NEW i \in Nat, NEW x \in A PROVE step[<<i, x>>] \in A
        <5>1. step[<<i, x>>] = Round(lengths, x)
          OBVIOUS
        <5>. QED  BY <1>4, <5>1
      <4>. QED  BY <4>1 DEF StepsIn
    <3> HIDE DEF step
    <3>2. PICK f : Iterated(f, n + 1, start, step, A)
      <4> HIDE DEF start, A
      <4>1. n + 1 \in Nat
        BY <1>1
      <4>. QED  BY <1>3, <3>1, <4>1, Iterates
    <3>3. f \in [0..(n + 1) -> A] /\ f[0] = start /\ \A i \in 1..(n + 1) : f[i] = step[<<i, f[i - 1]>>]
      BY <3>2 DEF Iterated
    <3> HIDE DEF A
    <3>4. ASSUME NEW i \in 1..(n + 1) PROVE f[i] = Round(lengths, f[i - 1])
      <4>1. i \in Nat /\ i - 1 \in 0..(n + 1) /\ f[i - 1] \in A
        BY <1>1, <3>3
      <4>2. step[<<i, f[i - 1]>>] = Round(lengths, f[i - 1])
        BY <4>1 DEF step
      <4>. QED  BY <3>3, <4>2
    <3>5. \A r \in 0..(n + 1) : r = 0 \/ r \in 1..(n + 1)
      BY <1>1
    <3> HIDE DEF start
    <3>6. f = [r \in 0..(n + 1) |-> IF r = 0 THEN start ELSE Round(lengths, f[r - 1])]
      BY <3>3, <3>4, <3>5
    <3>7. IsRounds(f, lengths, budget)
      BY <1>1, <3>6 DEF IsRounds, start
    <3>. QED  BY <3>7
  <2>2. IsRounds(it, lengths, budget)
    BY <2>1
  <2>3. FairShare(lengths, budget) = it[n + 1].given
    BY <1>1, <1>6, FairShareIs
  <2> HIDE DEF it, D, A, start
  <2>4. it = [r \in 0..(n + 1) |-> IF r = 0 THEN start ELSE Round(lengths, it[r - 1])]
    BY <1>1, <2>2 DEF IsRounds, start
  <2> DEFINE Good == {r \in Nat : r <= n + 1 => it[r] \in A}
  <2>5. 0 \in Good
    <3>1. it[0] = start
      BY <1>1, <2>4
    <3>. QED  BY <1>3, <3>1
  <2>6. ASSUME NEW r \in Nat, r \in Good PROVE r + 1 \in Good
    <3>1. SUFFICES ASSUME r + 1 <= n + 1 PROVE it[r + 1] \in A
      OBVIOUS
    <3>2. r + 1 \in 0..(n + 1) /\ r + 1 # 0 /\ (r + 1) - 1 = r /\ r <= n + 1
      BY <1>1, <3>1
    <3>3. it[r + 1] = Round(lengths, it[r])
      BY <2>4, <3>2
    <3>4. it[r] \in A
      BY <2>6, <3>2
    <3>. QED  BY <1>4, <3>3, <3>4
  <2>7. Nat \subseteq Good
    <3> HIDE DEF Good
    <3>. QED  BY <2>5, <2>6, OverNumbers
  <2>8. it[n + 1] \in A
    <3>1. n + 1 \in Nat /\ n + 1 <= n + 1
      BY <1>1
    <3>. QED  BY <2>7, <3>1
  <2> DEFINE x == it[n + 1]
  <2> HIDE DEF x
  <2>9. x.given \in [D -> Nat] /\ x.left \in Nat /\ SumOf(x.given, D) + x.left <= budget
    BY <2>8 DEF A, Allotted, x
  <2>10. SumOf(x.given, D) \in Nat
    BY <1>2, <2>9, SumType
  <2>11. SumOf(x.given, D) <= budget
    BY <2>9, <2>10
  <2>. QED  BY <2>3, <2>9, <2>11 DEF D, x
<1>. QED  BY <1>5, <1>6

\* What is at most as long, one by one, is at most as long in sum.
LEMMA SumShorter ==
  ASSUME NEW S, IsFiniteSet(S), NEW f, NEW h, \A x \in S : f[x] \in Nat /\ h[x] \in Nat /\ h[x] <= f[x]
  PROVE  SumOf(h, S) <= SumOf(f, S)
<1> DEFINE g == [i \in S |-> 0]
<1>1. SumOf(g, S) = 0
  BY NothingGiven
<1>2. \A x \in S : g[x] \in Nat /\ h[x] <= f[x] + g[x]
  OBVIOUS
<1> HIDE DEF g
<1>3. SumOf(h, S) <= SumOf(f, S) + SumOf(g, S)
  BY <1>2, SumsCompare
<1>4. SumOf(f, S) \in Nat
  BY SumType
<1>. QED  BY <1>1, <1>3, <1>4

\* The bounds of an extraction hold.
LEMMA BoundedFits ==
  ASSUME NEW rs, IsResponse(rs), NEW chars \in Nat, NEW omitted, NEW storable, NEW n \in Nat,
         DOMAIN rs.results = 1..n,
         \A i \in 1..n : IsResult(rs.results[i]) /\ rs.results[i].text \in Nat
  PROVE  Total(TextsOf(Bounded(rs, chars, omitted, storable).results)) \in 0..chars
<1> DEFINE results == rs.results
           lengths == [i \in DOMAIN results |-> results[i].text]
           given   == FairShare(lengths, chars)
           cut     == {i \in DOMAIN lengths : given[i] < lengths[i]}
           texts   == [i \in DOMAIN results |-> IF i \in cut THEN [results[i] EXCEPT !.text = given[i]] ELSE results[i]]
           short   == TextsOf(texts)
           D       == 1..n
<1>1. Bounded(rs, chars, omitted, storable).results = texts
  <2> DEFINE lost    == {[of |-> results[i].of, ok |-> storable] : i \in cut}
             said    == rs.warnings \cup (IF cut # {} THEN {"truncated"} ELSE {})
                         \cup (IF omitted > 0 THEN {"omitted"} ELSE {})
                         \cup (IF cut # {} /\ ~storable THEN {"unstored"} ELSE {})
             status  == IF rs.status # "failed" /\ (cut # {} \/ omitted > 0) THEN "degraded" ELSE rs.status
             limits  == [chars |-> chars, omitted |-> omitted]
             new     == Bounded(rs, chars, omitted, storable)
  <2>1. new = [rs EXCEPT !.results = texts, !.stored = lost, !.warnings = said, !.limits = limits, !.status = status]
    BY DEF Bounded
  <2> HIDE DEF texts, lost, said, status, limits, new
  <2>2. new.results = texts
    BY <2>1 DEF IsResponse
  <2>. QED  BY <2>2 DEF new
<1>2. Texts(lengths, n)
  BY DEF Texts
<1>3. given \in [D -> Nat] /\ SumOf(given, D) <= chars
  <2> HIDE DEF lengths
  <2>. QED  BY <1>2, FairShareFits
<1>4. IsFiniteSet(D)
  BY FS_Interval
<1> HIDE DEF given
<1>5. \A i \in D : given[i] \in Nat /\ lengths[i] \in Nat /\ lengths[i] = results[i].text
  BY <1>3
<1>6. ASSUME NEW i \in D PROVE texts[i].text \in Nat /\ texts[i].text <= given[i]
  <2> DEFINE x == results[i]
             y == texts[i]
  <2>1. IsResult(x) /\ x.text = lengths[i] /\ i \in DOMAIN lengths
    OBVIOUS
  <2>2. y = IF given[i] < lengths[i] THEN [x EXCEPT !.text = given[i]] ELSE x
    OBVIOUS
  <2> HIDE DEF x, y, lengths
  <2>3. CASE given[i] < lengths[i]
    <3>1. y = [x EXCEPT !.text = given[i]]
      BY <2>2, <2>3
    <3>2. y.text = given[i]
      BY <2>1, <3>1 DEF IsResult
    <3>. QED  BY <1>5, <3>2 DEF y
  <2>4. CASE ~(given[i] < lengths[i])
    <3>1. y.text = lengths[i]
      BY <2>1, <2>2, <2>4
    <3>. QED  BY <1>5, <2>4, <3>1 DEF y
  <2>. QED  BY <2>3, <2>4
<1>7. DOMAIN texts = D
  OBVIOUS
<1> HIDE DEF texts
<1>8. DOMAIN short = D /\ \A i \in D : short[i] = texts[i].text
  BY <1>7 DEF TextsOf
<1> HIDE DEF short, D
<1>9. \A i \in D : given[i] \in Nat /\ short[i] \in Nat /\ short[i] <= given[i]
  BY <1>5, <1>6, <1>8
<1>10. SumOf(short, D) <= SumOf(given, D)
  BY <1>4, <1>9, SumShorter
<1>11. SumOf(short, D) \in Nat /\ SumOf(given, D) \in Nat
  BY <1>4, <1>9, SumType
<1>12. Total(short) = SumOf(short, D)
  BY <1>8, TotalIs
<1>13. Total(short) \in 0..chars
  BY <1>3, <1>10, <1>11, <1>12
<1>. QED  BY <1>1, <1>13 DEF short
\* What was observed, each under a slot of its own.
Slotted(observed, n) ==
  /\ \A o \in observed : o.slot \in 1..n /\ o.text \in Nat
  /\ \A o, q \in observed : o.slot = q.slot => o = q

\* What a result is: one of the observations speaks for some of them.
Founded(x, observed) ==
  /\ IsResult(x) /\ x.of \in x.members /\ x.members \subseteq observed
  /\ x.text = x.of.text /\ x.url = x.of.url

Grounded(results, observed) ==
  /\ \E m \in Nat : DOMAIN results = 1..m
  /\ results = [k \in DOMAIN results |-> results[k]]
  /\ \A k \in DOMAIN results : Founded(results[k], observed)

LEMMA SlotsListed ==
  ASSUME NEW n \in Nat, NEW observed, Slotted(observed, n)
  PROVE  LET results == ExtractResults(observed) IN
         /\ Grounded(results, observed)
         /\ \E m \in Nat : /\ DOMAIN results = 1..m
                           /\ \A i \in 1..m : IsResult(results[i]) /\ results[i].text \in Nat
<1> DEFINE Increases(s) == \A i, j \in DOMAIN s : i < j => s[i].slot < s[j].slot
           T == {o.slot : o \in observed}
           g == [t \in T |-> CHOOSE o \in observed : o.slot = t]
           m == Cardinality(T)
           by == BySlot(observed)
           results == ExtractResults(observed)
<1>1. T \in SUBSET (1..n)
  BY DEF Slotted
<1>2. IsFiniteSet(T) /\ m \in Nat
  <2>1. IsFiniteSet(1..n)
    BY FS_Interval
  <2>2. IsFiniteSet(T)
    BY <1>1, <2>1, FS_Subset
  <2>. QED  BY <2>2, FS_CardinalityType
<1>3. \A t \in T : g[t] \in observed /\ g[t].slot = t
  <2>1. ASSUME NEW t \in T PROVE \E o \in observed : o.slot = t
    OBVIOUS
  <2>2. ASSUME NEW t \in T PROVE g[t] \in observed /\ g[t].slot = t
    <3>1. g[t] = CHOOSE o \in observed : o.slot = t
      OBVIOUS
    <3>. QED  BY <2>1, <3>1
  <2>. QED  BY <2>2
<1>4. \A o \in observed : o.slot \in T
  OBVIOUS
<1>5. DOMAIN g = T
  OBVIOUS
<1>6. g \in [T -> observed]
  <2>1. g = [t \in T |-> g[t]]
    OBVIOUS
  <2> HIDE DEF g, T
  <2>. QED  BY <1>3, <2>1
<1> HIDE DEF g, T
<1>7. Cardinality(observed) = m
  <2>1. \A t, u \in T : g[t] = g[u] => t = u
    BY <1>3
  <2>2. \A o \in observed : \E t \in T : g[t] = o
    BY <1>3, <1>4 DEF Slotted
  <2>3. g \in Bijection(T, observed)
    BY <1>6, <2>1, <2>2 DEF Bijection, Injection, Surjection, IsInjective
  <2>. QED  BY <1>2, <2>3, FS_Bijection DEF ExistsBijection
<1>8. PICK e : Lists(e, m, T)
  BY <1>1, Enumerates
<1> DEFINE s == [k \in 1..m |-> g[e[k]]]
<1>9. s \in [1..m -> observed] /\ Increases(s)
  <2>1. \A k \in 1..m : e[k] \in T
    BY <1>8 DEF Lists
  <2>2. \A k \in 1..m : s[k] \in observed /\ s[k].slot = e[k]
    BY <1>3, <2>1
  <2>3. DOMAIN s = 1..m
    OBVIOUS
  <2>4. s = [k \in 1..m |-> s[k]]
    OBVIOUS
  <2> HIDE DEF s
  <2>5. s \in [1..m -> observed]
    BY <2>2, <2>4
  <2>. QED  BY <2>2, <2>3, <2>5, <1>8 DEF Lists
<1> HIDE DEF s, m
<1>10. by \in [1..m -> observed]
  BY <1>7, <1>9 DEF BySlot
<1> HIDE DEF by
<1>11. results = [i \in 1..m |-> Result(by[i], {by[i]})]
  BY <1>10 DEF ExtractResults, by
<1> HIDE DEF results
<1>12. ASSUME NEW i \in 1..m PROVE IsResult(results[i]) /\ results[i].text \in Nat
  <2> DEFINE x == by[i]
  <2>1. results[i] = Result(x, {x}) /\ x \in observed
    BY <1>10, <1>11
  <2> HIDE DEF x
  <2>2. Result(x, {x}).text = x.text /\ x.text \in Nat
    BY <2>1 DEF Result, Slotted
  <2>. QED  BY <2>1, <2>2, ResultIsResult
<1>13. DOMAIN results = 1..m
  BY <1>11
<1>14. \A i \in 1..m : Founded(results[i], observed)
  <2> SUFFICES ASSUME NEW i \in 1..m PROVE Founded(results[i], observed)
    OBVIOUS
  <2> DEFINE x == by[i]
  <2>1. results[i] = Result(x, {x}) /\ x \in observed
    BY <1>10, <1>11
  <2> HIDE DEF x
  <2>. QED  BY <2>1 DEF Result, Founded, IsResult
<1>15. results = [k \in DOMAIN results |-> results[k]]
  BY <1>11
<1>16. Grounded(results, observed)
  BY <1>2, <1>13, <1>14, <1>15 DEF Grounded
<1>. QED  BY <1>2, <1>12, <1>13, <1>16 DEF results

\* The items of an extraction that its attempts, one of each provider of the plan, handed
\* over are each observed once.
LEMMA ExtractSlotted ==
  ASSUME NEW payload, NEW attempts, NEW order, NEW selected, NEW n \in Nat, None \notin Provider,
         ~payload.research, DOMAIN payload.raw = 1..n, \A s \in 1..n : payload.raw[s].size \in Nat,
         order \in Seq(Provider), IsInjective(order),
         \A i \in DOMAIN attempts : i \in DOMAIN order /\ attempts[i].provider = order[i]
  PROVE  Slotted(Observations("extract", payload, attempts, selected), n)
<1> DEFINE raw      == payload.raw
           observed == Observations("extract", payload, attempts, selected)
           best     == Best(attempts, selected)
           slots(i) == Slots("extract", raw, attempts, best, i)
           served   == ServedAttempts(attempts)
           seen(s, i) == Observation(raw, s, slots(i), i, attempts[i].provider)
           one(s)     == Observation(raw, s, 1..n, best, selected)
<1>1. \A s \in 1..n : (IF raw[s].error THEN 0 ELSE raw[s].size) \in Nat
  OBVIOUS
<1>2. \A s \in 1..n : \A i : seen(s, i).slot = s /\ seen(s, i).text \in Nat
  BY <1>1 DEF Observation
<1>3. \A s \in 1..n : one(s).slot = s /\ one(s).text \in Nat
  BY <1>1 DEF Observation
<1>4. \A i : \A s \in slots(i) :
        /\ s \in 1..n
        /\ raw[s].provider = attempts[i].provider \/ (raw[s].provider = None /\ i = best)
  BY DEF Slots
<1>5. served \subseteq DOMAIN attempts
  BY DEF ServedAttempts
<1>6. \A i \in DOMAIN attempts : attempts[i].provider # None
  <2>1. \A i \in DOMAIN order : order[i] \in Provider
    OBVIOUS
  <2>. QED  BY <2>1
<1>7. \A i, j \in DOMAIN attempts : attempts[i].provider = attempts[j].provider => i = j
  BY DEF IsInjective
<1>8. \A i, j \in served : \A s : s \in slots(i) /\ s \in slots(j) => i = j
  <2> SUFFICES ASSUME NEW i \in served, NEW j \in served, NEW s, s \in slots(i), s \in slots(j) PROVE i = j
    OBVIOUS
  <2> HIDE DEF slots
  <2>1. raw[s].provider = attempts[i].provider \/ (raw[s].provider = None /\ i = best)
    BY <1>4
  <2>2. raw[s].provider = attempts[j].provider \/ (raw[s].provider = None /\ j = best)
    BY <1>4
  <2>3. i \in DOMAIN attempts /\ j \in DOMAIN attempts
    BY <1>5
  <2> HIDE DEF raw, best, served
  <2>. QED  BY <1>6, <1>7, <2>1, <2>2, <2>3
<1>9. \/ observed = UNION {{seen(s, i) : s \in slots(i)} : i \in served}
      \/ observed = {one(s) : s \in 1..n}
      \/ observed = {}
  BY DEF Observations
<1> HIDE DEF observed, seen, one, slots, served
<1>10. CASE observed = UNION {{seen(s, i) : s \in slots(i)} : i \in served}
  <2>1. \A o \in observed : \E i \in served : \E s \in slots(i) : o = seen(s, i)
    BY <1>10
  <2>2. ASSUME NEW o \in observed PROVE o.slot \in 1..n /\ o.text \in Nat
    <3>1. PICK i \in served : \E s \in slots(i) : o = seen(s, i)
      BY <2>1
    <3>2. PICK s \in slots(i) : o = seen(s, i)
      BY <3>1
    <3>. QED  BY <1>2, <1>4, <3>2
  <2>3. ASSUME NEW o \in observed, NEW q \in observed, o.slot = q.slot PROVE o = q
    <3>1. PICK i \in served : \E s \in slots(i) : o = seen(s, i)
      BY <2>1
    <3>2. PICK s \in slots(i) : o = seen(s, i)
      BY <3>1
    <3>3. PICK j \in served : \E t \in slots(j) : q = seen(t, j)
      BY <2>1
    <3>4. PICK t \in slots(j) : q = seen(t, j)
      BY <3>3
    <3>5. s = t
      BY <1>2, <1>4, <2>3, <3>2, <3>4
    <3>6. i = j
      BY <1>8, <3>5
    <3>. QED  BY <3>2, <3>4, <3>5, <3>6
  <2>. QED  BY <2>2, <2>3 DEF Slotted, observed
<1>11. CASE observed = {one(s) : s \in 1..n}
  <2>1. \A o \in observed : \E s \in 1..n : o = one(s)
    BY <1>11
  <2>2. \A o \in observed : o.slot \in 1..n /\ o.text \in Nat
    BY <1>3, <2>1
  <2>3. \A o, q \in observed : o.slot = q.slot => o = q
    BY <1>3, <2>1
  <2>. QED  BY <2>2, <2>3 DEF Slotted, observed
<1>12. CASE observed = {}
  BY <1>12 DEF Slotted, observed
<1>. QED  BY <1>9, <1>10, <1>11, <1>12

-----------------------------------------------------------------------------
(***************************************************************************)
(* What a plan allows                                                      *)
(***************************************************************************)
LEMMA SceneIs ==
  ASSUME scene \in Scenes
  PROVE  /\ scene.pre \in Preflights /\ scene.usual = scene.pre.usual /\ scene.order \in Seq(Provider) /\ scene.order # <<>>
         /\ scene.requests \subseteq RequestV3
         /\ MinContext \in Nat /\ MaxContext \in Nat /\ Sizes \subseteq Nat
         /\ None \notin Nat /\ None \notin Provider
BY ScenesAssumption

LEMMA CharsIs ==
  ASSUME scene \in Scenes, NEW r, req[r] \in RequestV3
  PROVE  /\ Chars(r) \in Nat
         /\ Within(r) /\ req[r].kind = "extract" /\ scene.pre.enabled /\ scene.pre.context # None =>
              Chars(r) <= scene.pre.context
<1> DEFINE pre   == scene.pre
           q     == req[r]
           asked == P!OrElse(q.context, scene.usual)
<1>1. /\ pre \in Preflights /\ scene.usual = pre.usual /\ MinContext \in Nat /\ MaxContext \in Nat
      /\ None \notin Nat
  BY SceneIs
<1>2. /\ pre.usual \in Nat /\ pre.context \in (MinContext..MaxContext) \cup {None}
      /\ q.context \in Nat \cup {None}
  <2>1. pre.usual \in MinContext..MaxContext /\ pre.context \in (MinContext..MaxContext) \cup {None}
    BY <1>1 DEF Preflights
  <2>2. q.context \in Nat \cup {None}
    BY DEF RequestV3
  <2>. QED  BY <1>1, <2>1, <2>2
<1>3. asked \in Nat /\ asked = IF q.context = None THEN pre.usual ELSE q.context
  BY <1>1, <1>2 DEF P!OrElse
<1>4. Chars(r) = IF asked < MinContext THEN MinContext
                 ELSE IF asked < MaxContext THEN asked ELSE MaxContext
  BY DEF Chars, P!Least
<1>5. ASSUME Within(r), q.kind = "extract", pre.enabled, pre.context # None
      PROVE  asked <= pre.context /\ pre.context \in Nat /\ MinContext <= pre.context
  <2>1. P!Context(q, pre.usual) <= pre.context
    BY <1>5 DEF Within
  <2>2. P!Context(q, pre.usual) = asked
    BY <1>1, <1>5 DEF P!Context
  <2>. QED  BY <1>1, <1>2, <1>5, <2>1, <2>2
<1> HIDE DEF asked, pre, q
<1>6. Chars(r) \in Nat
  BY <1>1, <1>3, <1>4
<1>7. ASSUME Within(r), q.kind = "extract", pre.enabled, pre.context # None PROVE Chars(r) <= pre.context
  BY <1>1, <1>3, <1>4, <1>5, <1>7
<1>. QED  BY <1>6, <1>7 DEF pre, q

LEMMA FinalFits ==
  ASSUME scene \in Scenes, NEW r, req[r].kind = "extract", req[r] \in RequestV3,
         plan[r].order \in Seq(Provider), RunSized(r), NEW storable, ValidResponse(Final(r, storable))
  PROVE  Total(TextsOf(Final(r, storable).results)) \in 0..Chars(r)
<1> DEFINE payload  == run[r].payload
           attempts == run[r].attempts
           order    == plan[r].order
           observed == Observations("extract", payload, attempts, Selected(payload))
           results  == ExtractResults(observed)
           built    == Built("extract", payload, attempts, order)
           told     == Evidenced(built, verdict[r])
           done     == Complete(told)
           chars    == Chars(r)
           omitted  == Omitted(r)
           rs       == Bounded(done, chars, omitted, storable)
           final    == Final(r, storable)
<1>1. final = [rs EXCEPT !.cache = IF req[r].cache = "bypass" THEN "bypassed" ELSE @]
  BY DEF Final, Finalized
<1>2. IsInjective(order)
  <2>1. final.receipt.order = order /\ final.receipt.completed = TRUE
    BY FinalIs
  <2> HIDE DEF final
  <2>2. ValidReceipt(final.receipt, final.attempts)
    BY DEF ValidResponse, final
  <2>. QED  BY <2>1, <2>2 DEF ValidReceipt
<1>3. Slotted(observed, Len(payload.raw)) /\ Len(payload.raw) \in Nat
  <2> DEFINE n == Len(payload.raw)
  <2>1. payload.raw \in Seq(Range(payload.raw))
    BY DEF RunSized
  <2>2. n \in Nat /\ DOMAIN payload.raw = 1..n
    <3> DEFINE raw == payload.raw
               T   == Range(raw)
    <3>1. raw \in Seq(T)
      BY <2>1
    <3> HIDE DEF raw, T
    <3>2. Len(raw) \in Nat /\ DOMAIN raw = 1..Len(raw)
      BY <3>1
    <3>. QED  BY <3>2 DEF raw
  <2>3. /\ ~payload.research /\ \A s \in DOMAIN payload.raw : payload.raw[s].size \in Nat
        /\ \A i \in DOMAIN attempts : i \in DOMAIN order /\ attempts[i].provider = order[i]
    BY DEF RunSized
  <2>4. None \notin Provider
    BY SceneIs
  <2> HIDE DEF n, payload, attempts, order
  <2>5. Slotted(observed, n)
    BY <1>2, <2>2, <2>3, <2>4, ExtractSlotted DEF order
  <2>. QED  BY <2>2, <2>5 DEF n, payload
<1>4. IsResponse(built) /\ built.results = results
  <2> HIDE DEF built, order, attempts
  <2>1. /\ IsResponse(built)
        /\ built.results = ExtractResults(Observations("extract", payload, attempts,
                                                       IF payload.research THEN None ELSE payload.provider))
    BY BuiltIs DEF built
  <2>. QED  BY <2>1 DEF Selected
<1>5. chars \in Nat
  BY CharsIs
<1> HIDE DEF payload, attempts, order, built, chars, omitted, observed
<1>6. PICK m \in Nat : DOMAIN results = 1..m /\ \A i \in 1..m : IsResult(results[i]) /\ results[i].text \in Nat
  BY <1>3, SlotsListed
<1> HIDE DEF results
<1>7. IsResponse(told) /\ told.results = results
  BY <1>4, EvidencedKeeps
<1> HIDE DEF told
<1>8. IsResponse(done) /\ done.results = results
  BY <1>7, CompleteKeeps
<1> HIDE DEF done
<1>9. Total(TextsOf(rs.results)) \in 0..chars
  BY <1>5, <1>6, <1>8, BoundedFits
<1>10. IsResponse(rs)
  BY <1>8, BoundedKeeps
<1> HIDE DEF rs, final
<1>11. final.results = rs.results
  BY <1>1, <1>10 DEF IsResponse
<1>. QED  BY <1>9, <1>11 DEF final, chars

-----------------------------------------------------------------------------
(***************************************************************************)
(* What an execution costs                                                 *)
(***************************************************************************)
\* A unit for each call sent, of those the request may spend.
Costs(o, order, units) ==
  \E f, kinds : DOMAIN f = DOMAIN order /\ o.calls = Cardinality(Of(f, kinds)) /\ Affordable(f, kinds, units)

LEMMA SearchCosts == ASSUME NEW r, NEW o \in SearchRuns(r) PROVE Costs(o, plan[r].order, Units(r))
<1> DEFINE order == plan[r].order
           ok(f) ==
             LET won == Of(f, {"answered"})
             IN /\ Cardinality(won) <= 1
                /\ won = {} => Of(f, {"superseded", "policy_excluded"}) = {}
                /\ won # {} => Of(f, {"late"}) = {}
                /\ Affordable(f, Sent, Units(r))
           said(f, w) == IF w = 1 THEN "none" ELSE IF f[1] = "empty" THEN "insufficient_results" ELSE "selected_failed"
           best(f) == IF Of(f, {"answered"}) # {} THEN Of(f, {"answered"}) ELSE Of(f, {"empty"})
           won(f)  == Min(best(f))
           one(f, pages) ==
             LET w == won(f)
             IN [Payload("search", order[w], Listed(order[w], pages), Listed(order[w], pages)) EXCEPT
                    !.superseded = {order[i] : i \in Of(f, {"superseded"})}, !.fallback = said(f, w)]
           listed(f) == IF f[won(f)] = "answered" THEN Pages(order[won(f)]) ELSE {<<>>}
           handed(f) == IF best(f) = {} THEN {Nothing("search", plan[r].first, <<>>)}
                        ELSE {one(f, pages) : pages \in listed(f)}
           able == {g \in Fates(order, Sent \cup {"circuit_open", "budget_blocked", "deadline_exceeded", "policy_excluded"}) :
                      ok(g)}
           out(f, h) == [payload |-> h, attempts |-> Attempts(order, f), calls |-> Cardinality(Of(f, Sent))]
<1>1. SearchRuns(r) = UNION {{out(f, h) : h \in handed(f)} : f \in able}
  BY DEF SearchRuns
<1>2. \A f, h : out(f, h).calls = Cardinality(Of(f, Sent))
  <2> HIDE DEF order
  <2>. QED  OBVIOUS
<1>3. \A f \in able : DOMAIN f = DOMAIN order /\ Affordable(f, Sent, Units(r))
  BY DEF Fates
<1> HIDE DEF handed, able, out
<1>4. PICK f \in able : \E h \in handed(f) : o = out(f, h)
  BY <1>1
<1>. QED  BY <1>2, <1>3, <1>4 DEF Costs

LEMMA ResearchCosts == ASSUME NEW r, NEW o \in ResearchRuns(r) PROVE Costs(o, plan[r].order, Units(r))
<1> DEFINE order == plan[r].order
           listed(p) == Listed(p, CHOOSE pages \in Pages(p) : TRUE)
           raw(f)   == Joined([i \in DOMAIN order |-> IF f[i] = "answered" THEN listed(order[i]) ELSE <<>>])
           first(s) == {i \in DOMAIN s : \A j \in 1..(i - 1) : Canon[s[j].url] # Canon[s[i].url]}
           handed(f, short) ==
             IF raw(f) = <<>> THEN Nothing("research", plan[r].first, <<>>)
             ELSE [Payload("research", plan[r].first, At(raw(f), first(raw(f))), raw(f)) EXCEPT !.limited = short]
           out(f, short) == [payload |-> handed(f, short), attempts |-> Attempts(order, f), calls |-> Cardinality(Of(f, Sent))]
           able == {g \in Fates(order, {"answered", "failed", "late", "circuit_open", "budget_blocked", "deadline_exceeded"}) :
                      Affordable(g, Sent, Units(r))}
<1>1. ResearchRuns(r) = UNION {{out(f, short) : short \in BOOLEAN} : f \in able}
  BY DEF ResearchRuns
<1>2. \A f, short : out(f, short).calls = Cardinality(Of(f, Sent))
  OBVIOUS
<1>3. \A f \in able : DOMAIN f = DOMAIN order /\ Affordable(f, Sent, Units(r))
  BY DEF Fates
<1> HIDE DEF handed, able, out, raw, first, listed
<1>4. PICK f \in able, short \in BOOLEAN : o = out(f, short)
  BY <1>1
<1>5. o.calls = Cardinality(Of(f, Sent)) /\ DOMAIN f = DOMAIN order /\ Affordable(f, Sent, Units(r))
  BY <1>2, <1>3, <1>4
<1> HIDE DEF order
<1>6. Costs(o, order, Units(r))
  BY <1>5 DEF Costs
<1>. QED  BY <1>6 DEF order

LEMMA ExtractCosts == ASSUME NEW r, NEW o \in ExtractRuns(r) PROVE Costs(o, plan[r].order, Units(r))
<1> DEFINE order   == plan[r].order
           urls    == Processed(r)
           givers == [DOMAIN urls -> DOMAIN order \cup {-i : i \in DOMAIN order} \cup {0, Len(order) + 1}]
           serving(by) == {by[u] : u \in DOMAIN urls} \cap DOMAIN order
           closing(by) == {-by[u] : u \in DOMAIN urls} \cap DOMAIN order
           asked(by, i) == {u \in DOMAIN urls : by[u] = 0 \/ {by[u], -by[u]} \cap (i..Len(order)) # {}}
           fits(by, f) ==
             /\ \A i \in DOMAIN order :
                  /\ asked(by, i) = {} <=> f[i] = "policy_excluded"
                  /\ i \in serving(by) <=> f[i] \in {"answered", "cut"}
                  /\ i \in closing(by) => f[i] \in {"answered", "cut", "failed"}
             /\ Affordable(f, Sent \cup {"cut"}, Units(r))
           item(by, u, size) ==
             IF by[u] \in serving(by)
             THEN Item(urls[u], IF Cardinality(serving(by)) > 1 THEN order[by[u]] ELSE None, size)
             ELSE Miss(urls[u])
           listed(by, size) == [u \in DOMAIN urls |-> item(by, u, size)]
           refused(by) == \A u \in DOMAIN urls : by[u] = Len(order) + 1
           handed(by, f, size) ==
             LET items == listed(by, size)
                 last  == Max(serving(by))
             IN IF \A u \in DOMAIN urls : by[u] = Len(order) + 1 THEN Nothing("extract", plan[r].first, <<>>)
                ELSE IF serving(by) = {} THEN Nothing("extract", plan[r].first, items)
                ELSE [Payload("extract", order[last], items, items) EXCEPT
                        !.fallback = IF last = 1 THEN "none" ELSE "selected_failed"]
           fates == {"answered", "cut", "failed", "circuit_open", "budget_blocked", "deadline_exceeded",
                     "policy_excluded"}
           out(by, f, size) ==
             [payload |-> handed(by, f, size),
              attempts |-> IF refused(by) THEN <<>> ELSE Attempts(order, f),
              calls |-> Cardinality(Of(f, Sent \cup {"cut"}))]
           able   == Fates(order, fates)
<1>1. ExtractRuns(r) = UNION {UNION {{out(by, f, size) : size \in Sizes} : f \in {g \in able : fits(by, g)}} :
                               by \in givers}
  BY DEF ExtractRuns
<1>2. \E by \in givers : \E f \in able : \E size \in Sizes : fits(by, f) /\ o = out(by, f, size)
  <2> HIDE DEF out, fits, able, givers
  <2>. QED  BY <1>1
<1>3. \A by, f, size : out(by, f, size).calls = Cardinality(Of(f, Sent \cup {"cut"}))
  <2> HIDE DEF handed, refused, order
  <2>. QED  OBVIOUS
<1>4. \A by, f : fits(by, f) => Affordable(f, Sent \cup {"cut"}, Units(r))
  OBVIOUS
<1>5. \A f \in able : DOMAIN f = DOMAIN order
  BY DEF Fates
<1> HIDE DEF out, fits, givers, able
<1>. QED  BY <1>2, <1>3, <1>4, <1>5 DEF Costs

LEMMA RunCosts ==
  ASSUME NEW r, req[r].kind \in {"search", "research", "extract"}, NEW o \in Runs(r)
  PROVE  Costs(o, plan[r].order, Units(r))
BY SearchCosts, ResearchCosts, ExtractCosts DEF Runs

\* No more than a call to each provider of the plan, and than there are units.
LEMMA CostsFew ==
  ASSUME NEW order \in Seq(Provider), NEW units \in Nat, NEW o, Costs(o, order, units)
  PROVE  o.calls \in Nat /\ o.calls <= units /\ o.calls <= Len(order)
<1>1. PICK f, kinds : /\ DOMAIN f = DOMAIN order /\ o.calls = Cardinality(Of(f, kinds))
                      /\ Affordable(f, kinds, units)
  BY DEF Costs
<1> DEFINE D == 1..Len(order)
           T == Of(f, kinds)
<1>2. T \in SUBSET D /\ Len(order) \in Nat
  BY <1>1 DEF Of
<1>3. IsFiniteSet(D) /\ Cardinality(D) = Len(order)
  <2>1. \A n \in Nat : IsFiniteSet(1..n) /\ Cardinality(1..n) = n
    BY FS_Interval
  <2>. QED  BY <1>2, <2>1
<1> HIDE DEF T, D
<1>4. IsFiniteSet(T) /\ Cardinality(T) <= Cardinality(D)
  BY <1>2, <1>3, FS_Subset
<1>5. Cardinality(T) \in Nat
  BY <1>4, FS_CardinalityType
<1>6. Cardinality(T) <= units
  BY <1>1 DEF Affordable, T
<1>. QED  BY <1>1, <1>3, <1>4, <1>5, <1>6 DEF T

\* What the ledger holds.
Used == IF ledger = None THEN 0 ELSE ledger
Ledgered ==
  /\ ledger \in Nat \cup {None}
  /\ scene.pre.enabled /\ scene.pre.daily # None => Used <= scene.pre.daily

LEMMA UnitsAre ==
  ASSUME scene \in Scenes, NEW r, req[r] \in RequestV3, Ledgered
  PROVE  /\ Units(r) \in Nat
         /\ req[r].calls # None => Units(r) <= req[r].calls
         /\ scene.pre.enabled /\ scene.pre.daily # None => Units(r) + Used <= scene.pre.daily
<1> DEFINE pre   == scene.pre
           calls == req[r].calls
           own   == P!OrElse(calls, 2)
           left  == IF ledger = None THEN pre.daily ELSE pre.daily - P!Least(ledger, pre.daily)
<1>1. /\ calls \in Nat \cup {None} /\ None \notin Nat /\ pre.daily \in Nat \cup {None}
      /\ ledger \in Nat \cup {None}
  <2>1. calls \in Nat \cup {None}
    BY DEF RequestV3
  <2>2. pre \in Preflights /\ None \notin Nat
    BY SceneIs
  <2>3. pre.daily \in Nat \cup {None}
    BY <2>2 DEF Preflights, Limit
  <2>. QED  BY <2>1, <2>2, <2>3 DEF Ledgered
<1>2. own \in Nat /\ (calls # None => own = calls)
  BY <1>1 DEF P!OrElse
<1>3. Units(r) = IF ~pre.enabled \/ pre.daily = None THEN own ELSE P!Least(own, left)
  BY DEF Units
<1>4. CASE ~(pre.enabled /\ pre.daily # None)
  BY <1>2, <1>3, <1>4
<1>5. CASE pre.enabled /\ pre.daily # None
  <2>1. pre.daily \in Nat /\ Used \in Nat /\ Used <= pre.daily
    BY <1>1, <1>5 DEF Ledgered, Used
  <2>2. left = pre.daily - Used
    <3>1. CASE ledger = None
      BY <2>1, <3>1 DEF Used
    <3>2. CASE ledger # None
      <4>1. Used = ledger
        BY <3>2 DEF Used
      <4>2. P!Least(ledger, pre.daily) = ledger
        BY <2>1, <4>1 DEF P!Least
      <4>. QED  BY <3>2, <4>1, <4>2
    <3>. QED  BY <3>1, <3>2
  <2>3. Units(r) = IF own < left THEN own ELSE left
    BY <1>3, <1>5 DEF P!Least
  <2> HIDE DEF left, own, pre, calls
  <2>4. Units(r) \in Nat /\ Units(r) <= own /\ Units(r) + Used <= pre.daily
    BY <1>2, <2>1, <2>2, <2>3
  <2>. QED  BY <1>2, <2>4 DEF pre, calls
<1>. QED  BY <1>4, <1>5

LEMMA ExtractSizes ==
  ASSUME scene \in Scenes, NEW r \in Requests, req[r].urls \in Seq(Url), req[r].kind = "extract", NEW o \in ExtractRuns(r), o = run'[r],
         UNCHANGED <<scene, req, plan>>
  PROVE  RunSized(r)'
<1> DEFINE order   == plan[r].order
           urls    == Processed(r)
           givers == [DOMAIN urls -> DOMAIN order \cup {-i : i \in DOMAIN order} \cup {0, Len(order) + 1}]
           serving(by) == {by[u] : u \in DOMAIN urls} \cap DOMAIN order
           closing(by) == {-by[u] : u \in DOMAIN urls} \cap DOMAIN order
           asked(by, i) == {u \in DOMAIN urls : by[u] = 0 \/ {by[u], -by[u]} \cap (i..Len(order)) # {}}
           fits(by, f) ==
             /\ \A i \in DOMAIN order :
                  /\ asked(by, i) = {} <=> f[i] = "policy_excluded"
                  /\ i \in serving(by) <=> f[i] \in {"answered", "cut"}
                  /\ i \in closing(by) => f[i] \in {"answered", "cut", "failed"}
             /\ Affordable(f, Sent \cup {"cut"}, Units(r))
           item(by, u, size) ==
             IF by[u] \in serving(by)
             THEN Item(urls[u], IF Cardinality(serving(by)) > 1 THEN order[by[u]] ELSE None, size)
             ELSE Miss(urls[u])
           listed(by, size) == [u \in DOMAIN urls |-> item(by, u, size)]
           refused(by) == \A u \in DOMAIN urls : by[u] = Len(order) + 1
           handed(by, f, size) ==
             LET items == listed(by, size)
                 last  == Max(serving(by))
             IN IF \A u \in DOMAIN urls : by[u] = Len(order) + 1 THEN Nothing("extract", plan[r].first, <<>>)
                ELSE IF serving(by) = {} THEN Nothing("extract", plan[r].first, items)
                ELSE [Payload("extract", order[last], items, items) EXCEPT
                        !.fallback = IF last = 1 THEN "none" ELSE "selected_failed"]
           fates == {"answered", "cut", "failed", "circuit_open", "budget_blocked", "deadline_exceeded",
                     "policy_excluded"}
           out(by, f, size) ==
             [payload |-> handed(by, f, size),
              attempts |-> IF refused(by) THEN <<>> ELSE Attempts(order, f),
              calls |-> Cardinality(Of(f, Sent \cup {"cut"}))]
           able   == Fates(order, fates)
<1>1. ExtractRuns(r) = UNION {UNION {{out(by, f, size) : size \in Sizes} : f \in {g \in able : fits(by, g)}} :
                               by \in givers}
  BY DEF ExtractRuns
<1>2. \E by \in givers : \E f \in able : \E size \in Sizes : fits(by, f) /\ o = out(by, f, size)
  <2> HIDE DEF out, fits, able, givers
  <2>. QED  BY <1>1
<1>3. PICK by \in givers, f \in able, size \in Sizes : fits(by, f) /\ o = out(by, f, size)
  BY <1>2
<1> DEFINE items == listed(by, size)
           given == o.payload
           attempts == o.attempts
<1>4. given = handed(by, f, size) /\ attempts = IF refused(by) THEN <<>> ELSE Attempts(order, f)
  <2> HIDE DEF handed, refused, order
  <2>. QED  BY <1>3
<1>5. /\ ~given.research /\ given.raw = given.items
      /\ given.items = IF refused(by) THEN <<>> ELSE items
  <2> HIDE DEF listed, serving, order, urls
  <2>1. given = handed(by, f, size)
    BY <1>4
  <2> DEFINE same(x) == ~x.research /\ x.raw = x.items
  <2>2. \A p, y : LET x == Payload("extract", p, y, y) IN same(x) /\ x.items = y
    BY DEF Payload
  <2>3. \A p, y : LET x == Nothing("extract", p, y) IN same(x) /\ x.items = y
    BY DEF Nothing, Payload
  <2>4. \A p, y, z : LET x == [Payload("extract", p, y, y) EXCEPT !.fallback = z] IN same(x) /\ x.items = y
    BY DEF Payload
  <2>5. CASE refused(by)
    <3>1. given = Nothing("extract", plan[r].first, <<>>)
      BY <2>1, <2>5
    <3>. QED  BY <3>1, <2>3, <2>5
  <2>6. CASE ~refused(by) /\ serving(by) = {}
    <3>1. given = Nothing("extract", plan[r].first, items)
      BY <2>1, <2>6
    <3>. QED  BY <3>1, <2>3, <2>6
  <2>7. CASE ~refused(by) /\ serving(by) # {}
    <3> DEFINE p == order[Max(serving(by))]
               z == IF Max(serving(by)) = 1 THEN "none" ELSE "selected_failed"
    <3>1. given = [Payload("extract", p, items, items) EXCEPT !.fallback = z]
      BY <2>1, <2>7
    <3> HIDE DEF p, z, items, given
    <3>. QED  BY <3>1, <2>4, <2>7
  <2>. QED  BY <2>5, <2>6, <2>7
<1>6. PICK n \in Nat : DOMAIN urls = 1..n
  BY FirstOf DEF Processed, Allowed
<1>7. \A u \in DOMAIN urls : item(by, u, size).size \in Nat
  <2>1. size \in Nat
    BY SceneIs
  <2>2. \A p, u : Item(u, p, size).size = size /\ Miss(u).size = 0
    BY DEF Item, Miss
  <2> HIDE DEF serving, urls, order
  <2>. QED  BY <2>1, <2>2
<1>8. given.raw \in Seq(Range(given.raw)) /\ \A s \in DOMAIN given.raw : given.raw[s].size \in Nat
  <2>1. CASE refused(by)
    <3>1. given.raw = <<>>
      BY <1>5, <2>1
    <3> HIDE DEF given
    <3>. QED  BY <3>1
  <2>2. CASE ~refused(by)
    <3> DEFINE raw == given.raw
               T   == Range(raw)
    <3>1. raw = items
      BY <1>5, <2>2
    <3> HIDE DEF raw, item, urls
    <3>2. raw = [u \in 1..n |-> item(by, u, size)]
      BY <1>6, <3>1
    <3>3. \A u \in 1..n : raw[u] = item(by, u, size) /\ raw[u] \in T
      BY <3>2 DEF Range
    <3> HIDE DEF T
    <3>4. raw \in Seq(T)
      BY <3>2, <3>3
    <3>5. \A s \in DOMAIN raw : raw[s].size \in Nat
      BY <1>6, <1>7, <3>2, <3>3
    <3>. QED  BY <3>4, <3>5 DEF raw, T
  <2>. QED  BY <2>1, <2>2
<1>9. \A i \in DOMAIN attempts : i \in DOMAIN order /\ attempts[i].provider = order[i]
  <2>1. CASE refused(by)
    <3>1. attempts = <<>>
      <4> HIDE DEF refused, attempts, order
      <4>. QED  BY <1>4, <2>1
    <3> HIDE DEF attempts
    <3>. QED  BY <3>1
  <2>2. CASE ~refused(by)
    <3>1. attempts = Attempts(order, f)
      <4> HIDE DEF refused, order, attempts
      <4>. QED  BY <1>4, <2>2
    <3> HIDE DEF attempts
    <3>. QED  BY <3>1, AttemptIs DEF Attempts
  <2>. QED  BY <2>1, <2>2
<1>10. run'[r].payload = given /\ run'[r].attempts = attempts /\ req' = req /\ plan' = plan
  OBVIOUS
<1> HIDE DEF given, attempts
<1>. QED  BY <1>5, <1>8, <1>9, <1>10 DEF RunSized, order

-----------------------------------------------------------------------------
(***************************************************************************)
(* What the preflight lets through                                         *)
(***************************************************************************)
\* What Within says of a request and its plan.
Fitting(pre, q, order) ==
  /\ pre.calls # None => P!PlannedCalls(q, order) <= pre.calls
  /\ pre.timeout # None => P!Timeout(q) # None /\ P!Timeout(q) <= pre.timeout
  /\ pre.context # None => P!Context(q, pre.usual) <= pre.context

\* What a decision makes of the four limits of a request.
Lowered(q, new, calls, timeout, context) ==
  /\ new \in RequestV3 /\ new.kind = q.kind
  /\ new.calls = P!Lower(q.calls, calls) /\ new.wall = P!Lower(q.wall, timeout)
  /\ new.span = IF q.kind = "research" THEN P!Lower(q.span, timeout) ELSE q.span
  /\ new.context = P!Lower(q.context, context)

LEMMA LowerIs ==
  ASSUME None \notin Nat, NEW v \in Nat \cup {None}, NEW limit \in Nat \cup {None}
  PROVE  /\ P!Lower(v, limit) \in Nat \cup {None}
         /\ limit = None => P!Lower(v, limit) = v
         /\ limit # None => P!Lower(v, limit) \in Nat /\ P!Lower(v, limit) <= limit
         /\ v # None => P!Lower(v, limit) \in Nat
BY DEF P!Lower, P!Least, P!OrElse

\* A value lowered to a limit: the value itself when there is no limit.
LowersTo(r, v, limit) ==
  /\ limit = None => r = v
  /\ limit # None => r \in Nat /\ r <= limit

LEMMA LowersAll ==
  ASSUME None \notin Nat
  PROVE  \A v, limit \in Nat \cup {None} : LowersTo(P!Lower(v, limit), v, limit)
<1>. TAKE v, limit \in Nat \cup {None}
<1>. QED  BY LowerIs DEF LowersTo

LEMMA ReducedIs ==
  ASSUME None \notin Nat, NEW q \in RequestV3, NEW d,
         d.calls \in Nat \cup {None}, d.timeout \in Nat \cup {None}, d.context \in Nat \cup {None}
  PROVE  Lowered(q, P!Reduced(q, d), d.calls, d.timeout, d.context)
<1> DEFINE calls   == P!Lower(q.calls, d.calls)
           wall    == P!Lower(q.wall, d.timeout)
           span    == IF q.kind = "research" THEN P!Lower(q.span, d.timeout) ELSE q.span
           context == P!Lower(q.context, d.context)
           new     == P!Reduced(q, d)
<1>1. new = [q EXCEPT !.calls = calls, !.wall = wall, !.span = span, !.context = context]
  BY DEF P!Reduced, RequestV3
<1>2. q.calls \in Nat \cup {None} /\ q.wall \in Nat \cup {None} /\ q.span \in Nat /\ q.context \in Nat \cup {None}
  BY DEF RequestV3
<1>3. calls \in Nat \cup {None} /\ wall \in Nat \cup {None} /\ span \in Nat /\ context \in Nat \cup {None}
  <2>1. calls \in Nat \cup {None} /\ wall \in Nat \cup {None} /\ context \in Nat \cup {None}
    BY <1>2, LowerIs
  <2>2. P!Lower(q.span, d.timeout) \in Nat
    BY <1>2, LowerIs
  <2>. QED  BY <1>2, <2>1, <2>2
<1> HIDE DEF calls, wall, span, context, new
<1>4. new \in RequestV3
  BY <1>1, <1>3 DEF RequestV3
<1>5. new.kind = q.kind /\ new.calls = calls /\ new.wall = wall /\ new.span = span /\ new.context = context
  BY <1>1 DEF RequestV3
<1>. QED  BY <1>4, <1>5 DEF Lowered, calls, wall, span, context, new

\* A decision that is no refusal.
LEMMA DecisionIs ==
  ASSUME NEW pre, NEW q, NEW order, NEW units, P!Decide(pre, q, order, units).action # "abort"
  PROVE  LET d       == P!Decide(pre, q, order, units)
             failed  == P!Checks(pre, q, order, units)
             planned == P!PlannedCalls(q, order)
             allowed == P!AllowedCalls(pre, planned, units)
         IN \/ /\ ~pre.enabled \/ failed = {}
               /\ d.calls = None /\ d.timeout = None /\ d.context = None
            \/ /\ allowed # {}
               /\ d.calls   = IF Max(allowed) < planned THEN Max(allowed) ELSE None
               /\ d.timeout = IF "timeout" \in failed THEN pre.timeout ELSE None
               /\ d.context = IF "context" \in failed THEN pre.context ELSE None
<1> DEFINE d       == P!Decide(pre, q, order, units)
           failed  == P!Checks(pre, q, order, units)
           planned == P!PlannedCalls(q, order)
           allowed == P!AllowedCalls(pre, planned, units)
           calls   == IF P!Max(allowed) < planned THEN P!Max(allowed) ELSE None
           timeout == IF "timeout" \in failed THEN pre.timeout ELSE None
           context == IF "context" \in failed THEN pre.context ELSE None
           cut     == [P!Proceed EXCEPT !.action = "degrade", !.calls = calls, !.timeout = timeout, !.context = context]
<1>1. \A reason : P!Abort(reason).action = "abort"
  BY DEF P!Abort, P!Proceed
<1>2. \/ d = P!Proceed /\ (~pre.enabled \/ failed = {})
      \/ d = cut /\ allowed # {}
      \/ \E reason : d = P!Abort(reason)
  BY DEF P!Decide, P!Proceed
<1>3. P!Max(allowed) = Max(allowed)
  BY DEF P!Max, Max
<1> HIDE DEF calls, timeout, context, d, allowed, failed
<1>4. cut.calls = calls /\ cut.timeout = timeout /\ cut.context = context
  BY DEF P!Proceed
<1> HIDE DEF cut
<1>5. CASE d = P!Proceed /\ (~pre.enabled \/ failed = {})
  BY <1>5 DEF P!Proceed, d, failed
<1>6. CASE d = cut /\ allowed # {}
  BY <1>3, <1>4, <1>6 DEF d, calls, timeout, context, allowed, failed
<1>7. d.action # "abort"
  BY DEF d
<1>. QED  BY <1>1, <1>2, <1>5, <1>6, <1>7

\* The checks that do not fail hold.
LEMMA CheckedIs ==
  ASSUME NEW pre \in Preflights, None \notin Nat, NEW q, NEW order, NEW units
  PROVE  LET failed == P!Checks(pre, q, order, units) IN
         /\ "calls" \notin failed => ~P!Exceeded(pre.calls, P!PlannedCalls(q, order))
         /\ "timeout" \notin failed => ~P!Exceeded(pre.timeout, P!Timeout(q))
         /\ "context" \notin failed => ~P!Exceeded(pre.context, P!Context(q, pre.usual))
         /\ "timeout" \in failed => pre.timeout # None
         /\ "context" \in failed => pre.context # None
<1> DEFINE daily == IF units = None THEN IF pre.daily = None THEN P!PlannedCalls(q, order) ELSE None
                    ELSE P!PlannedCalls(q, order) + units
           asked == [calls |-> P!PlannedCalls(q, order), daily |-> daily, timeout |-> P!Timeout(q),
                     context |-> P!Context(q, pre.usual)]
           failed == P!Checks(pre, q, order, units)
<1>1. failed = {c \in {"calls", "daily", "timeout", "context"} : P!Exceeded(pre[c], asked[c])}
  BY DEF P!Checks
<1>2. /\ asked["calls"] = P!PlannedCalls(q, order) /\ asked["timeout"] = P!Timeout(q)
      /\ asked["context"] = P!Context(q, pre.usual)
  OBVIOUS
<1>3. pre["calls"] = pre.calls /\ pre["timeout"] = pre.timeout /\ pre["context"] = pre.context
  OBVIOUS
<1> HIDE DEF asked, failed
<1>4. \A c \in {"calls", "timeout", "context"} : c \in failed <=> P!Exceeded(pre[c], asked[c])
  BY <1>1
<1>5. "calls" \in failed <=> P!Exceeded(pre.calls, P!PlannedCalls(q, order))
  BY <1>2, <1>3, <1>4
<1>6. "timeout" \in failed <=> P!Exceeded(pre.timeout, P!Timeout(q))
  BY <1>2, <1>3, <1>4
<1>7. "context" \in failed <=> P!Exceeded(pre.context, P!Context(q, pre.usual))
  BY <1>2, <1>3, <1>4
<1>8. \A limit, v : P!Exceeded(limit, v) => limit # None
  BY DEF P!Exceeded
<1>. QED  BY <1>5, <1>6, <1>7, <1>8 DEF failed

LEMMA PlannedIs ==
  ASSUME NEW q \in RequestV3, NEW order \in Seq(Provider), None \notin Nat
  PROVE  /\ P!PlannedCalls(q, order) \in Nat /\ P!PlannedCalls(q, order) <= Len(order)
         /\ q.calls # None => P!PlannedCalls(q, order) <= q.calls
         /\ q.calls = None => P!PlannedCalls(q, order) = Len(order)
<1>1. q.calls \in Nat \cup {None} /\ Len(order) \in Nat
  BY DEF RequestV3
<1> DEFINE n == Len(order)
           calls == q.calls
<1>2. P!PlannedCalls(q, order) = IF n < (IF calls = None THEN n ELSE calls) THEN n
                                 ELSE (IF calls = None THEN n ELSE calls)
  BY DEF P!PlannedCalls, P!Least, P!OrElse
<1> HIDE DEF n, calls
<1>3. n \in Nat /\ calls \in Nat \cup {None}
  BY <1>1 DEF n, calls
<1>4. CASE calls = None
  BY <1>2, <1>3, <1>4 DEF n, calls
<1>5. CASE calls # None
  BY <1>2, <1>3, <1>5 DEF n, calls
<1>. QED  BY <1>4, <1>5

\* A request that is let through, as it is or reduced, is within the limits.
LEMMA PreflightFits ==
  ASSUME scene \in Scenes, NEW q \in RequestV3, NEW order \in Seq(Provider), NEW units,
         P!Decide(scene.pre, q, order, units).action # "abort"
  PROVE  LET d    == P!Decide(scene.pre, q, order, units)
             less == P!Reduced(q, d)
             kept == P!ReducedOrder(order, d)
         IN less \in RequestV3 /\ kept \in Seq(Provider) /\ (scene.pre.enabled => Fitting(scene.pre, less, kept))
<1> DEFINE pre     == scene.pre
           d       == P!Decide(pre, q, order, units)
           failed  == P!Checks(pre, q, order, units)
           planned == P!PlannedCalls(q, order)
           allowed == P!AllowedCalls(pre, planned, units)
           most    == Max(allowed)
           less    == P!Reduced(q, d)
           kept    == P!ReducedOrder(order, d)
<1>1. pre \in Preflights /\ None \notin Nat
  BY SceneIs
<1>2. /\ pre.calls \in Nat \cup {None} /\ pre.timeout \in Nat \cup {None} /\ pre.context \in Nat \cup {None}
      /\ pre.usual \in Nat
  <2>1. /\ pre.calls \in Nat \cup {None} /\ pre.timeout \in Nat \cup {None}
        /\ pre.context \in (MinContext..MaxContext) \cup {None} /\ pre.usual \in MinContext..MaxContext
    BY <1>1 DEF Preflights, Limit
  <2>2. MinContext \in Nat /\ MaxContext \in Nat
    BY SceneIs
  <2>. QED  BY <2>1, <2>2
<1>3. planned \in Nat /\ planned <= Len(order)
  BY <1>1, PlannedIs
<1>4. ASSUME allowed # {} PROVE most \in 1..planned /\ P!Fits(pre, most, units)
  <2>1. \A n \in allowed : n \in 1..planned /\ P!Fits(pre, n, units)
    BY DEF P!AllowedCalls
  <2>2. IsFiniteSet(allowed) /\ allowed \subseteq Nat
    <3>1. \A n \in Nat : IsFiniteSet(1..n)
      BY FS_Interval
    <3>2. IsFiniteSet(1..planned)
      BY <1>3, <3>1
    <3>3. allowed \subseteq 1..planned /\ 1..planned \subseteq Nat
      BY <1>3, <2>1
    <3>. QED  BY <3>2, <3>3, FS_Subset
  <2> HIDE DEF allowed, planned
  <2>3. most \in allowed
    BY <1>4, <2>2, LargestOf
  <2>. QED  BY <2>1, <2>3
<1>5. \/ /\ ~pre.enabled \/ failed = {}
         /\ d.calls = None /\ d.timeout = None /\ d.context = None
      \/ /\ allowed # {}
         /\ d.calls   = IF most < planned THEN most ELSE None
         /\ d.timeout = IF "timeout" \in failed THEN pre.timeout ELSE None
         /\ d.context = IF "context" \in failed THEN pre.context ELSE None
  BY DecisionIs
<1>6. /\ "calls" \notin failed => ~P!Exceeded(pre.calls, planned)
      /\ "timeout" \notin failed => ~P!Exceeded(pre.timeout, P!Timeout(q))
      /\ "context" \notin failed => ~P!Exceeded(pre.context, P!Context(q, pre.usual))
      /\ "timeout" \in failed => pre.timeout # None
      /\ "context" \in failed => pre.context # None
  BY <1>1, CheckedIs
<1> HIDE DEF failed, d, allowed, most, planned, pre
<1>7. d.calls \in Nat \cup {None} /\ d.timeout \in Nat \cup {None} /\ d.context \in Nat \cup {None}
  BY <1>2, <1>3, <1>4, <1>5
<1>8. Lowered(q, less, d.calls, d.timeout, d.context)
  BY <1>1, <1>7, ReducedIs
<1>9. kept = IF d.calls = None THEN order ELSE SubSeq(order, 1, d.calls)
  BY DEF P!ReducedOrder
<1>10. d.calls # None => allowed # {} /\ d.calls = most /\ d.calls \in 1..Len(order)
  BY <1>3, <1>4, <1>5
<1>11. kept \in Seq(Provider) /\ Len(kept) = IF d.calls = None THEN Len(order) ELSE d.calls
  <2>1. CASE d.calls = None
    BY <1>9, <2>1
  <2>2. CASE d.calls # None
    <3>1. kept = SubSeq(order, 1, d.calls) /\ d.calls \in 1..Len(order)
      BY <1>9, <1>10, <2>2
    <3>2. \A n \in 1..Len(order) : SubSeq(order, 1, n) \in Seq(Provider) /\ Len(SubSeq(order, 1, n)) = n
      OBVIOUS
    <3>. QED  BY <2>2, <3>1, <3>2
  <2>. QED  BY <2>1, <2>2
<1>12. q.calls \in Nat \cup {None} /\ q.wall \in Nat \cup {None} /\ q.span \in Nat /\ q.context \in Nat \cup {None}
  BY DEF RequestV3
<1>13. /\ less \in RequestV3 /\ less.kind = q.kind
       /\ less.calls = P!Lower(q.calls, d.calls) /\ less.wall = P!Lower(q.wall, d.timeout)
       /\ less.span = IF q.kind = "research" THEN P!Lower(q.span, d.timeout) ELSE q.span
       /\ less.context = P!Lower(q.context, d.context)
  BY <1>8 DEF Lowered
<1> HIDE DEF less, kept
<1>14. /\ LowersTo(less.calls, q.calls, d.calls) /\ LowersTo(less.wall, q.wall, d.timeout)
       /\ LowersTo(less.context, q.context, d.context)
       /\ q.kind = "research" => LowersTo(less.span, q.span, d.timeout)
       /\ q.kind # "research" => less.span = q.span
  <2>1. \A v, limit \in Nat \cup {None} : LowersTo(P!Lower(v, limit), v, limit)
    BY <1>1, LowersAll
  <2>. QED  BY <1>7, <1>12, <1>13, <2>1
<1>15. ASSUME pre.enabled PROVE Fitting(pre, less, kept)
  <2>1. ASSUME pre.calls # None PROVE P!PlannedCalls(less, kept) <= pre.calls
    <3>1. P!PlannedCalls(less, kept) \in Nat /\ P!PlannedCalls(less, kept) <= Len(kept)
      BY <1>1, <1>11, <1>13, PlannedIs
    <3>2. CASE d.calls # None
      <4>1. P!Fits(pre, most, units) /\ d.calls = most /\ Len(kept) = most /\ most \in Nat
        BY <1>3, <1>4, <1>10, <1>11, <3>2
      <4>2. most <= pre.calls
        BY <2>1, <4>1 DEF P!Fits
      <4>. QED  BY <1>2, <2>1, <3>1, <4>1, <4>2
    <3>3. CASE d.calls = None
      <4>1. less.calls = q.calls /\ Len(kept) = Len(order)
        BY <1>11, <1>14, <3>3 DEF LowersTo
      <4>2. P!PlannedCalls(less, kept) = planned
        BY <4>1 DEF P!PlannedCalls, planned
      <4>3. planned <= pre.calls
        <5>1. CASE failed = {}
          BY <1>2, <1>3, <1>6, <2>1, <5>1 DEF P!Exceeded
        <5>2. CASE failed # {}
          <6>1. allowed # {} /\ d.calls = IF most < planned THEN most ELSE None
            BY <1>5, <1>15, <5>2
          <6>2. most \in 1..planned /\ most <= pre.calls
            BY <1>4, <2>1, <6>1 DEF P!Fits
          <6>3. most = planned
            BY <1>1, <1>3, <3>3, <6>1, <6>2
          <6>. QED  BY <6>2, <6>3
        <5>. QED  BY <5>1, <5>2
      <4>. QED  BY <4>2, <4>3
    <3>. QED  BY <3>2, <3>3
  <2>2. ASSUME pre.timeout # None PROVE P!Timeout(less) # None /\ P!Timeout(less) <= pre.timeout
    <3>1. CASE d.timeout # None
      <4>1. d.timeout = pre.timeout
        BY <1>5, <3>1
      <4>2. less.wall \in Nat /\ less.wall <= d.timeout
        BY <1>14, <3>1 DEF LowersTo
      <4>. QED  BY <1>1, <4>1, <4>2 DEF P!Timeout
    <3>2. CASE d.timeout = None
      <4>1. less.wall = q.wall /\ less.span = q.span
        BY <1>13, <1>14, <3>2 DEF LowersTo
      <4>2. "timeout" \notin failed
        BY <1>5, <1>6, <1>15, <2>2, <3>2
      <4>3. P!Timeout(q) # None /\ ~(P!Timeout(q) > pre.timeout)
        BY <1>6, <2>2, <4>2 DEF P!Exceeded
      <4>4. P!Timeout(less) = P!Timeout(q) /\ P!Timeout(q) \in Nat \cup {None}
        BY <1>12, <1>13, <4>1 DEF P!Timeout
      <4>. QED  BY <1>2, <2>2, <4>3, <4>4
    <3>. QED  BY <3>1, <3>2
  <2>3. ASSUME pre.context # None PROVE P!Context(less, pre.usual) <= pre.context
    <3>1. CASE q.kind # "extract"
      BY <1>2, <1>13, <2>3, <3>1 DEF P!Context
    <3>2. CASE q.kind = "extract" /\ d.context # None
      <4>1. d.context = pre.context
        BY <1>5, <3>2
      <4>2. less.context \in Nat /\ less.context <= d.context
        BY <1>14, <3>2 DEF LowersTo
      <4>3. P!Context(less, pre.usual) = less.context
        BY <1>1, <1>13, <3>2, <4>2 DEF P!Context, P!OrElse
      <4>. QED  BY <4>1, <4>2, <4>3
    <3>3. CASE q.kind = "extract" /\ d.context = None
      <4>1. less.context = q.context
        BY <1>14, <3>3 DEF LowersTo
      <4>2. "context" \notin failed
        BY <1>5, <1>6, <1>15, <2>3, <3>3
      <4>3. P!Context(less, pre.usual) = P!Context(q, pre.usual)
        BY <1>13, <4>1 DEF P!Context
      <4>4. P!Context(q, pre.usual) \in Nat
        BY <1>1, <1>2, <1>12 DEF P!Context, P!OrElse
      <4>5. ~(P!Context(q, pre.usual) > pre.context)
        BY <1>6, <2>3, <4>2 DEF P!Exceeded
      <4>. QED  BY <1>2, <2>3, <4>3, <4>4, <4>5
    <3>. QED  BY <3>1, <3>2, <3>3
  <2>. QED  BY <2>1, <2>2, <2>3 DEF Fitting
<1>. QED  BY <1>11, <1>13, <1>15 DEF pre, d, less, kept

-----------------------------------------------------------------------------
(***************************************************************************)
(* CapsInv, one request at a time                                          *)
(***************************************************************************)
LEMMA FirstTyped ==
  ASSUME NEW T, NEW seq \in Seq(T), seq # <<>>
  PROVE  SubSeq(seq, 1, 1) \in Seq(T) /\ SubSeq(seq, 1, 1) # <<>>
<1>1. 1 \in 1..Len(seq)
  OBVIOUS
<1>2. SubSeq(seq, 1, 1) \in Seq(T) /\ Len(SubSeq(seq, 1, 1)) = 1
  BY <1>1
<1> DEFINE s == SubSeq(seq, 1, 1)
<1> HIDE DEF s
<1>3. s # <<>>
  BY <1>2 DEF s
<1>. QED  BY <1>2, <1>3 DEF s

IsPlan(x) == x = [order |-> x.order, first |-> x.first] /\ x.order \in Seq(Provider)

LEMMA PlanTyped == ASSUME scene \in Scenes, NEW q \in RequestV3 PROVE IsPlan(PlanOf(q))
<1>1. scene.order \in Seq(Provider) /\ scene.order # <<>>
  BY SceneIs
<1>2. q.provider \in Provider \cup {None} /\ q.routed \in Provider
  BY DEF RequestV3
<1>3. Automatic \in Seq(Provider)
  BY <1>1, AmongKeeps DEF Automatic
<1>4. \A S : Among(Automatic, S) \in Seq(Provider)
  BY <1>3, AmongKeeps
<1>5. \A p \in Provider : \A s \in Seq(Provider) : <<p>> \o s \in Seq(Provider) /\ <<p>> \o s # <<>>
  <2>1. \A p \in Provider : <<p>> \in Seq(Provider) /\ Len(<<p>>) = 1
    OBVIOUS
  <2>2. ASSUME NEW p \in Provider, NEW s \in Seq(Provider)
        PROVE  <<p>> \o s \in Seq(Provider) /\ <<p>> \o s # <<>>
    <3> DEFINE a == <<p>>
               b == a \o s
    <3>1. a \in Seq(Provider) /\ Len(a) = 1
      BY <2>1
    <3> HIDE DEF a
    <3>2. b \in Seq(Provider) /\ Len(b) = 1 + Len(s) /\ Len(s) \in Nat
      <4>1. \A x, y \in Seq(Provider) : x \o y \in Seq(Provider) /\ Len(x \o y) = Len(x) + Len(y)
        OBVIOUS
      <4>2. b \in Seq(Provider) /\ Len(b) = Len(a) + Len(s)
        BY <2>2, <3>1, <4>1
      <4>3. \A y \in Seq(Provider) : Len(y) \in Nat
        OBVIOUS
      <4>. QED  BY <2>2, <3>1, <4>2, <4>3
    <3> HIDE DEF b
    <3>3. b # <<>>
      BY <3>2
    <3>. QED  BY <3>2, <3>3 DEF a, b
  <2>. QED  BY <2>2
<1> DEFINE first == IF q.provider = None THEN q.routed ELSE q.provider
           some  == <<first>> \o Among(Automatic, Provider \ {first})
           auto  == IF Automatic # <<>> THEN Automatic ELSE SubSeq(scene.order, 1, 1)
           named == <<q.provider>> \o Among(Automatic, Provider \ {q.provider})
           all   == IF q.provider = None THEN auto ELSE named
<1>6. SearchOrder(q) \in Seq(Provider)
  <2>1. first \in Provider
    BY <1>2
  <2> HIDE DEF first
  <2>2. some \in Seq(Provider) /\ <<first>> \in Seq(Provider)
    BY <1>4, <1>5, <2>1
  <2>3. SearchOrder(q) = some \/ SearchOrder(q) = <<first>>
    BY DEF SearchOrder, first
  <2> HIDE DEF some
  <2>. QED  BY <2>2, <2>3
<1>7. ExtractOrder(q) \in Seq(Provider)
  <2>1. auto \in Seq(Provider) /\ auto # <<>>
    BY <1>1, <1>3, FirstTyped
  <2>2. q.provider # None => named \in Seq(Provider) /\ named # <<>>
    BY <1>2, <1>4, <1>5
  <2> HIDE DEF auto, named
  <2>3. all \in Seq(Provider) /\ all # <<>>
    BY <2>1, <2>2
  <2>4. ExtractOrder(q) = IF q.fallback THEN all ELSE SubSeq(all, 1, 1)
    BY DEF ExtractOrder, auto, named
  <2> HIDE DEF all
  <2>. QED  BY <2>3, <2>4, FirstTyped
<1> DEFINE order == IF q.kind = "extract" THEN ExtractOrder(q) ELSE SearchOrder(q)
<1>8. order \in Seq(Provider)
  BY <1>6, <1>7
<1>9. PlanOf(q) = [order |-> order, first |-> order[1]]
  BY DEF PlanOf
<1> HIDE DEF order
<1>10. PlanOf(q).order = order /\ PlanOf(q).first = order[1]
  BY <1>9
<1>. QED  BY <1>8, <1>9, <1>10 DEF IsPlan

\* What CapsKnown and CapsHold say of one request.
Known(r) ==
  /\ pc[r] \in {"preflight", "lookup", "execute", "finish"} => IsPlan(plan[r])
  /\ pc[r] \in {"lookup", "execute", "finish"} => Within(r)
  /\ pc[r] = "finish" => RunSized(r)
Spent(r) ==
  sent[r] > 0 => /\ req[r].calls # None => sent[r] <= req[r].calls
                 /\ scene.pre.enabled /\ scene.pre.calls # None => sent[r] <= scene.pre.calls
                 /\ scene.pre.enabled /\ scene.pre.timeout # None =>
                      P!Timeout(req[r]) # None /\ P!Timeout(req[r]) <= scene.pre.timeout
Sized(r) ==
  pc[r] = "done" /\ req[r].kind = "extract" /\ scene.pre.enabled /\ scene.pre.context # None =>
    Total(TextsOf(resp[r].results)) <= scene.pre.context
Kept(e) == e.key.kind = "extract" => Total(TextsOf(e.resp.results)) \in 0..e.key.context
Day ==
  /\ ledger \in Nat \cup {None}
  /\ scene.pre.enabled /\ scene.pre.daily # None /\ ledger # None => ledger <= scene.pre.daily

LEMMA CapsInvIs ==
  CapsInv <=> /\ Day /\ \A r \in Requests : Known(r) /\ Spent(r) /\ Sized(r)
              /\ \A e \in cache : Kept(e)
BY DEF CapsInv, CapsKnown, CapsHold, Known, Spent, Sized, Kept, Day, IsPlan, TextsOf

LEMMA DayLedgered == ASSUME scene \in Scenes, Day PROVE Ledgered
<1>1. scene.pre \in Preflights /\ None \notin Nat
  BY SceneIs
<1>2. scene.pre.daily \in Nat \cup {None}
  BY <1>1 DEF Preflights, Limit
<1>. QED  BY <1>1, <1>2 DEF Day, Ledgered, Used

LEMMA OneCapped ==
  ASSUME CapsInv, NEW r \in Requests, scene' = scene,
         \A q \in Requests : q # r => /\ pc'[q] = pc[q] /\ req'[q] = req[q] /\ plan'[q] = plan[q]
                                      /\ run'[q] = run[q] /\ resp'[q] = resp[q] /\ sent'[q] = sent[q],
         Known(r)', Spent(r)', Sized(r)', Day', \A e \in cache' : Kept(e)
  PROVE  CapsInv'
<1>1. \A q \in Requests : Known(q) /\ Spent(q) /\ Sized(q)
  BY CapsInvIs
<1>2. ASSUME NEW q \in Requests, q # r PROVE Known(q)' /\ Spent(q)' /\ Sized(q)'
  <2>1. /\ pc'[q] = pc[q] /\ req'[q] = req[q] /\ plan'[q] = plan[q]
        /\ run'[q] = run[q] /\ resp'[q] = resp[q] /\ sent'[q] = sent[q]
    BY <1>2
  <2>2. Known(q)'
    BY <1>1, <2>1 DEF Known, Within, RunSized
  <2>3. Spent(q)' /\ Sized(q)'
    BY <1>1, <2>1 DEF Spent, Sized
  <2>. QED  BY <2>2, <2>3
<1>3. \A q \in Requests : Known(q)' /\ Spent(q)' /\ Sized(q)'
  BY <1>2
<1>4. \A e \in cache' : Kept(e)'
  BY DEF Kept
<1>. QED  BY <1>3, <1>4 DEF CapsInv, CapsKnown, CapsHold, Known, Spent, Sized, Kept, Day, IsPlan, TextsOf

LEMMA AnswerValid ==
  ASSUME Domains, NEW r \in Requests, NEW rs, Answer(r, rs), pc'[r] = "done"
  PROVE  ValidResponse(rs) /\ resp'[r] = rs
BY DEF Answer, Goto, Domains

\* A response without results is within every limit.
LEMMA NothingFits ==
  ASSUME scene \in Scenes, NEW results, results = <<>>, scene.pre.context # None
  PROVE  Total(TextsOf(results)) <= scene.pre.context
<1>1. Total(<<>>) = 0
  <2> DEFINE f == <<>>
             D == DOMAIN f
  <2>1. D = {}
    OBVIOUS
  <2>2. \A x \in D : f[x] \in Nat
    BY <2>1
  <2>3. IsFiniteSet(D)
    BY <2>1, FS_EmptySet
  <2> HIDE DEF f, D
  <2>4. SumOf(f, {}) = 0
    BY <2>2, <2>3, SumUnfolds
  <2>. QED  BY <2>1, <2>4, TotalIs DEF f, D
<1>2. TextsOf(results) = <<>>
  BY DEF TextsOf
<1>3. scene.pre.context \in Nat
  <2>1. scene.pre \in Preflights /\ MinContext \in Nat /\ MaxContext \in Nat
    BY SceneIs
  <2>2. scene.pre.context \in (MinContext..MaxContext) \cup {None}
    BY <2>1 DEF Preflights
  <2>. QED  BY <2>1, <2>2
<1>. QED  BY <1>1, <1>2, <1>3

\* A refusal has no results.
LEMMA RefusedEmpty ==
  ASSUME NEW kind, NEW order, NEW disposition, NEW d
  PROVE  /\ Complete(Evidenced(Refusal(kind, order, disposition), d)).results = <<>>
         /\ Evidenced(Complete(Refusal(kind, order, disposition)), d).results = <<>>
<1> DEFINE rs == Refusal(kind, order, disposition)
<1>1. IsResponse(rs) /\ rs.results = <<>>
  BY RefusalIs DEF Refusal
<1> HIDE DEF rs
<1>2. IsResponse(Evidenced(rs, d)) /\ Evidenced(rs, d).results = <<>>
  BY <1>1, EvidencedKeeps
<1>3. IsResponse(Complete(rs)) /\ Complete(rs).results = <<>>
  BY <1>1, CompleteKeeps
<1>4. Complete(Evidenced(rs, d)).results = <<>>
  BY <1>2, CompleteKeeps
<1>5. Evidenced(Complete(rs), d).results = <<>>
  BY <1>3, EvidencedKeeps
<1>. QED  BY <1>4, <1>5 DEF rs

-----------------------------------------------------------------------------
(***************************************************************************)
(* Every step keeps CapsInv.                                               *)
(***************************************************************************)
LEMMA SubmitCapped ==
  ASSUME Inv, CapsInv, NEW r \in Requests, NEW q \in scene.requests, Submit(r, q) PROVE CapsInv'
<1>1. scene \in Scenes /\ Domains /\ AskedOK(r) /\ Day /\ \A e \in cache : Kept(e)
  BY InvIs, CapsInvIs
<1>2. /\ pc[r] = "idle" /\ pc' = [pc EXCEPT ![r] = "preflight"] /\ req' = [req EXCEPT ![r] = q]
      /\ plan' = [plan EXCEPT ![r] = PlanOf(q)] /\ UNCHANGED <<scene, ledger, cache, run, resp, sent>>
  BY DEF Submit, Goto
<1>3. IsPlan(PlanOf(q))
  <2>1. q \in RequestV3
    BY <1>1, SceneIs
  <2>. QED  BY <1>1, <2>1, PlanTyped
<1>4. /\ pc'[r] = "preflight" /\ plan'[r] = PlanOf(q)
      /\ \A s \in Requests : s # r => pc'[s] = pc[s] /\ req'[s] = req[s] /\ plan'[s] = plan[s]
  BY <1>1, <1>2 DEF Domains
<1>5. Known(r)' /\ Sized(r)'
  BY <1>3, <1>4 DEF Known, Sized, IsPlan
<1>6. Spent(r)'
  BY <1>1, <1>2 DEF Spent, AskedOK
<1>7. Day'
  BY <1>1, <1>2 DEF Day
<1>. QED  BY <1>1, <1>2, <1>4, <1>5, <1>6, <1>7, OneCapped

LEMMA PreflightCapped == ASSUME Inv, CapsInv, NEW r \in Requests, Preflight(r) PROVE CapsInv'
<1> DEFINE decision == P!Decide(scene.pre, req[r], plan[r].order, ledger)
<1>1. /\ scene \in Scenes /\ Domains /\ AskedOK(r) /\ Known(r) /\ Day
      /\ \A e \in cache : Kept(e)
  BY InvIs, CapsInvIs
<1>2. pc[r] = "preflight" /\ UNCHANGED <<scene, ledger, cache, run, sent>>
  BY DEF Preflight
<1>3. sent'[r] = 0 /\ IsPlan(plan[r]) /\ Day'
  BY <1>1, <1>2 DEF AskedOK, Known, Day
<1>4. Spent(r)'
  BY <1>3 DEF Spent
<1>5. CASE decision.action = "abort"
  <2> DEFINE rs == Complete(Evidenced(Refusal(req[r].kind, plan[r].order, "bypassed"), decision))
  <2>1. Answer(r, rs) /\ UNCHANGED <<req, plan>>
    BY <1>5 DEF Preflight
  <2>2. rs.results = <<>>
    BY RefusedEmpty
  <2> HIDE DEF rs
  <2>3. /\ \A q \in Requests : q # r => pc'[q] = pc[q] /\ resp'[q] = resp[q]
        /\ pc'[r] \in {"done", "raised"} /\ (pc'[r] = "done" => resp'[r] = rs)
    BY <1>1, <2>1, AnswerEnds
  <2>4. Known(r)'
    BY <2>3 DEF Known
  <2>5. Sized(r)'
    BY <1>1, <1>2, <2>2, <2>3, NothingFits DEF Sized
  <2>. QED  BY <1>1, <1>2, <1>3, <1>4, <2>1, <2>3, <2>4, <2>5, OneCapped
<1>6. CASE decision.action # "abort"
  <2> DEFINE less == P!Reduced(req[r], decision)
             kept == P!ReducedOrder(plan[r].order, decision)
  <2>1. /\ req' = [req EXCEPT ![r] = less] /\ plan' = [plan EXCEPT ![r].order = kept]
        /\ pc' = [pc EXCEPT ![r] = "lookup"] /\ resp' = resp
    BY <1>6 DEF Preflight, Goto
  <2>2. req[r] \in RequestV3 /\ plan[r].order \in Seq(Provider)
    BY <1>1, <1>2, <1>3, SceneIs DEF AskedOK, IsPlan
  <2>3. less \in RequestV3 /\ kept \in Seq(Provider) /\ (scene.pre.enabled => Fitting(scene.pre, less, kept))
    BY <1>1, <1>6, <2>2, PreflightFits
  <2> HIDE DEF less, kept, decision
  <2>4. plan'[r] = [plan[r] EXCEPT !.order = kept]
    BY <1>1, <2>1 DEF Domains
  <2>5. IsPlan(plan'[r]) /\ plan'[r].order = kept
    <3> DEFINE old == plan[r]
               first == old.first
               new == [old EXCEPT !.order = kept]
    <3>1. old = [order |-> old.order, first |-> first]
      BY <1>3 DEF IsPlan
    <3> HIDE DEF old, first
    <3>2. new = [order |-> kept, first |-> first]
      BY <3>1
    <3> HIDE DEF new
    <3>3. new = [order |-> new.order, first |-> new.first] /\ new.order = kept
      BY <3>2
    <3>4. IsPlan(new)
      BY <2>3, <3>3 DEF IsPlan
    <3>. QED  BY <2>4, <3>3, <3>4 DEF new, old
  <2>6. /\ pc'[r] = "lookup" /\ req'[r] = less
        /\ \A q \in Requests : q # r => pc'[q] = pc[q] /\ req'[q] = req[q] /\ plan'[q] = plan[q]
    BY <1>1, <2>1 DEF Domains
  <2>7. Within(r)'
    BY <1>2, <2>3, <2>5, <2>6 DEF Within, Fitting
  <2>8. Known(r)' /\ Sized(r)'
    BY <2>5, <2>6, <2>7 DEF Known, Sized, IsPlan
  <2>. QED  BY <1>1, <1>2, <1>3, <1>4, <2>1, <2>6, <2>8, OneCapped
<1>. QED  BY <1>5, <1>6

LEMMA KeyChars == ASSUME NEW r, req[r].kind = "extract" PROVE Key(r).context = Chars(r) /\ Key(r).kind = "extract"
BY DEF Key

LEMMA LookupCapped == ASSUME Inv, CapsInv, NEW r \in Requests, Lookup(r) PROVE CapsInv'
<1>1. /\ scene \in Scenes /\ Domains /\ AskedOK(r) /\ Known(r) /\ Day
      /\ \A e \in cache : Kept(e) /\ IsWhole(e)
  BY InvIs, CapsInvIs
<1>2. pc[r] = "lookup" /\ UNCHANGED <<scene, cache, req, plan, run, sent>>
  BY DEF Lookup
<1>3. sent'[r] = 0 /\ IsPlan(plan[r]) /\ Within(r) /\ req[r] \in RequestV3
  BY <1>1, <1>2 DEF AskedOK, Known, Within
<1>4. Spent(r)'
  BY <1>3 DEF Spent
<1>5. Day'
  <2>1. ledger' = ledger \/ (ledger = None /\ ledger' = 0)
    BY DEF Lookup, P!OrElse
  <2>2. scene.pre.daily \in Nat \cup {None}
    BY <1>1, SceneIs DEF Preflights, Limit
  <2>. QED  BY <1>1, <1>2, <2>1, <2>2 DEF Day
<1>6. ASSUME NEW rs, Answer(r, rs),
             req[r].kind = "extract" /\ scene.pre.enabled /\ scene.pre.context # None =>
               Total(TextsOf(rs.results)) <= scene.pre.context
      PROVE  CapsInv'
  <2>1. /\ \A q \in Requests : q # r => pc'[q] = pc[q] /\ resp'[q] = resp[q]
        /\ pc'[r] \in {"done", "raised"} /\ (pc'[r] = "done" => resp'[r] = rs)
    BY <1>1, <1>6, AnswerEnds
  <2>2. Known(r)'
    BY <2>1 DEF Known
  <2>3. Sized(r)'
    BY <1>2, <1>6, <2>1 DEF Sized
  <2>. QED  BY <1>1, <1>2, <1>4, <1>5, <2>1, <2>2, <2>3, OneCapped
<1>7. ASSUME NEW e \in Found(r), NEW stored, NEW warnings,
             Answer(r, [FromCache(e, r) EXCEPT !.stored = stored, !.warnings = warnings])
      PROVE  CapsInv'
  <2> DEFINE hit == FromCache(e, r)
             new == [hit EXCEPT !.stored = stored, !.warnings = warnings]
  <2>1. e \in cache /\ e.key = Key(r)
    BY DEF Found
  <2>2. Kept(e) /\ IsResponse(e.resp)
    BY <1>1, <2>1 DEF IsWhole
  <2>3. IsResponse(hit) /\ hit.results = e.resp.results
    BY <2>2, FromCacheIs
  <2>4. Answer(r, new)
    BY <1>7
  <2> HIDE DEF hit
  <2>5. new.results = e.resp.results
    BY <2>3 DEF IsResponse
  <2> HIDE DEF new
  <2>6. ASSUME req[r].kind = "extract", scene.pre.enabled, scene.pre.context # None
        PROVE  Total(TextsOf(new.results)) <= scene.pre.context
    <3> DEFINE total == Total(TextsOf(new.results))
               chars == Chars(r)
    <3>1. total \in 0..chars
      BY <2>1, <2>2, <2>5, <2>6, KeyChars DEF Kept
    <3>2. chars \in Nat /\ chars <= scene.pre.context
      BY <1>1, <1>3, <2>6, CharsIs
    <3>3. scene.pre.context \in Nat
      BY <1>1, <2>6, SceneIs DEF Preflights
    <3> HIDE DEF total, chars
    <3>4. total <= scene.pre.context
      BY <3>1, <3>2, <3>3
    <3>. QED  BY <3>4 DEF total
  <2>. QED  BY <1>6, <2>4, <2>6
<1>8. ASSUME pc' = [pc EXCEPT ![r] = "execute"], resp' = resp PROVE CapsInv'
  <2>1. pc'[r] = "execute" /\ \A q \in Requests : q # r => pc'[q] = pc[q]
    BY <1>1, <1>8 DEF Domains
  <2>2. Known(r)' /\ Sized(r)'
    BY <1>2, <1>3, <2>1 DEF Known, Sized, Within, IsPlan
  <2>. QED  BY <1>1, <1>2, <1>4, <1>5, <1>8, <2>1, <2>2, OneCapped
<1>9. CASE \E e \in Found(r) : \E kept :
             LET hit == FromCache(e, r)
             IN Answer(r, [hit EXCEPT
                  !.stored   = {IF s \in kept THEN s ELSE [s EXCEPT !.ok = FALSE] : s \in @},
                  !.warnings = IF kept = {s \in e.resp.stored : s.ok} THEN @ ELSE @ \cup {"unstored"}])
  BY <1>7, <1>9
<1>10. CASE Answer(r, Evidenced(Complete(Refusal(req[r].kind, plan[r].order, "miss")), verdict[r]))
  <2> DEFINE rs == Evidenced(Complete(Refusal(req[r].kind, plan[r].order, "miss")), verdict[r])
  <2>1. rs.results = <<>>
    BY RefusedEmpty
  <2> HIDE DEF rs
  <2>2. Answer(r, rs)
    BY <1>10 DEF rs
  <2>3. scene.pre.context # None => Total(TextsOf(rs.results)) <= scene.pre.context
    BY <1>1, <2>1, NothingFits
  <2>. QED  BY <1>6, <2>2, <2>3
<1>11. CASE Goto(r, "execute") /\ UNCHANGED resp
  BY <1>8, <1>11 DEF Goto
<1>. QED  BY <1>9, <1>10, <1>11 DEF Lookup

LEMMA ExecuteCapped == ASSUME Inv, CapsInv, NEW r \in Requests, Execute(r) PROVE CapsInv'
<1> DEFINE pre == scene.pre
<1>1. /\ scene \in Scenes /\ Domains /\ AskedOK(r) /\ Known(r) /\ Day
      /\ \A e \in cache : Kept(e)
  BY InvIs, CapsInvIs
<1>2. /\ pc[r] = "execute" /\ pc' = [pc EXCEPT ![r] = "finish"]
      /\ UNCHANGED <<scene, cache, req, plan, resp>>
  BY DEF Execute, Goto
<1>3. PICK o \in Runs(r) :
        /\ run' = [run EXCEPT ![r] = o] /\ sent' = [sent EXCEPT ![r] = o.calls]
        /\ ledger' = P!OrElse(ledger, 0) + IF scene.pre.enabled /\ scene.pre.daily # None THEN o.calls ELSE 0
  BY DEF Execute
<1>4. /\ pc'[r] = "finish" /\ run'[r] = o /\ sent'[r] = o.calls
      /\ \A q \in Requests : q # r => pc'[q] = pc[q] /\ run'[q] = run[q] /\ sent'[q] = sent[q]
  BY <1>1, <1>2, <1>3 DEF Domains
<1>5. IsPlan(plan[r]) /\ Within(r) /\ req[r] \in RequestV3 /\ plan[r].order \in Seq(Provider)
  BY <1>1, <1>2 DEF Known, Within, IsPlan
<1>6. /\ req[r].kind \in {"search", "research", "extract"} /\ req[r].calls \in Nat \cup {None}
      /\ req[r].urls \in Seq(Url)
  BY <1>5 DEF RequestV3
<1>7. Ledgered
  BY <1>1, DayLedgered
<1>8. /\ Units(r) \in Nat /\ (req[r].calls # None => Units(r) <= req[r].calls)
      /\ pre.enabled /\ pre.daily # None => Units(r) + Used <= pre.daily
  BY <1>1, <1>5, <1>7, UnitsAre
<1>9. o.calls \in Nat /\ o.calls <= Units(r) /\ o.calls <= Len(plan[r].order)
  <2>1. Costs(o, plan[r].order, Units(r))
    BY <1>6, RunCosts
  <2>. QED  BY <1>5, <1>8, <2>1, CostsFew
<1>10. pre \in Preflights /\ None \notin Nat
  BY <1>1, SceneIs
<1>11. pre.calls \in Nat \cup {None} /\ pre.daily \in Nat \cup {None}
  BY <1>10 DEF Preflights, Limit
<1>12. Spent(r)'
  <2> DEFINE order == plan[r].order
             calls == req[r].calls
             planned == P!PlannedCalls(req[r], order)
  <2>1. /\ planned \in Nat
        /\ calls # None => Units(r) <= calls
        /\ planned = IF calls = None THEN Len(order) ELSE IF Len(order) < calls THEN Len(order) ELSE calls
    <3>1. planned \in Nat
      BY <1>5, <1>10, PlannedIs
    <3>2. planned = IF calls = None THEN Len(order) ELSE IF Len(order) < calls THEN Len(order) ELSE calls
      BY DEF P!PlannedCalls, P!Least, P!OrElse
    <3>. QED  BY <1>8, <3>1, <3>2
  <2>2. Len(order) \in Nat
    BY <1>5
  <2> HIDE DEF planned, calls
  <2>3. calls # None => calls \in Nat
    BY <1>6 DEF calls
  <2>4. o.calls <= planned /\ (calls # None => o.calls <= calls)
    BY <1>8, <1>9, <2>1, <2>2, <2>3
  <2>5. pre.enabled /\ pre.calls # None => o.calls <= pre.calls
    <3>1. pre.enabled /\ pre.calls # None => planned <= pre.calls
      BY <1>5 DEF Within, planned
    <3>. QED  BY <1>9, <1>11, <2>1, <2>4, <3>1
  <2>6. pre.enabled /\ pre.timeout # None => P!Timeout(req[r]) # None /\ P!Timeout(req[r]) <= pre.timeout
    BY <1>5 DEF Within
  <2>. QED  BY <1>2, <1>4, <2>4, <2>5, <2>6 DEF Spent, calls
<1>13. Day'
  <2>1. Used \in Nat /\ P!OrElse(ledger, 0) = Used
    BY <1>1 DEF Day, Used, P!OrElse
  <2>2. ledger' = Used + (IF pre.enabled /\ pre.daily # None THEN o.calls ELSE 0)
    BY <1>3, <2>1
  <2>3. ledger' \in Nat
    BY <1>9, <2>1, <2>2
  <2>4. pre.enabled /\ pre.daily # None => ledger' <= pre.daily
    BY <1>8, <1>9, <1>11, <2>1, <2>2
  <2>. QED  BY <1>2, <2>3, <2>4 DEF Day
<1>14. RunSized(r)'
  <2>1. CASE req[r].kind = "extract"
    <3>1. o \in ExtractRuns(r)
      BY <2>1 DEF Runs
    <3>. QED  BY <1>1, <1>2, <1>4, <1>6, <2>1, <3>1, ExtractSizes
  <2>2. CASE req[r].kind # "extract"
    BY <1>2, <2>2 DEF RunSized
  <2>. QED  BY <2>1, <2>2
<1>15. Known(r)' /\ Sized(r)'
  BY <1>2, <1>4, <1>5, <1>14 DEF Known, Sized, Within, IsPlan
<1>. QED  BY <1>1, <1>2, <1>4, <1>12, <1>13, <1>15, OneCapped

LEMMA FinishCapped == ASSUME Inv, CapsInv, NEW r \in Requests, Finish(r) PROVE CapsInv'
<1>1. /\ scene \in Scenes /\ Domains /\ Known(r) /\ Spent(r) /\ Day
      /\ \A e \in cache : Kept(e)
  BY InvIs, CapsInvIs
<1>2. pc[r] = "finish" /\ UNCHANGED <<scene, ledger, req, plan, run, sent>>
  BY DEF Finish
<1>3. PICK storable \in BOOLEAN :
        LET final == Final(r, storable)
        IN /\ Answer(r, final)
           /\ \/ cache' = {e \in cache : e.key # Key(r)} \cup {Entry(r, final)} /\ ValidResponse(final)
              \/ cache' = cache
  <2>1. PICK storable \in BOOLEAN, written \in BOOLEAN :
          LET final == Final(r, storable)
          IN /\ Answer(r, final)
             /\ cache' = IF /\ written /\ Enabled(r) /\ ValidResponse(final)
                            /\ final.status # "failed" /\ WorthKeeping(r, final)
                         THEN {e \in cache : e.key # Key(r)} \cup {Entry(r, final)} ELSE cache
    BY DEF Finish, Final
  <2>. QED  BY <2>1
<1> DEFINE final == Final(r, storable)
<1>4. Within(r) /\ req[r] \in RequestV3 /\ RunSized(r) /\ plan[r].order \in Seq(Provider)
  BY <1>1, <1>2 DEF Known, Within, IsPlan
<1>5. ValidResponse(final) /\ req[r].kind = "extract" => Total(TextsOf(final.results)) \in 0..Chars(r)
  BY <1>1, <1>4, FinalFits
<1>6. /\ Answer(r, final)
      /\ \/ cache' = {e \in cache : e.key # Key(r)} \cup {Entry(r, final)} /\ ValidResponse(final)
         \/ cache' = cache
  BY <1>3
<1> HIDE DEF final
<1>7. \A e \in cache' : Kept(e)
  <2>1. ValidResponse(final) => Kept(Entry(r, final))
    <3> DEFINE key == Key(r)
               e == Entry(r, final)
    <3>1. e.key = key /\ e.resp = final
      BY DEF Entry
    <3>2. key.kind = req[r].kind /\ (req[r].kind = "extract" => key.context = Chars(r))
      BY KeyIs, KeyChars
    <3> HIDE DEF key, e
    <3>3. ValidResponse(final) => Kept(e)
      BY <1>5, <3>1, <3>2 DEF Kept
    <3>. QED  BY <3>3 DEF e
  <2>. QED  BY <1>1, <1>6, <2>1
<1>8. /\ \A q \in Requests : q # r => pc'[q] = pc[q] /\ resp'[q] = resp[q]
      /\ pc'[r] \in {"done", "raised"} /\ (pc'[r] = "done" => resp'[r] = final)
  BY <1>1, <1>6, AnswerEnds
<1>9. Known(r)'
  BY <1>8 DEF Known
<1>10. Spent(r)' /\ Day'
  BY <1>1, <1>2 DEF Spent, Day
<1>11. Sized(r)'
  <2>1. SUFFICES ASSUME pc'[r] = "done", req[r].kind = "extract", scene.pre.enabled, scene.pre.context # None
                 PROVE  Total(TextsOf(final.results)) <= scene.pre.context
    BY <1>2, <1>8 DEF Sized
  <2> DEFINE total == Total(TextsOf(final.results))
             chars == Chars(r)
  <2>2. total \in 0..chars
    BY <1>1, <1>5, <1>6, <2>1, AnswerValid
  <2>3. chars \in Nat /\ chars <= scene.pre.context
    BY <1>1, <1>4, <2>1, CharsIs
  <2>4. scene.pre.context \in Nat
    BY <1>1, <2>1, SceneIs DEF Preflights
  <2> HIDE DEF total, chars
  <2>5. total <= scene.pre.context
    BY <2>2, <2>3, <2>4
  <2>. QED  BY <2>5 DEF total
<1>. QED  BY <1>2, <1>7, <1>8, <1>9, <1>10, <1>11, OneCapped

LEMMA AgeCapped == ASSUME Inv, CapsInv, Age PROVE CapsInv'
<1>1. \A e \in cache : Kept(e) /\ IsWhole(e)
  BY InvIs, CapsInvIs
<1>2. ASSUME NEW e \in cache PROVE Kept([e EXCEPT !.age = @ + 1])
  <2> DEFINE old == e.age + 1
             new == [e EXCEPT !.age = old]
  <2> HIDE DEF old
  <2>1. new.resp = e.resp /\ new.key = e.key
    BY <1>1 DEF IsWhole
  <2> HIDE DEF new
  <2>2. Kept(new)
    BY <1>1, <2>1 DEF Kept
  <2>. QED  BY <2>2 DEF new, old
<1>3. /\ UNCHANGED <<scene, ledger, pc, req, plan, run, resp, sent>>
      /\ cache' = {[e EXCEPT !.age = @ + 1] : e \in {e \in cache : e.age <= MaxAge}}
  BY DEF Age
<1>4. \A e \in cache' : Kept(e)
  BY <1>2, <1>3
<1>. QED  BY <1>3, <1>4 DEF CapsInv, CapsKnown, CapsHold, Within, RunSized, Kept

LEMMA RestCapped ==
  ASSUME CapsInv, UNCHANGED <<scene, ledger, cache, pc, req, plan, run, resp, sent>> PROVE CapsInv'
BY DEF CapsInv, CapsKnown, CapsHold, Within, RunSized

\* No request sends more calls than its own limit and the operator's, and all together
\* no more than the day's; the texts of an extraction fit in the operator's limit, fresh
\* or from the cache (budget_preflight_v3.py:205-280; orchestrator_v3.py:186-240;
\* bounded_context_v3.py:55-141).
THEOREM CapsAreHeld == Spec => []CapsHold
<1>1. Init => Inv /\ CapsInv
  <2> SUFFICES ASSUME Init PROVE Inv /\ CapsInv
    OBVIOUS
  <2>1. Inv
    BY DEF Init, Inv, HitsAreWhole
  <2>2. scene.pre.daily \in Nat \cup {None}
    BY <2>1, InvIs, SceneIs DEF Preflights, Limit
  <2>3. CapsInv
    BY <2>2 DEF Init, CapsInv, CapsKnown, CapsHold
  <2>. QED  BY <2>1, <2>3
<1>2. Inv /\ CapsInv /\ [Next]_vars => Inv' /\ CapsInv'
  <2> SUFFICES ASSUME Inv, CapsInv, [Next]_vars PROVE Inv' /\ CapsInv'
    OBVIOUS
  <2>1. ASSUME NEW r \in Requests, NEW q \in scene.requests, Submit(r, q) PROVE Inv' /\ CapsInv'
    BY <2>1, SubmitKept, SubmitCapped
  <2>2. ASSUME NEW r \in Requests, Preflight(r) PROVE Inv' /\ CapsInv'
    BY <2>2, PreflightKept, PreflightCapped
  <2>3. ASSUME NEW r \in Requests, Lookup(r) PROVE Inv' /\ CapsInv'
    BY <2>3, LookupKept, LookupCapped
  <2>4. ASSUME NEW r \in Requests, Execute(r) PROVE Inv' /\ CapsInv'
    BY <2>4, ExecuteKept, ExecuteCapped
  <2>5. ASSUME NEW r \in Requests, Finish(r) PROVE Inv' /\ CapsInv'
    BY <2>5, FinishKept, FinishCapped
  <2>6. ASSUME NEW p \in Provider, Rekey(p) PROVE Inv' /\ CapsInv'
    BY <2>6, RestKept, RestCapped DEF Rekey
  <2>7. ASSUME Age PROVE Inv' /\ CapsInv'
    BY <2>7, AgeKept, AgeCapped
  <2>8. ASSUME UNCHANGED vars PROVE Inv' /\ CapsInv'
    BY <2>8, RestKept, RestCapped DEF vars
  <2>. QED  BY <2>1, <2>2, <2>3, <2>4, <2>5, <2>6, <2>7, <2>8 DEF Next
<1>3. CapsInv => CapsHold
  BY DEF CapsInv
<1>. QED  BY <1>1, <1>2, <1>3, PTL DEF Spec

-----------------------------------------------------------------------------
(***************************************************************************)
(* The receipt of a request that was executed                              *)
(***************************************************************************)
LEMMA AttemptFound ==
  ASSUME NEW order \in Seq(Provider), IsInjective(order), NEW attempts, attempts # <<>>,
         Tried(attempts, order), NEW i \in DOMAIN order
  PROVE  /\ AttemptOf(attempts, order[i]) = i /\ i # 0 /\ i \in DOMAIN attempts
         /\ Outcome(attempts, order[i]) = attempts[i].outcome
<1> DEFINE its == {j \in DOMAIN attempts : attempts[j].provider = order[i]}
<1>1. i \in Nat /\ i # 0
  OBVIOUS
<1>2. its = {i} /\ i \in DOMAIN attempts
  BY DEF Tried, IsInjective
<1> HIDE DEF its
<1>3. Max(its) = i
  <2>1. IsFiniteSet(its) /\ its \subseteq Nat /\ its # {}
    BY <1>1, <1>2, FS_Singleton
  <2>2. Max(its) \in its
    BY <2>1, LargestOf
  <2>. QED  BY <1>2, <2>2
<1>4. AttemptOf(attempts, order[i]) = i
  BY <1>2, <1>3 DEF AttemptOf, its
<1>. QED  BY <1>1, <1>2, <1>4 DEF Outcome

LEMMA NoneFound ==
  ASSUME NEW p
  PROVE  AttemptOf(<<>>, p) = 0 /\ Outcome(<<>>, p) = None
<1>1. AttemptOf(<<>>, p) = 0
  BY DEF AttemptOf
<1>. QED  BY <1>1 DEF Outcome

\* What is decided of a provider rests on its attempt.
Decided(d, p, attempts, selected) ==
  /\ Supported(d, attempts)
  /\ (d.decision = "selected") <=> (p = selected)
  /\ attempts # <<>> /\ p # selected =>
       d.decision \in {"skipped", "attempted_failed", "attempted_no_selection"}

LEMMA DecisionStands ==
  ASSUME NEW order \in Seq(Provider), IsInjective(order), NEW attempts, Tried(attempts, order),
         NEW selected, NEW aborted, NEW i \in DOMAIN order,
         order[i] = selected => attempts # <<>> /\ attempts[i].outcome \in Served
  PROVE  Decided(Decision(order, selected, attempts, aborted, i), order[i], attempts, selected)
<1> DEFINE p   == order[i]
           at  == AttemptOf(attempts, p)
           out == Outcome(attempts, p)
           d   == Decision(order, selected, attempts, aborted, i)
           as(verdict_, reason, id) == [provider |-> p, decision |-> verdict_, reason |-> reason, attempt |-> id]
<1>0. None \notin Served \cup Lost \cup {"skipped"}
  BY NamesAssumption
<1>1. ASSUME p = selected PROVE Decided(d, p, attempts, selected)
  <2>1. d = as("selected", IF i = 1 THEN "classic_selected" ELSE "fallback_selected", at)
    BY <1>1 DEF Decision
  <2>2. at = i /\ i # 0 /\ i \in DOMAIN attempts /\ attempts[i].provider = p /\ attempts[i].outcome \in Served
    BY <1>1, AttemptFound DEF Tried
  <2> HIDE DEF p, at, out
  <2>. QED  BY <1>1, <2>1, <2>2 DEF Decided, Supported, Reasons, Grounds
<1>2. ASSUME p # selected /\ attempts # <<>> PROVE Decided(d, p, attempts, selected)
  <2>1. /\ at = i /\ i # 0 /\ i \in DOMAIN attempts /\ attempts[i].provider = p /\ out = attempts[i].outcome
        /\ out \in Served \cup Lost \cup {"skipped"}
    BY <1>2, AttemptFound DEF Tried
  <2>2. \/ out = "skipped" /\ d = as("skipped", ReasonOfSkip(attempts[at].skip), at)
        \/ out \in Lost /\ d = as("attempted_failed", "attempt_failed", at)
        \/ out \in Served /\ d = as("attempted_no_selection", "insufficient_results", at)
    <3>1. d = CASE p = selected    -> as("selected", IF i = 1 THEN "classic_selected" ELSE "fallback_selected", at)
       [] p # selected /\ out = "skipped"  -> as("skipped", ReasonOfSkip(attempts[at].skip), at)
       [] p # selected /\ out \in Lost     -> as("attempted_failed", "attempt_failed", at)
       [] p # selected /\ out \in Served   -> as("attempted_no_selection", "insufficient_results", at)
       [] p # selected /\ out = None       ->
            as("not_attempted",
               IF aborted THEN "budget_denied"
               ELSE IF AnswerBefore(order, selected, attempts, i) THEN "not_attempted_after_success"
               ELSE "provider_unavailable", 0)
      BY DEF Decision
    <3> HIDE DEF p, at, out, d
    <3>. QED  BY <1>0, <1>2, <2>1, <3>1 DEF Served, Lost
  <2> HIDE DEF p, at, out, d
  <2>3. CASE out = "skipped" /\ d = as("skipped", ReasonOfSkip(attempts[at].skip), at)
    <3>1. ReasonOfSkip(attempts[at].skip) \in Reasons("skipped")
      BY DEF ReasonOfSkip, Reasons
    <3>2. out \in Grounds("skipped")
      BY <2>3 DEF Grounds
    <3>. QED  BY <1>2, <2>1, <2>3, <3>1, <3>2 DEF Decided, Supported
  <2>4. CASE out \in Lost /\ d = as("attempted_failed", "attempt_failed", at)
    BY <1>2, <2>1, <2>4 DEF Decided, Supported, Reasons, Grounds
  <2>5. CASE out \in Served /\ d = as("attempted_no_selection", "insufficient_results", at)
    BY <1>2, <2>1, <2>5 DEF Decided, Supported, Reasons, Grounds
  <2>. QED  BY <2>2, <2>3, <2>4, <2>5
<1>3. ASSUME p # selected /\ attempts = <<>> PROVE Decided(d, p, attempts, selected)
  <2>1. out = None
    BY <1>3, NoneFound
  <2>2. \E reason \in {"budget_denied", "not_attempted_after_success", "provider_unavailable"} :
          d = as("not_attempted", reason, 0)
    <3>1. d = as("not_attempted",
               IF aborted THEN "budget_denied"
               ELSE IF AnswerBefore(order, selected, attempts, i) THEN "not_attempted_after_success"
               ELSE "provider_unavailable", 0)
      BY <1>0, <1>3, <2>1 DEF Decision, Served, Lost
    <3> HIDE DEF p, d
    <3>. QED  BY <3>1
  <2> HIDE DEF p, at, out, d
  <2>. QED  BY <1>3, <2>2 DEF Decided, Supported, Reasons, Grounds
<1> HIDE DEF d, p
<1>4. Decided(d, p, attempts, selected)
  BY <1>1, <1>2, <1>3
<1>. QED  BY <1>4 DEF d, p

\* The place of the selected provider is found, and what was decided before it is of
\* those the plan has before it.
LEMMA BeforeIs ==
  ASSUME NEW order \in Seq(Provider), IsInjective(order), NEW w \in DOMAIN order, NEW decisions
  PROVE  Before(order, order[w], decisions) = {decisions[i].decision : i \in 1..(w - 1)}
<1> DEFINE I == {i \in 1..Len(order) : order[i] = order[w]}
           at == SelectInSeq(order, LAMBDA p : p = order[w])
<1>1. I = {w} /\ w \in Nat /\ w >= 1
  BY DEF IsInjective
<1>2. at = IF I # {} THEN CHOOSE x \in I : \A y \in I : x <= y ELSE 0
  BY DEF SelectInSeq, Min
<1> HIDE DEF I, at
<1>3. at = w
  BY <1>1, <1>2
<1>4. Before(order, order[w], decisions) = IF \E i \in DOMAIN order : order[i] = order[w] /\ i > 1
                                           THEN {decisions[i].decision : i \in 1..(at - 1)} ELSE {}
  BY DEF Before, at
<1>5. (\E i \in DOMAIN order : order[i] = order[w] /\ i > 1) <=> w > 1
  BY DEF IsInjective
<1>6. CASE w > 1
  BY <1>3, <1>4, <1>5, <1>6
<1>7. CASE ~(w > 1)
  <2>1. w = 1 /\ 1..(w - 1) = {}
    BY <1>1, <1>7
  <2>. QED  BY <1>4, <1>5, <1>7, <2>1
<1>. QED  BY <1>6, <1>7

\* Nothing but one that served is selected, and what is said of it is whether it was the
\* first.
Rests(rc, attempts, order) ==
  /\ rc.order = order /\ IsReceipt(rc)
  /\ \/ rc.selected = None
     \/ \E w \in ServedAttempts(attempts) : rc.selected = order[w] /\ ((rc.fallback = "none") <=> (w = 1))

LEMMA ReceiptStands ==
  ASSUME NEW order \in Seq(Provider), IsInjective(order), NEW attempts, Tried(attempts, order),
         NEW rc, Rests(rc, attempts, order), None \notin Provider
  PROVE  ValidReceipt(Completed(rc, attempts), attempts)
<1> DEFINE aborted   == rc.preflight = "abort"
           selected  == rc.selected
           decisions == Decisions(order, selected, attempts, aborted)
           fallback  == Fallback(order, selected, decisions, rc.fallback)
           new       == Completed(rc, attempts)
<1>1. new = [rc EXCEPT !.decisions = decisions, !.completed = TRUE, !.origin = None, !.fallback = fallback]
  BY DEF Completed, Rests
<1>2. /\ DOMAIN decisions = DOMAIN order
      /\ \A i \in DOMAIN order : decisions[i] = Decision(order, selected, attempts, aborted, i)
  BY DEF Decisions
<1> HIDE DEF decisions, fallback, new, aborted
<1>3. /\ new.order = order /\ new.selected = selected /\ new.fallback = fallback
      /\ new.decisions = decisions /\ new.origin = None
  BY <1>1 DEF Rests, IsReceipt
<1>4. selected # None => \E w \in ServedAttempts(attempts) : selected = order[w] /\ ((rc.fallback = "none") <=> (w = 1))
  BY DEF Rests
<1>5. ServedAttempts(attempts) # {} => attempts # <<>> /\ ServedAttempts(attempts) \subseteq DOMAIN order
  BY DEF ServedAttempts, Tried
<1>6. \A i \in DOMAIN order : order[i] \in Provider
  OBVIOUS
<1>7. \A i \in DOMAIN order : order[i] = selected => attempts # <<>> /\ attempts[i].outcome \in Served
  <2> SUFFICES ASSUME NEW i \in DOMAIN order, order[i] = selected
               PROVE  attempts # <<>> /\ attempts[i].outcome \in Served
    OBVIOUS
  <2>1. PICK w \in ServedAttempts(attempts) : selected = order[w]
    BY <1>4, <1>6
  <2>2. w \in DOMAIN order /\ w = i /\ attempts # <<>>
    BY <1>5, <2>1 DEF IsInjective
  <2>. QED  BY <2>1, <2>2 DEF ServedAttempts
<1>8. \A i \in DOMAIN order : Decided(decisions[i], order[i], attempts, selected)
  BY <1>2, <1>7, DecisionStands
<1> HIDE DEF selected
<1>9. ASSUME NEW d \in Range(decisions) PROVE Supported(d, attempts)
  <2>1. PICK i \in DOMAIN decisions : d = decisions[i]
    BY DEF Range
  <2>. QED  BY <1>2, <1>8, <2>1 DEF Decided
<1> DEFINE chosen == {i \in DOMAIN order : decisions[i].decision = "selected"}
           mine   == {i \in DOMAIN order : order[i] = selected}
<1>10. chosen = mine
  BY <1>8 DEF Decided
<1>11. selected = None => mine = {}
  BY <1>6
<1>12. ASSUME selected # None
       PROVE  \E w \in DOMAIN order : /\ mine = {w} /\ attempts # <<>> /\ selected = order[w]
                                      /\ (rc.fallback = "none") <=> (w = 1)
  <2>1. PICK w \in ServedAttempts(attempts) : selected = order[w] /\ ((rc.fallback = "none") <=> (w = 1))
    BY <1>4, <1>12
  <2>2. w \in DOMAIN order /\ attempts # <<>>
    BY <1>5
  <2>3. mine = {w}
    BY <2>1, <2>2 DEF IsInjective
  <2>. QED  BY <2>1, <2>2, <2>3
<1>13. FallbackHolds(new)
  <2>1. CASE selected = None
    BY <1>3, <1>10, <1>11, <2>1 DEF FallbackHolds
  <2>2. CASE selected # None
    <3>1. PICK w \in DOMAIN order : /\ mine = {w} /\ attempts # <<>> /\ selected = order[w]
                                    /\ (rc.fallback = "none") <=> (w = 1)
      BY <1>12, <2>2
    <3> DEFINE before == {decisions[i].decision : i \in 1..(w - 1)}
    <3>2. w \in Nat /\ w >= 1 /\ \A i \in 1..(w - 1) : i \in DOMAIN order /\ i # w
      OBVIOUS
    <3>3. Min(chosen) = w
      BY <1>10, <3>1, <3>2 DEF Min
    <3>4. fallback = IF "attempted_no_selection" \in before THEN "insufficient_results"
                     ELSE IF "attempted_failed" \in before THEN "selected_failed"
                     ELSE IF "skipped" \in before THEN "selected_skipped"
                     ELSE rc.fallback
      BY <3>1, BeforeIs DEF Fallback, fallback
    <3>5. \A i \in 1..(w - 1) : decisions[i].decision \in {"skipped", "attempted_failed", "attempted_no_selection"}
      <4> SUFFICES ASSUME NEW i \in 1..(w - 1)
                   PROVE  decisions[i].decision \in {"skipped", "attempted_failed", "attempted_no_selection"}
        OBVIOUS
      <4>1. i \in DOMAIN order /\ order[i] # selected
        BY <3>1, <3>2
      <4>. QED  BY <1>8, <3>1, <4>1 DEF Decided
    <3>6. w = 1 => before = {}
      BY <3>2
    <3>7. w # 1 => decisions[1].decision \in before
      BY <3>2
    <3>8. ((w = 1) <=> (fallback = "none")) /\ (fallback = "selected_failed"      => w = 1 \/ "attempted_failed" \in before)
          /\ (fallback = "insufficient_results" => w = 1 \/ "attempted_no_selection" \in before)
          /\ (fallback = "selected_skipped"     => w = 1 \/ "skipped" \in before)
      <4>1. CASE w = 1
        <5>1. before = {}
          BY <3>6, <4>1
        <5> HIDE DEF before
        <5>. QED  BY <3>1, <3>4, <4>1, <5>1
      <4>2. CASE w # 1
        <5>1. 1 \in 1..(w - 1)
          BY <3>2, <4>2
        <5>2. decisions[1].decision \in {"skipped", "attempted_failed", "attempted_no_selection"}
          BY <3>5, <5>1
        <5>3. decisions[1].decision \in before
          BY <3>7, <4>2
        <5> HIDE DEF before
        <5>. QED  BY <3>4, <4>2, <5>2, <5>3
      <4>. QED  BY <4>1, <4>2
    <3>9. w = 1 => fallback = "none"
      BY <3>8
    <3>10. FallbackHolds(new) <=>
             /\ (w = 1) = (fallback = "none")
             /\ fallback = "selected_failed"      => "attempted_failed" \in before
             /\ fallback = "insufficient_results" => "attempted_no_selection" \in before
             /\ fallback = "selected_skipped"     => "skipped" \in before
      <4> DEFINE selects == {i \in DOMAIN new.order : new.decisions[i].decision = "selected"}
                 earlier == {new.decisions[i].decision : i \in 1..(Min(selects) - 1)}
      <4>1. chosen # {} /\ new.order = order /\ new.decisions = decisions /\ new.fallback = fallback
        BY <1>3, <1>10, <3>1
      <4>2. selects = chosen
        BY <4>1
      <4>3. earlier = before
        <5> HIDE DEF selects, chosen
        <5>. QED  BY <3>3, <4>1, <4>2
      <4>4. FallbackHolds(new) <=>
              (selects # {} =>
                 /\ (Min(selects) = 1) = (new.fallback = "none")
                 /\ new.fallback = "selected_failed"      => "attempted_failed" \in earlier
                 /\ new.fallback = "insufficient_results" => "attempted_no_selection" \in earlier
                 /\ new.fallback = "selected_skipped"     => "skipped" \in earlier)
        BY DEF FallbackHolds
      <4> HIDE DEF selects, earlier, before, chosen
      <4>. QED  BY <3>3, <4>1, <4>2, <4>3, <4>4
    <3> HIDE DEF before
    <3>11. (w = 1) = (fallback = "none")
      BY <3>8
    <3>. QED  BY <3>8, <3>9, <3>10, <3>11
  <2>. QED  BY <2>1, <2>2
<1>14. selected # None => Cardinality(mine) = 1
  <2> HIDE DEF mine
  <2>. QED  BY <1>12, FS_Singleton
<1>15. OriginHolds(new)
  BY <1>3 DEF OriginHolds
<1>. QED  BY <1>3, <1>9, <1>13, <1>14, <1>15 DEF ValidReceipt, new

-----------------------------------------------------------------------------
(***************************************************************************)
(* The observations                                                        *)
(***************************************************************************)
\* How many of a set of slots come before one tells which it is.
LEMMA RankTells ==
  ASSUME NEW n \in Nat, NEW slots \in SUBSET (1..n), NEW s \in slots, NEW t \in slots
  PROVE  /\ Cardinality({u \in slots : u < s}) \in Nat
         /\ Cardinality({u \in slots : u < s}) = Cardinality({u \in slots : u < t}) => s = t
<1>1. IsFiniteSet(slots) /\ \A u \in slots : u \in Nat
  <2>1. IsFiniteSet(1..n)
    BY FS_Interval
  <2>2. IsFiniteSet(slots)
    BY <2>1, FS_Subset
  <2>3. \A u \in slots : u \in Nat
    OBVIOUS
  <2>. QED  BY <2>2, <2>3
<1>2. \A x \in slots : IsFiniteSet({u \in slots : u < x}) /\ Cardinality({u \in slots : u < x}) \in Nat
  <2> SUFFICES ASSUME NEW x \in slots
               PROVE  IsFiniteSet({u \in slots : u < x}) /\ Cardinality({u \in slots : u < x}) \in Nat
    OBVIOUS
  <2> DEFINE A == {u \in slots : u < x}
  <2>1. A \subseteq slots
    OBVIOUS
  <2> HIDE DEF A
  <2>2. IsFiniteSet(A)
    BY <1>1, <2>1, FS_Subset
  <2>3. Cardinality(A) \in Nat
    BY <2>2, FS_CardinalityType
  <2>. QED  BY <2>2, <2>3 DEF A
<1>3. ASSUME NEW x \in slots, NEW y \in slots, x < y
      PROVE  Cardinality({u \in slots : u < x}) # Cardinality({u \in slots : u < y})
  <2> DEFINE A == {u \in slots : u < x}
             B == {u \in slots : u < y}
  <2>1. A \subseteq B /\ x \in B /\ x \notin A
    <3>1. x \in Nat /\ y \in Nat /\ \A u \in slots : u \in Nat
      BY <1>1
    <3>2. \A u \in slots : u < x => u < y
      BY <1>3, <3>1
    <3>3. ~(x < x)
      BY <3>1
    <3>. QED  BY <1>3, <3>2, <3>3
  <2>2. IsFiniteSet(A) /\ IsFiniteSet(B)
    BY <1>2
  <2> HIDE DEF A, B
  <2>3. Cardinality(A) = Cardinality(B) => A = B
    BY <2>1, <2>2, FS_Subset
  <2>4. Cardinality(A) # Cardinality(B)
    BY <2>1, <2>3
  <2>. QED  BY <2>4 DEF A, B
<1>4. s < t \/ t < s \/ s = t
  BY <1>1
<1>. QED  BY <1>2, <1>3, <1>4

\* Each observation is finite, names a provider, and is named by its attempt and its place
\* there; a provider has one attempt.
Ranked(observed) ==
  /\ IsFiniteSet(observed)
  /\ \A o \in observed : o.text \in Nat /\ o.index \in Nat /\ o.provider \in Provider
  /\ \A o, q \in observed : o.provider = q.provider => o.attempt = q.attempt
  /\ \A o, q \in observed : o.attempt = q.attempt /\ o.index = q.index => o = q

\* What one attempt makes of its slots.
Viewed(raw, slots, i, p) == {Observation(raw, s, slots, i, p) : s \in slots}
Alike(seen, i, p) ==
  /\ IsFiniteSet(seen)
  /\ \A o \in seen : o.text \in Nat /\ o.index \in Nat /\ o.provider = p /\ o.attempt = i
  /\ \A o, q \in seen : o.index = q.index => o = q

LEMMA ObservedAlike ==
  ASSUME NEW raw, NEW n \in Nat, DOMAIN raw = 1..n, \A s \in 1..n : raw[s].size \in Nat,
         NEW slots \in SUBSET (1..n), NEW i, NEW p \in Provider
  PROVE  Alike(Viewed(raw, slots, i, p), i, p)
<1> DEFINE f == [s \in slots |-> Observation(raw, s, slots, i, p)]
           seen == {f[s] : s \in slots}
<1>1. IsFiniteSet(slots)
  <2>1. IsFiniteSet(1..n)
    BY FS_Interval
  <2>. QED  BY <2>1, FS_Subset
<1>2. ASSUME NEW s \in slots
      PROVE  /\ f[s].text \in Nat /\ f[s].provider = p /\ f[s].attempt = i
             /\ f[s].index = Cardinality({t \in slots : t < s})
  <2>1. (IF raw[s].error THEN 0 ELSE raw[s].size) \in Nat
    OBVIOUS
  <2>2. f[s] = Observation(raw, s, slots, i, p)
    OBVIOUS
  <2> HIDE DEF f
  <2>. QED  BY <2>1, <2>2 DEF Observation
<1> DEFINE rank(s) == Cardinality({t \in slots : t < s})
<1>0. \A s, t \in slots : rank(s) \in Nat /\ (rank(s) = rank(t) => s = t)
  BY RankTells
<1> HIDE DEF f
<1>3. IsFiniteSet(seen)
  BY <1>1, ImageFinite
<1>7. \A s \in slots : f[s].index = rank(s)
  BY <1>2
<1> HIDE DEF rank
<1>4. ASSUME NEW o \in seen PROVE o.text \in Nat /\ o.index \in Nat /\ o.provider = p /\ o.attempt = i
  <2>1. PICK s \in slots : o = f[s]
    OBVIOUS
  <2>. QED  BY <1>0, <1>2, <1>7, <2>1
<1>5. ASSUME NEW o \in seen, NEW q \in seen, o.index = q.index PROVE o = q
  <2>1. PICK s \in slots : o = f[s]
    OBVIOUS
  <2>2. PICK t \in slots : q = f[t]
    OBVIOUS
  <2>3. rank(s) = rank(t)
    BY <1>5, <1>7, <2>1, <2>2
  <2>4. s = t
    BY <1>0, <2>3
  <2>. QED  BY <2>1, <2>2, <2>4
<1>6. Viewed(raw, slots, i, p) = seen
  BY DEF f, Viewed
<1> HIDE DEF seen
<1>. QED  BY <1>3, <1>4, <1>5, <1>6 DEF Alike

LEMMA ServedOf ==
  ASSUME NEW order \in Seq(Provider), NEW attempts, Tried(attempts, order)
  PROVE  /\ ServedAttempts(attempts) \subseteq DOMAIN order /\ IsFiniteSet(ServedAttempts(attempts))
         /\ \A i \in ServedAttempts(attempts) :
              /\ i \in Nat /\ i # 0 /\ i \in DOMAIN attempts /\ attempts # <<>>
              /\ attempts[i].provider = order[i] /\ order[i] \in Provider
<1> DEFINE served == ServedAttempts(attempts)
<1>1. Len(order) \in Nat /\ DOMAIN order = 1..Len(order) /\ \A i \in DOMAIN order : order[i] \in Provider
  OBVIOUS
<1>2. served \subseteq DOMAIN attempts /\ (attempts = <<>> => served = {})
  BY DEF ServedAttempts
<1> HIDE DEF served
<1>3. served \subseteq DOMAIN order /\ \A i \in served : attempts # <<>> /\ attempts[i].provider = order[i]
  BY <1>2 DEF Tried
<1>4. IsFiniteSet(served)
  <2>1. \A n \in Nat : IsFiniteSet(1..n)
    BY FS_Interval
  <2>2. IsFiniteSet(DOMAIN order)
    BY <1>1, <2>1
  <2>. QED  BY <1>3, <2>2, FS_Subset
<1>5. \A i \in served : i \in Nat /\ i # 0
  BY <1>1, <1>3
<1>. QED  BY <1>1, <1>2, <1>3, <1>4, <1>5 DEF served

LEMMA BestIs ==
  ASSUME NEW order \in Seq(Provider), IsInjective(order), NEW attempts, Tried(attempts, order), NEW selected
  PROVE  LET best == Best(attempts, selected)
         IN /\ ServedAttempts(attempts) = {} => best = 0
            /\ ServedAttempts(attempts) # {} => best \in ServedAttempts(attempts)
            /\ \A w \in ServedAttempts(attempts) : selected = order[w] => best = w
<1> DEFINE served == ServedAttempts(attempts)
           own    == {i \in served : attempts[i].provider = selected}
           best   == Best(attempts, selected)
<1>1. /\ served \subseteq DOMAIN order /\ IsFiniteSet(served) /\ served \subseteq Nat
      /\ \A i \in served : attempts[i].provider = order[i]
  BY ServedOf
<1>2. best = IF own # {} THEN Max(own) ELSE IF served # {} THEN Max(served) ELSE 0
  BY DEF Best
<1> HIDE DEF served, best
<1>3. own # {} => Max(own) \in own
  <2>1. own \subseteq served
    OBVIOUS
  <2> HIDE DEF own
  <2>2. IsFiniteSet(own) /\ own \subseteq Nat
    BY <1>1, <2>1, FS_Subset
  <2>. QED  BY <2>2, LargestOf
<1>4. served # {} => Max(served) \in served
  BY <1>1, LargestOf
<1>5. ASSUME NEW w \in served, selected = order[w] PROVE best = w
  <2>1. own = {w}
    BY <1>1, <1>5 DEF IsInjective
  <2>. QED  BY <1>2, <1>3, <2>1
<1>6. served = {} => best = 0
  BY <1>2
<1>7. served # {} => best \in served
  <2>1. own \subseteq served
    OBVIOUS
  <2> HIDE DEF own
  <2>. QED  BY <1>2, <1>3, <1>4, <2>1
<1>. QED  BY <1>5, <1>6, <1>7 DEF best, served

\* What is observed of a run, whatever it was for.
LEMMA ObservedRanked ==
  ASSUME NEW order \in Seq(Provider), IsInjective(order), None \notin Provider,
         NEW attempts, Tried(attempts, order), NEW kind, NEW payload,
         Speaks(payload, attempts, order), Listing(payload.raw)
  PROVE  LET observed == Observations(kind, payload, attempts, Selected(payload))
         IN Ranked(observed) /\ (ServedAttempts(attempts) = {} => observed = {})
<1> DEFINE raw      == payload.raw
           n        == Len(raw)
           selected == Selected(payload)
           best     == Best(attempts, selected)
           served   == ServedAttempts(attempts)
           slots(i) == Slots(kind, raw, attempts, best, i)
           observed == Observations(kind, payload, attempts, selected)
           each(i)  == {Observation(raw, s, slots(i), i, attempts[i].provider) : s \in slots(i)}
           all      == {Observation(raw, s, 1..n, best, selected) : s \in 1..n}
<1>1. n \in Nat /\ DOMAIN raw = 1..n /\ \A s \in 1..n : raw[s].size \in Nat
  BY DEF Listing
<1>2. /\ IsFiniteSet(served) /\ \A i \in served : attempts[i].provider = order[i] /\ order[i] \in Provider
      /\ served \subseteq DOMAIN order /\ \A i \in served : i # 0
  BY ServedOf
<1>3. \A i : slots(i) \in SUBSET (1..n)
  BY <1>1 DEF Slots
<1>4. \/ observed = UNION {each(i) : i \in served}
      \/ observed = {}
      \/ selected # None /\ best # 0 /\ observed = all
  BY <1>1 DEF Observations
<1>5. Ranked({})
  BY FS_EmptySet DEF Ranked
<1>6. ASSUME NEW i \in served
      PROVE  Alike(each(i), i, order[i])
  <2> DEFINE T == slots(i)
             p == attempts[i].provider
  <2>1. T \in SUBSET (1..n) /\ p \in Provider /\ p = order[i]
    BY <1>2, <1>3
  <2>2. each(i) = Viewed(raw, T, i, p)
    BY DEF Viewed
  <2> HIDE DEF T, p, each, raw, n
  <2>. QED  BY <1>1, <2>1, <2>2, ObservedAlike
<1>7. selected # None => selected = payload.provider /\ ~payload.research
  BY DEF Selected
<1>8. CASE observed = UNION {each(i) : i \in served}
  <2> HIDE DEF each, served, observed
  <2>1. IsFiniteSet(observed)
    <3> DEFINE g == [i \in served |-> each(i)]
               all_ == {g[i] : i \in served}
    <3>1. \A i \in served : g[i] = each(i)
      OBVIOUS
    <3> HIDE DEF g
    <3>2. IsFiniteSet(all_)
      BY <1>2, ImageFinite
    <3>3. \A A \in all_ : IsFiniteSet(A)
      BY <1>6, <3>1 DEF Alike
    <3>4. observed = UNION all_
      BY <1>8, <3>1
    <3> HIDE DEF all_
    <3>. QED  BY <3>2, <3>3, <3>4, FS_UNION
  <2>2. \A o \in observed : \E i \in served : o \in each(i)
    BY <1>8
  <2>3. \A o \in observed : o.text \in Nat /\ o.index \in Nat /\ o.provider \in Provider
    BY <1>2, <1>6, <2>2 DEF Alike
  <2>4. \A i, j \in served : order[i] = order[j] => i = j
    BY <1>2 DEF IsInjective
  <2>5. ASSUME NEW o \in observed, NEW q \in observed, o.provider = q.provider PROVE o.attempt = q.attempt
    BY <1>6, <2>2, <2>4, <2>5 DEF Alike
  <2>6. ASSUME NEW o \in observed, NEW q \in observed, o.attempt = q.attempt, o.index = q.index PROVE o = q
    BY <1>6, <2>2, <2>6 DEF Alike
  <2>7. Ranked(observed)
    BY <2>1, <2>3, <2>5, <2>6 DEF Ranked
  <2>8. served = {} => observed = {}
    BY <2>2
  <2>. QED  BY <2>7, <2>8 DEF observed, served
<1>9. CASE observed = {}
  BY <1>5, <1>9
<1>10. CASE selected # None /\ best # 0 /\ observed = all
  <2>1. served # {}
    BY <1>10, BestIs
  <2>2. PICK w \in served : payload.provider = order[w]
    BY <1>7, <1>10, <2>1 DEF Speaks
  <2>3. selected \in Provider
    BY <1>2, <1>7, <1>10, <2>2
  <2>4. 1..n \in SUBSET (1..n)
    OBVIOUS
  <2> HIDE DEF raw, n, selected, best
  <2> DEFINE T == 1..n
  <2>7. all = Viewed(raw, T, best, selected) /\ T \in SUBSET (1..n)
    BY <2>4 DEF Viewed
  <2> HIDE DEF all, T
  <2>5. Alike(all, best, selected)
    BY <1>1, <2>3, <2>7, ObservedAlike
  <2> HIDE DEF observed, served
  <2>6. Ranked(observed)
    BY <1>10, <2>3, <2>5 DEF Ranked, Alike
  <2>. QED  BY <2>1, <2>6 DEF observed, served, selected
<1>. QED  BY <1>4, <1>8, <1>9, <1>10

-----------------------------------------------------------------------------
(***************************************************************************)
(* The results of a search                                                 *)
(***************************************************************************)
\* One of any observations leads the others.
LEMMA OneLeads ==
  ASSUME NEW observed, Ranked(observed), NEW from \in SUBSET observed, from # {}
  PROVE  \E o \in from : \A q \in from : q = o \/ Leads(o, q)
<1> DEFINE Led(s, o) == \A q \in s : q = o \/ Leads(o, q)
           Good == {s \in SUBSET from : s = {} \/ \E o \in s : Led(s, o)}
<1>1. \A o, q \in from : o = q \/ Leads(o, q) \/ Leads(q, o)
  <2> SUFFICES ASSUME NEW o \in from, NEW q \in from PROVE o = q \/ Leads(o, q) \/ Leads(q, o)
    OBVIOUS
  <2>1. /\ o.provider \in Provider /\ q.provider \in Provider /\ o.index \in Nat /\ q.index \in Nat
        /\ o.provider = q.provider => o.attempt = q.attempt
        /\ o.attempt = q.attempt /\ o.index = q.index => o = q
    BY DEF Ranked
  <2>2. o.provider = q.provider \/ Earlier(o.provider, q.provider) \/ Earlier(q.provider, o.provider)
    BY <2>1, NamesAssumption
  <2>3. o.index < q.index \/ q.index < o.index \/ o.index = q.index
    BY <2>1
  <2>. QED  BY <2>1, <2>2, <2>3 DEF Leads
<1>2. ASSUME NEW o \in from, NEW q \in from, NEW t \in from, Leads(o, q), Leads(q, t) PROVE Leads(o, t)
  <2>1. /\ o.provider \in Provider /\ q.provider \in Provider /\ t.provider \in Provider
        /\ o.index \in Nat /\ q.index \in Nat /\ t.index \in Nat
    BY DEF Ranked
  <2>2. Earlier(o.provider, q.provider) /\ Earlier(q.provider, t.provider) => Earlier(o.provider, t.provider)
    BY <2>1, NamesAssumption
  <2>3. o.index < q.index /\ q.index < t.index => o.index < t.index
    BY <2>1
  <2>. QED  BY <1>2, <2>2, <2>3 DEF Leads
<1>3. IsFiniteSet(from)
  BY FS_Subset DEF Ranked
<1>4. {} \in Good
  OBVIOUS
<1>5. ASSUME NEW s \in SUBSET from, s # {}, \A x \in s : s \ {x} \in Good PROVE s \in Good
  <2>1. PICK x \in s : TRUE
    BY <1>5
  <2> DEFINE t == s \ {x}
  <2>2. t \in SUBSET from /\ (t = {} \/ \E o \in t : Led(t, o))
    BY <1>5, <2>1
  <2>3. \A q \in s : q = x \/ q \in t
    OBVIOUS
  <2>4. t \subseteq s
    OBVIOUS
  <2> HIDE DEF t
  <2>5. CASE t = {}
    <3>1. Led(s, x)
      BY <2>3, <2>5
    <3>. QED  BY <2>1, <3>1
  <2>6. CASE t # {}
    <3>1. PICK y \in t : Led(t, y)
      BY <2>2, <2>6
    <3>2. y \in from /\ x \in from /\ y \in s
      BY <2>1, <2>4
    <3>3. CASE x = y \/ Leads(y, x)
      <4>1. Led(s, y)
        BY <2>3, <3>1, <3>3
      <4>. QED  BY <3>2, <4>1
    <3>4. CASE Leads(x, y)
      <4>1. Led(s, x)
        BY <1>2, <2>2, <2>3, <3>1, <3>2, <3>4
      <4>. QED  BY <2>1, <4>1
    <3>. QED  BY <1>1, <3>2, <3>3, <3>4
  <2>. QED  BY <2>5, <2>6
<1> HIDE DEF Good
<1>6. SUBSET from \subseteq Good
  BY <1>3, <1>4, <1>5, OverSubsets
<1>7. from \in Good
  BY <1>6
<1>. QED  BY <1>7 DEF Good

LEMMA SearchFinds ==
  ASSUME NEW observed, Ranked(observed), NEW items, Listing(items)
  PROVE  LET results == SearchResults(items, observed)
         IN /\ Grounded(results, observed)
            /\ \A i \in DOMAIN items :
                 (\E o \in observed : Canon[o.url] = Canon[items[i].url]) =>
                   \E k \in DOMAIN results : Canon[results[k].url] = Canon[items[i].url]
<1> DEFINE n == Len(items)
           cluster(u) == {o \in observed : Canon[o.url] = Canon[u]}
           first == {i \in DOMAIN items :
                      /\ cluster(items[i].url) # {}
                      /\ \A j \in 1..(i - 1) : Canon[items[j].url] # Canon[items[i].url]}
           ranks == Places(items, first)
           same(u) == {o \in cluster(u) : o.url = u}
           from(u) == IF same(u) # {} THEN same(u) ELSE cluster(u)
           voice(u) == CHOOSE o \in from(u) : \A q \in from(u) : q = o \/ Leads(o, q)
           url(k) == items[ranks[k]].url
           x(k) == Result(voice(url(k)), cluster(url(k)))
           results == SearchResults(items, observed)
<1>1. results = [k \in DOMAIN ranks |-> x(k)]
  BY DEF SearchResults
<1>2. n \in Nat /\ DOMAIN items = 1..n
  BY DEF Listing
<1>3. ranks \in Seq(1..n) /\ \A i : i \in Range(ranks) <=> i \in 1..n /\ i \in first
  <2> DEFINE all == [i \in 1..n |-> i]
  <2>1. all \in Seq(1..n) /\ Range(all) = 1..n
    BY <1>2 DEF Range
  <2>2. ranks = Among(all, first)
    BY <1>2 DEF Places
  <2> HIDE DEF all, first, ranks
  <2>. QED  BY <2>1, <2>2, AmongKeeps
<1>4. ASSUME NEW u, cluster(u) # {} PROVE voice(u) \in cluster(u)
  <2>1. from(u) \in SUBSET observed /\ from(u) # {} /\ from(u) \subseteq cluster(u)
    BY <1>4
  <2> HIDE DEF from, cluster
  <2>2. \E o \in from(u) : \A q \in from(u) : q = o \/ Leads(o, q)
    BY <2>1, OneLeads
  <2>3. voice(u) \in from(u)
    BY <2>2
  <2>. QED  BY <2>1, <2>3
<1>5. \A k \in DOMAIN ranks : ranks[k] \in first
  BY <1>3 DEF Range
<1>6. ASSUME NEW k \in DOMAIN ranks
      PROVE  Founded(x(k), observed) /\ Canon[x(k).url] = Canon[url(k)]
  <2> DEFINE u == url(k)
             v == voice(u)
             c == cluster(u)
  <2>1. c # {}
    BY <1>5
  <2>2. v \in c
    BY <1>4, <2>1
  <2>3. c \subseteq observed /\ Canon[v.url] = Canon[u]
    BY <2>2
  <2>4. x(k) = Result(v, c)
    OBVIOUS
  <2> HIDE DEF v, c, u, x
  <2>5. Founded(x(k), observed) /\ x(k).url = v.url
    BY <2>2, <2>3, <2>4 DEF Founded, Result, IsResult
  <2>. QED  BY <2>3, <2>5 DEF u
<1>7. \A i \in DOMAIN results : Founded(results[i], observed)
  <2> HIDE DEF x, ranks
  <2>. QED  BY <1>1, <1>6
<1>8. \E m \in Nat : DOMAIN results = 1..m
  <2> HIDE DEF x, ranks
  <2>1. DOMAIN ranks = 1..Len(ranks) /\ Len(ranks) \in Nat
    BY <1>3
  <2>. QED  BY <1>1, <2>1
<1>9. ASSUME NEW i \in DOMAIN items, \E o \in observed : Canon[o.url] = Canon[items[i].url]
      PROVE  \E k \in DOMAIN results : Canon[results[k].url] = Canon[items[i].url]
  <2> DEFINE alike == {j \in 1..n : Canon[items[j].url] = Canon[items[i].url]}
  <2>1. alike \subseteq Nat /\ alike # {}
    BY <1>2
  <2>2. PICK j \in alike : \A t \in alike : j <= t
    <3> HIDE DEF alike
    <3>. QED  BY <2>1, LeastOf
  <2>3. j \in 1..n /\ Canon[items[j].url] = Canon[items[i].url]
    OBVIOUS
  <2>4. \A t \in 1..(j - 1) : Canon[items[t].url] # Canon[items[j].url]
    BY <1>2, <2>2, <2>3
  <2>5. cluster(items[j].url) # {}
    BY <1>9, <2>3
  <2>6. j \in first
    BY <1>2, <2>3, <2>4, <2>5
  <2> HIDE DEF first, ranks, x, cluster, alike, url
  <2>7. PICK k \in DOMAIN ranks : ranks[k] = j
    BY <1>3, <2>3, <2>6 DEF Range
  <2>8. results[k] = x(k) /\ k \in DOMAIN results
    BY <1>1
  <2>9. Canon[x(k).url] = Canon[items[j].url]
    BY <1>6, <2>7 DEF url
  <2>. QED  BY <2>3, <2>8, <2>9
<1>10. results = [k \in DOMAIN results |-> results[k]]
  <2> HIDE DEF x, ranks
  <2>. QED  BY <1>1
<1> HIDE DEF results
<1>11. Grounded(results, observed)
  BY <1>7, <1>8, <1>10 DEF Grounded
<1>. QED  BY <1>9, <1>11 DEF results

-----------------------------------------------------------------------------
(***************************************************************************)
(* The results of an extraction                                            *)
(***************************************************************************)
\* What grows with its place, within as many places, is its place.
LEMMA GrowsInPlace ==
  ASSUME NEW n \in Nat, NEW h \in [1..n -> 1..n],
         \A i, j \in 1..n : i < j => h[i] < h[j], \A k \in 1..n : \E i \in 1..n : h[i] = k
  PROVE  \A i \in 1..n : h[i] = i
<1> DEFINE T == {i \in 1..n : h[i] # i}
<1>1. SUFFICES ASSUME T # {} PROVE FALSE
  OBVIOUS
<1>2. T \subseteq Nat
  OBVIOUS
<1>3. PICK k \in T : \A j \in T : k <= j
  <2> HIDE DEF T
  <2>. QED  BY <1>1, <1>2, LeastOf
<1>4. k \in 1..n /\ h[k] # k /\ k \in Nat /\ h[k] \in 1..n
  OBVIOUS
<1>5. \A j \in 1..n : j < k => h[j] = j
  BY <1>3, <1>4
<1>6. PICK m \in 1..n : h[m] = k
  BY <1>4
<1>7. m # k /\ ~(m < k)
  BY <1>4, <1>5, <1>6
<1>8. k < m /\ h[k] < k
  BY <1>4, <1>6, <1>7
<1>9. h[k] \in 1..n /\ h[h[k]] = h[k]
  BY <1>4, <1>5, <1>8
<1>10. h[h[k]] < h[k]
  BY <1>4, <1>8
<1>. QED  BY <1>4, <1>9, <1>10

\* With a page or a reason at every slot, the results stand in the order of the slots.
LEMMA SlotsInPlace ==
  ASSUME NEW n \in Nat, NEW observed, Slotted(observed, n),
         NEW items, \A u \in 1..n : \E o \in observed : o.slot = u /\ o.url = items[u].url
  PROVE  LET results == ExtractResults(observed)
         IN DOMAIN results = 1..n /\ \A i \in 1..n : results[i].url = items[i].url
<1> DEFINE Increases(s) == \A i, j \in DOMAIN s : i < j => s[i].slot < s[j].slot
           g  == [u \in 1..n |-> CHOOSE o \in observed : o.slot = u]
           by == BySlot(observed)
           h  == [i \in 1..n |-> by[i].slot]
<1>1. \A u \in 1..n : g[u] \in observed /\ g[u].slot = u
  BY DEF Slotted
<1>2. \A o \in observed : o.slot \in 1..n /\ o = g[o.slot] /\ o.url = items[o.slot].url
  BY <1>1 DEF Slotted
<1>3. g \in [1..n -> observed]
  BY <1>1
<1> HIDE DEF g
<1>4. IsFiniteSet(1..n) /\ Cardinality(1..n) = n
  BY FS_Interval
<1>5. Cardinality(observed) = n
  <2>1. g \in Bijection(1..n, observed)
    BY <1>1, <1>2, <1>3 DEF Bijection, Injection, Surjection, IsInjective
  <2>. QED  BY <2>1, <1>4, FS_Bijection DEF ExistsBijection
<1>6. g \in [1..Cardinality(observed) -> observed] /\ Increases(g)
  BY <1>1, <1>3, <1>5
<1>7. by \in [1..n -> observed] /\ Increases(by)
  BY <1>5, <1>6 DEF BySlot
<1> HIDE DEF by
<1>8. h \in [1..n -> 1..n]
  BY <1>2, <1>7
<1>9. \A i, j \in 1..n : i < j => h[i] < h[j]
  BY <1>7
<1>10. h \in Surjection(1..n, 1..n)
  <2>1. \A i, j \in 1..n : h[i] = h[j] => i = j
    <3> SUFFICES ASSUME NEW i \in 1..n, NEW j \in 1..n, h[i] = h[j] PROVE i = j
      OBVIOUS
    <3>1. h[i] \in Nat /\ h[j] \in Nat
      BY <1>8
    <3> HIDE DEF h
    <3>2. ~(i < j) /\ ~(j < i)
      BY <1>9, <3>1
    <3>. QED  BY <3>2
  <2> HIDE DEF h
  <2>2. h \in Injection(1..n, 1..n)
    BY <1>8, <2>1 DEF Injection, IsInjective
  <2>. QED  BY <1>4, <2>2, FS_Injection
<1>11. \A k \in 1..n : \E i \in 1..n : h[i] = k
  <2> HIDE DEF h
  <2>. QED  BY <1>10 DEF Surjection
<1>12. \A i \in 1..n : h[i] = i
  <2> HIDE DEF h
  <2>. QED  BY <1>8, <1>9, <1>11, GrowsInPlace, ZenonT(30)
<1>13. \A i \in 1..n : by[i] \in observed /\ by[i].slot = i
  BY <1>7, <1>12
<1>14. \A i \in 1..n : by[i].url = items[i].url
  BY <1>2, <1>13
<1>15. ExtractResults(observed) = [i \in 1..n |-> Result(by[i], {by[i]})]
  BY <1>7 DEF ExtractResults, by
<1>16. \A i \in 1..n : Result(by[i], {by[i]}).url = by[i].url
  BY DEF Result
<1>. QED  BY <1>14, <1>15, <1>16

\* An item for every URL: a page some attempt served, or the reason there is none.
Handed(payload, attempts, order) ==
  /\ ~payload.research /\ payload.raw = payload.items /\ Listing(payload.items)
  /\ \A u \in DOMAIN payload.items : payload.items[u].error => payload.items[u].provider = None
  /\ \/ \A u \in DOMAIN payload.items : payload.items[u].provider = None
     \/ \A u \in DOMAIN payload.items : payload.items[u].error \/ ServedBy(payload.items[u], attempts)
  /\ \E w \in ServedAttempts(attempts) : payload.provider = order[w]

LEMMA EachSlotObserved ==
  ASSUME NEW order \in Seq(Provider), IsInjective(order), None \notin Provider,
         NEW attempts, Tried(attempts, order), NEW payload, Handed(payload, attempts, order),
         NEW u \in DOMAIN payload.items
  PROVE  \E o \in Observations("extract", payload, attempts, Selected(payload)) :
            o.slot = u /\ o.url = payload.items[u].url
<1> DEFINE items    == payload.items
           selected == Selected(payload)
           observed == Observations("extract", payload, attempts, selected)
           best     == Best(attempts, selected)
           slots(i) == Slots("extract", items, attempts, best, i)
           served   == ServedAttempts(attempts)
<1>1. PICK w \in served : payload.provider = order[w]
  BY DEF Handed
<1>2. /\ w # 0 /\ attempts # <<>> /\ order[w] \in Provider
      /\ \A i \in served : attempts[i].provider = order[i]
  BY <1>1, ServedOf
<1>3. selected = order[w] /\ selected # None
  BY <1>1, <1>2 DEF Handed, Selected
<1>4. best = w
  BY <1>1, <1>3, BestIs
<1>5. \A s, T, i, p : Observation(items, s, T, i, p).slot = s /\ Observation(items, s, T, i, p).url = items[s].url
  BY DEF Observation
<1>6. CASE Merged("extract", items, attempts)
  <2>1. observed = UNION {{Observation(items, s, slots(i), i, attempts[i].provider) : s \in slots(i)} : i \in served}
    BY <1>2, <1>6 DEF Observations, Handed
  <2>2. items[u].error \/ ServedBy(items[u], attempts)
    BY <1>6, NotMerged DEF Handed
  <2>3. \E i \in served : u \in slots(i)
    <3>1. CASE items[u].error
      <4>1. items[u].provider = None
        BY <3>1 DEF Handed
      <4>2. u \in slots(w)
        BY <1>4, <3>1, <4>1 DEF Slots
      <4>. QED  BY <1>1, <4>2
    <3>2. CASE ServedBy(items[u], attempts)
      BY <3>2 DEF ServedBy, Slots
    <3>. QED  BY <2>2, <3>1, <3>2
  <2>4. PICK i \in served : u \in slots(i)
    BY <2>3
  <2> DEFINE o == Observation(items, u, slots(i), i, attempts[i].provider)
  <2>5. o \in observed
    <3> HIDE DEF slots, served, observed
    <3>. QED  BY <2>1, <2>4
  <2> HIDE DEF observed, slots
  <2>6. o.slot = u /\ o.url = items[u].url
    BY <1>5
  <2> HIDE DEF o
  <2>. QED  BY <2>5, <2>6 DEF observed
<1>7. CASE ~Merged("extract", items, attempts)
  <2>1. observed = {Observation(items, s, DOMAIN items, best, selected) : s \in DOMAIN items}
    BY <1>2, <1>3, <1>4, <1>7 DEF Observations, Handed
  <2>. QED  BY <1>5, <2>1
<1>. QED  BY <1>6, <1>7

-----------------------------------------------------------------------------
(***************************************************************************)
(* The response that may be built                                          *)
(***************************************************************************)
\* What stands behind a result, which may have been shortened.
Backed(x, observed) ==
  /\ IsResult(x) /\ x.of \in x.members /\ x.members \subseteq observed
  /\ x.text \in Nat /\ x.of.text \in Nat /\ x.text <= x.of.text

\* A response but for its receipt.
Sound(rs) ==
  /\ IsResponse(rs) /\ Ranked(rs.observed)
  /\ \E m \in Nat : DOMAIN rs.results = 1..m
  /\ \A i \in DOMAIN rs.results : Backed(rs.results[i], rs.observed)
  /\ \A x \in rs.stored : x.of \in rs.observed
  /\ rs.status = "degraded" => rs.warnings \cap {"stale", "truncated", "omitted", "partial", "limited"} # {}
  /\ rs.error = (rs.status = "failed")

LEMMA SoundIsValid ==
  ASSUME NEW rs, Sound(rs), ValidReceipt(rs.receipt, rs.attempts)
  PROVE  ValidResponse(rs)
<1>1. \A o, p \in rs.observed : <<o.attempt, o.index>> = <<p.attempt, p.index>> => o = p
  BY DEF Sound, Ranked
<1>2. \A x \in Range(rs.results) : x.of \in x.members /\ x.members \subseteq rs.observed /\ x.text <= x.of.text
  <2> SUFFICES ASSUME NEW x \in Range(rs.results)
               PROVE  x.of \in x.members /\ x.members \subseteq rs.observed /\ x.text <= x.of.text
    OBVIOUS
  <2>1. PICK i \in DOMAIN rs.results : x = rs.results[i]
    BY DEF Range
  <2>. QED  BY <2>1 DEF Sound, Backed
<1>3. {x.of : x \in rs.stored} \subseteq rs.observed
  BY DEF Sound
<1>. QED  BY <1>1, <1>2, <1>3 DEF ValidResponse, Sound

LEMMA GroundedIsBacked ==
  ASSUME NEW results, NEW observed, Grounded(results, observed), Ranked(observed)
  PROVE  /\ \E m \in Nat : DOMAIN results = 1..m
         /\ \A i \in DOMAIN results : Backed(results[i], observed)
         /\ results # <<>> => observed # {}
<1>1. ASSUME NEW i \in DOMAIN results PROVE Backed(results[i], observed) /\ observed # {}
  <2> DEFINE x == results[i]
  <2>1. Founded(x, observed)
    BY DEF Grounded
  <2> HIDE DEF x
  <2>2. x.of \in observed /\ x.of.text \in Nat
    BY <2>1 DEF Founded, Ranked
  <2>3. x.text <= x.of.text
    BY <2>1, <2>2 DEF Founded
  <2>4. Backed(x, observed) /\ observed # {}
    BY <2>1, <2>2, <2>3 DEF Founded, Backed
  <2>. QED  BY <2>4 DEF x
<1>2. results # <<>> => DOMAIN results # {}
  BY DEF Grounded
<1>. QED  BY <1>1, <1>2 DEF Grounded

\* Of a run that answers the response that is built is sound, and its receipt rests on
\* the attempts.
LEMMA BuiltStands ==
  ASSUME NEW order \in Seq(Provider), IsInjective(order), None \notin Provider,
         NEW attempts, Tried(attempts, order), NEW kind, NEW payload,
         Speaks(payload, attempts, order), Listing(payload.raw), Listing(payload.items),
         payload.research => kind # "extract"
  PROVE  LET new == Built(kind, payload, attempts, order)
             observed == Observations(kind, payload, attempts, Selected(payload))
         IN /\ Sound(new) /\ Rests(new.receipt, attempts, order) /\ new.attempts = attempts
            /\ new.results = IF kind = "extract" THEN ExtractResults(observed)
                             ELSE SearchResults(payload.items, observed)
<1> DEFINE selected == IF payload.research THEN None ELSE payload.provider
           observed == Observations(kind, payload, attempts, selected)
           results  == IF kind = "extract" THEN ExtractResults(observed) ELSE SearchResults(payload.items, observed)
           missing  == \E it \in Range(payload.items) : it.error
           failed   == payload.error /\ results = <<>>
           limited  == Limited(payload, attempts)
           status   == IF failed THEN "failed" ELSE IF missing \/ limited THEN "degraded" ELSE "ok"
           said     == (IF missing THEN {"partial"} ELSE {}) \cup (IF limited /\ ~failed THEN {"limited"} ELSE {})
           chosen   == IF results = <<>> THEN None ELSE selected
           new      == Built(kind, payload, attempts, order)
           receipt  == [order |-> order, selected |-> chosen, fallback |-> payload.fallback, preflight |-> None,
                        completed |-> FALSE, decisions |-> <<>>, origin |-> None]
<1>1. new = [kind |-> kind, results |-> results, observed |-> observed, attempts |-> attempts,
             status |-> status, warnings |-> said, error |-> failed, receipt |-> receipt,
             evidence |-> 0, limits |-> None, stored |-> {}, cache |-> "miss"]
  BY DEF Built
<1>2. selected = Selected(payload)
  BY DEF Selected
<1>3. Ranked(observed) /\ (ServedAttempts(attempts) = {} => observed = {})
  <2>1. observed = Observations(kind, payload, attempts, Selected(payload))
    BY <1>2
  <2> HIDE DEF observed, selected
  <2>. QED  BY <2>1, ObservedRanked
<1>4. Grounded(results, observed)
  <2>1. CASE kind = "extract"
    <3> DEFINE n == Len(payload.raw)
    <3>1. n \in Nat /\ DOMAIN payload.raw = 1..n /\ \A s \in 1..n : payload.raw[s].size \in Nat
      BY DEF Listing
    <3>2. \A i \in DOMAIN attempts : i \in DOMAIN order /\ attempts[i].provider = order[i]
      BY DEF Tried
    <3> HIDE DEF n, selected
    <3>3. Slotted(observed, n)
      BY <2>1, <3>1, <3>2, ExtractSlotted
    <3> HIDE DEF observed
    <3>. QED  BY <2>1, <3>1, <3>3, SlotsListed
  <2>2. CASE kind # "extract"
    <3> HIDE DEF observed
    <3>. QED  BY <1>3, <2>2, SearchFinds
  <2>. QED  BY <2>1, <2>2
<1>5. /\ status = "degraded" => said \cap {"stale", "truncated", "omitted", "partial", "limited"} # {}
      /\ failed = (status = "failed")
  <2> HIDE DEF results, missing, limited
  <2>. QED  OBVIOUS
<1> HIDE DEF results, observed, status, said, failed, missing, limited
<1>6. /\ \E m \in Nat : DOMAIN results = 1..m
      /\ \A i \in DOMAIN results : Backed(results[i], observed)
      /\ results # <<>> => observed # {}
  BY <1>3, <1>4, GroundedIsBacked
<1>7. Rests(receipt, attempts, order)
  <2>1. ASSUME chosen # None
        PROVE  \E w \in ServedAttempts(attempts) : chosen = order[w] /\ ((payload.fallback = "none") <=> (w = 1))
    <3>1. chosen = payload.provider /\ ~payload.research /\ results # <<>>
      BY <2>1
    <3>2. ServedAttempts(attempts) # {}
      BY <1>3, <1>6, <3>1
    <3>. QED  BY <3>1, <3>2 DEF Speaks
  <2> HIDE DEF chosen
  <2>2. receipt.order = order /\ receipt.selected = chosen /\ receipt.fallback = payload.fallback /\ IsReceipt(receipt)
    BY DEF IsReceipt
  <2> HIDE DEF receipt
  <2>. QED  BY <2>1, <2>2 DEF Rests
<1>8. IsReceipt(receipt)
  BY DEF IsReceipt
<1> HIDE DEF receipt, new
<1>9. /\ IsResponse(new) /\ new.results = results /\ new.observed = observed /\ new.status = status
      /\ new.warnings = said /\ new.error = failed /\ new.stored = {} /\ new.receipt = receipt
      /\ new.attempts = attempts
  BY <1>1, <1>8 DEF IsResponse
<1>10. Sound(new)
  BY <1>3, <1>5, <1>6, <1>9 DEF Sound
<1>11. results = IF kind = "extract" THEN ExtractResults(observed) ELSE SearchResults(payload.items, observed)
  BY DEF results
<1>12. observed = Observations(kind, payload, attempts, Selected(payload))
  BY <1>2 DEF observed
<1>. QED  BY <1>7, <1>9, <1>10, <1>11, <1>12 DEF new

\* The rows are the same, in number and in the pages they are about.
SameRows(results, was) ==
  /\ DOMAIN results = DOMAIN was
  /\ \A i \in DOMAIN was : results[i].url = was[i].url

LEMMA EvidencedStands ==
  ASSUME NEW rs, Sound(rs), NEW order, Rests(rs.receipt, rs.attempts, order), NEW d
  PROVE  LET new == Evidenced(rs, d)
         IN Sound(new) /\ Rests(new.receipt, new.attempts, order) /\ new.results = rs.results
<1> DEFINE new == Evidenced(rs, d)
<1>1. IsResponse(rs) /\ IsReceipt(rs.receipt)
  BY DEF Sound, IsResponse
<1>2. /\ IsResponse(new)
      /\ new.results = rs.results /\ new.observed = rs.observed /\ new.attempts = rs.attempts
      /\ new.warnings = rs.warnings /\ new.error = rs.error /\ new.status = rs.status
      /\ new.stored = rs.stored
  BY <1>1, EvidencedKeeps
<1>3. /\ new.receipt.order = rs.receipt.order /\ new.receipt.selected = rs.receipt.selected
      /\ new.receipt.fallback = rs.receipt.fallback /\ IsReceipt(new.receipt)
  BY <1>1 DEF Evidenced, IsResponse, IsReceipt
<1> HIDE DEF new
<1>4. Sound(new)
  BY <1>2 DEF Sound
<1>5. Rests(new.receipt, new.attempts, order)
  BY <1>2, <1>3 DEF Rests
<1>. QED  BY <1>2, <1>4, <1>5 DEF new

LEMMA CompleteStands ==
  ASSUME NEW rs, Sound(rs), NEW order \in Seq(Provider), IsInjective(order), Tried(rs.attempts, order),
         None \notin Provider, Rests(rs.receipt, rs.attempts, order)
  PROVE  LET new == Complete(rs)
         IN Sound(new) /\ ValidReceipt(new.receipt, new.attempts) /\ new.results = rs.results
<1> DEFINE done == Completed(rs.receipt, rs.attempts)
           new  == Complete(rs)
<1>1. new = [rs EXCEPT !.receipt = done]
  BY DEF Complete
<1>2. IsResponse(rs) /\ IsReceipt(rs.receipt)
  BY DEF Sound, IsResponse
<1>3. IsReceipt(done)
  BY <1>2, CompletedIs
<1>4. ValidReceipt(done, rs.attempts)
  BY ReceiptStands
<1> HIDE DEF done, new
<1>5. new = [kind |-> rs.kind, results |-> rs.results, observed |-> rs.observed, attempts |-> rs.attempts,
             status |-> rs.status, warnings |-> rs.warnings, error |-> rs.error, receipt |-> done,
             evidence |-> rs.evidence, limits |-> rs.limits, stored |-> rs.stored, cache |-> rs.cache]
  BY <1>1, <1>2 DEF IsResponse
<1>6. /\ IsResponse(new)
      /\ new.results = rs.results /\ new.observed = rs.observed /\ new.attempts = rs.attempts
      /\ new.warnings = rs.warnings /\ new.error = rs.error /\ new.status = rs.status
      /\ new.stored = rs.stored /\ new.receipt = done
  BY <1>3, <1>5 DEF IsResponse
<1>7. Sound(new)
  BY <1>6 DEF Sound
<1>. QED  BY <1>4, <1>6, <1>7 DEF new

LEMMA BoundedStands ==
  ASSUME NEW rs, Sound(rs), NEW chars \in Nat, NEW omitted, NEW storable
  PROVE  LET new == Bounded(rs, chars, omitted, storable)
         IN /\ Sound(new) /\ new.receipt = rs.receipt /\ new.attempts = rs.attempts
            /\ SameRows(new.results, rs.results)
<1> DEFINE results == rs.results
           lengths == [i \in DOMAIN results |-> results[i].text]
           given   == FairShare(lengths, chars)
           cut     == {i \in DOMAIN lengths : given[i] < lengths[i]}
           texts   == [i \in DOMAIN results |-> IF i \in cut THEN [results[i] EXCEPT !.text = given[i]] ELSE results[i]]
           lost    == {[of |-> results[i].of, ok |-> storable] : i \in cut}
           said    == rs.warnings \cup (IF cut # {} THEN {"truncated"} ELSE {})
                         \cup (IF omitted > 0 THEN {"omitted"} ELSE {})
                         \cup (IF cut # {} /\ ~storable THEN {"unstored"} ELSE {})
           status  == IF rs.status # "failed" /\ (cut # {} \/ omitted > 0) THEN "degraded" ELSE rs.status
           limits  == [chars |-> chars, omitted |-> omitted]
           new     == Bounded(rs, chars, omitted, storable)
<1>1. new = [rs EXCEPT !.results = texts, !.stored = lost, !.warnings = said, !.limits = limits, !.status = status]
  BY DEF Bounded
<1>2. PICK m \in Nat : DOMAIN results = 1..m
  BY DEF Sound
<1>3. \A i \in DOMAIN results : Backed(results[i], rs.observed)
  BY DEF Sound
<1>4. Texts(lengths, m)
  BY <1>2, <1>3 DEF Texts, Backed
<1>5. given \in [1..m -> Nat]
  <2> HIDE DEF lengths
  <2>. QED  BY <1>4, FairShareFits
<1> HIDE DEF given
<1>6. \A i \in 1..m : given[i] \in Nat
  BY <1>5
<1>7. ASSUME NEW i \in DOMAIN results
      PROVE  Backed(texts[i], rs.observed) /\ texts[i].url = results[i].url
  <2> DEFINE x == results[i]
             y == texts[i]
  <2>1. Backed(x, rs.observed) /\ x.text = lengths[i] /\ i \in DOMAIN lengths /\ given[i] \in Nat
    BY <1>2, <1>3, <1>6
  <2>2. y = IF given[i] < x.text THEN [x EXCEPT !.text = given[i]] ELSE x
    OBVIOUS
  <2> HIDE DEF x, y, lengths
  <2>3. CASE given[i] < x.text
    <3>1. y = [url |-> x.url, of |-> x.of, members |-> x.members, text |-> given[i]]
      BY <2>1, <2>2, <2>3 DEF Backed, IsResult
    <3>2. x.text \in Nat /\ x.of.text \in Nat /\ x.text <= x.of.text
      BY <2>1 DEF Backed
    <3>3. given[i] <= x.of.text
      BY <2>1, <2>3, <3>2
    <3>4. Backed(y, rs.observed) /\ y.url = x.url
      BY <2>1, <3>1, <3>2, <3>3 DEF Backed, IsResult
    <3>. QED  BY <3>4 DEF x, y
  <2>4. CASE ~(given[i] < x.text)
    <3>1. y = x
      BY <2>2, <2>4
    <3>2. Backed(y, rs.observed) /\ y.url = x.url
      BY <2>1, <3>1
    <3>. QED  BY <3>2 DEF x, y
  <2>. QED  BY <2>3, <2>4
<1>8. \A x \in lost : x.of \in rs.observed
  <2> SUFFICES ASSUME NEW x \in lost PROVE x.of \in rs.observed
    OBVIOUS
  <2>1. PICK i \in cut : x = [of |-> results[i].of, ok |-> storable]
    OBVIOUS
  <2>2. i \in DOMAIN results
    OBVIOUS
  <2>3. results[i].of \in rs.observed
    BY <1>3, <2>2 DEF Backed
  <2>. QED  BY <2>1, <2>3
<1>9. /\ status = "degraded" => said \cap {"stale", "truncated", "omitted", "partial", "limited"} # {}
      /\ (status = "failed") = (rs.status = "failed")
  <2>1. rs.status = "degraded" => rs.warnings \cap {"stale", "truncated", "omitted", "partial", "limited"} # {}
    BY DEF Sound
  <2> HIDE DEF cut
  <2>2. status = "degraded" => rs.status = "degraded" \/ cut # {} \/ omitted > 0
    OBVIOUS
  <2>3. rs.warnings \subseteq said /\ (cut # {} => "truncated" \in said) /\ (omitted > 0 => "omitted" \in said)
    OBVIOUS
  <2>4. status = "degraded" => said \cap {"stale", "truncated", "omitted", "partial", "limited"} # {}
    <3> HIDE DEF said, status
    <3>. QED  BY <2>1, <2>2, <2>3
  <2>5. (status = "failed") <=> (rs.status = "failed")
    OBVIOUS
  <2>. QED  BY <2>4, <2>5
<1>10. DOMAIN texts = DOMAIN results
  OBVIOUS
<1> HIDE DEF texts, lost, said, status, limits, new, cut
<1>11. /\ IsResponse(new) /\ new.results = texts /\ new.warnings = said /\ new.status = status
       /\ new.stored = lost /\ new.observed = rs.observed /\ new.attempts = rs.attempts
       /\ new.error = rs.error /\ new.receipt = rs.receipt
  BY <1>1 DEF IsResponse, Sound
<1>12. Sound(new)
  <2>1. rs.error = (rs.status = "failed") /\ Ranked(rs.observed)
    BY DEF Sound
  <2>2. rs.error = (status = "failed")
    BY <1>9, <2>1
  <2> HIDE DEF results
  <2>. QED  BY <1>2, <1>7, <1>8, <1>9, <1>10, <1>11, <2>1, <2>2 DEF Sound
<1>13. SameRows(new.results, results)
  BY <1>7, <1>10, <1>11 DEF SameRows
<1>. QED  BY <1>11, <1>12, <1>13 DEF new

LEMMA FinalStands ==
  ASSUME scene \in Scenes, NEW r, req[r] \in RequestV3, plan[r].order \in Seq(Provider),
         IsInjective(plan[r].order), RunAnswers(r), NEW storable
  PROVE  LET final    == Final(r, storable)
             observed == Observations(req[r].kind, run[r].payload, run[r].attempts, Selected(run[r].payload))
         IN /\ ValidResponse(final)
            /\ SameRows(final.results, IF req[r].kind = "extract" THEN ExtractResults(observed)
                                       ELSE SearchResults(run[r].payload.items, observed))
<1> DEFINE kind     == req[r].kind
           payload  == run[r].payload
           attempts == run[r].attempts
           order    == plan[r].order
           observed == Observations(kind, payload, attempts, Selected(payload))
           results  == IF kind = "extract" THEN ExtractResults(observed) ELSE SearchResults(payload.items, observed)
           built    == Built(kind, payload, attempts, order)
           told     == Evidenced(built, verdict[r])
           done     == Complete(told)
           rs       == Finalized(r, done, storable)
           final    == Final(r, storable)
<1>1. /\ order \in Seq(Provider) /\ IsInjective(order) /\ None \notin Provider /\ Tried(attempts, order)
      /\ Speaks(payload, attempts, order) /\ Listing(payload.raw) /\ Listing(payload.items)
      /\ payload.research => kind # "extract"
  BY SceneIs DEF RunAnswers, Answering
<1>2. Chars(r) \in Nat
  BY CharsIs
<1>3. final = [rs EXCEPT !.cache = IF req[r].cache = "bypass" THEN "bypassed" ELSE @]
  BY DEF Final
<1>4. kind # "extract" => rs = done
  BY DEF Finalized
<1>5. kind = "extract" => rs = Bounded(done, Chars(r), Omitted(r), storable)
  BY DEF Finalized
<1> HIDE DEF kind, payload, attempts, order, rs, final
<1>6. Sound(built) /\ Rests(built.receipt, attempts, order) /\ built.attempts = attempts /\ built.results = results
  BY <1>1, BuiltStands
<1> HIDE DEF built, results
<1>7. Sound(told) /\ Rests(told.receipt, told.attempts, order) /\ told.results = results /\ told.attempts = attempts
  <2>1. Sound(told) /\ Rests(told.receipt, told.attempts, order) /\ told.results = results
    BY <1>6, EvidencedStands
  <2>2. told.attempts = attempts
    BY <1>6, EvidencedKeeps DEF Sound
  <2>. QED  BY <2>1, <2>2
<1> HIDE DEF told
<1>8. Sound(done) /\ ValidReceipt(done.receipt, done.attempts) /\ done.results = results
  BY <1>1, <1>7, CompleteStands
<1> HIDE DEF done
<1>9. Sound(rs) /\ ValidReceipt(rs.receipt, rs.attempts) /\ SameRows(rs.results, results)
  <2>1. CASE kind = "extract"
    BY <1>2, <1>5, <1>8, <2>1, BoundedStands
  <2>2. CASE kind # "extract"
    BY <1>4, <1>8, <2>2 DEF SameRows
  <2>. QED  BY <2>1, <2>2
<1>10. /\ IsResponse(final) /\ final.results = rs.results /\ final.observed = rs.observed
       /\ final.attempts = rs.attempts /\ final.status = rs.status /\ final.warnings = rs.warnings
       /\ final.error = rs.error /\ final.receipt = rs.receipt /\ final.stored = rs.stored
  BY <1>3, <1>9 DEF IsResponse, Sound
<1>11. Sound(final)
  BY <1>9, <1>10 DEF Sound
<1>12. ValidResponse(final)
  BY <1>9, <1>10, <1>11, SoundIsValid
<1>13. SameRows(final.results, results)
  BY <1>9, <1>10
<1>. QED  BY <1>12, <1>13 DEF final, results, kind, payload, attempts

-----------------------------------------------------------------------------
(***************************************************************************)
(* The rows an extraction is answered in                                   *)
(***************************************************************************)
LEMMA AllPlaces ==
  ASSUME NEW n \in Nat, NEW seq, DOMAIN seq = 1..n, NEW I, 1..n \subseteq I
  PROVE  Places(seq, I) = [k \in 1..n |-> k]
<1> DEFINE all == [i \in 1..n |-> i]
<1>1. Places(seq, I) = Among(all, I)
  BY DEF Places
<1>2. DOMAIN all = 1..n /\ Picked(all, I, 1..n) = 1..n /\ \A i \in 1..n : all[i] = i
  BY DEF Picked
<1> HIDE DEF all
<1>3. PICK m \in Nat : \E e : Lists(e, m, 1..n) /\ Among(all, I) = [k \in 1..m |-> all[e[k]]]
  BY <1>2, AmongIs
<1>4. PICK e : Lists(e, m, 1..n) /\ Among(all, I) = [k \in 1..m |-> all[e[k]]]
  BY <1>3
<1>5. /\ e \in [1..m -> 1..n] /\ \A i, j \in 1..m : i < j => e[i] < e[j]
      /\ \A x \in 1..n : \E k \in 1..m : e[k] = x
  BY <1>4 DEF Lists
<1>6. m = n
  <2>1. \A i, j \in 1..m : e[i] = e[j] => i = j
    <3> SUFFICES ASSUME NEW i \in 1..m, NEW j \in 1..m, e[i] = e[j] PROVE i = j
      OBVIOUS
    <3>1. e[i] \in Nat /\ e[j] \in Nat
      BY <1>5
    <3>2. ~(i < j) /\ ~(j < i)
      BY <1>5, <3>1
    <3>. QED  BY <3>2
  <2>2. e \in Bijection(1..m, 1..n)
    BY <1>5, <2>1 DEF Bijection, Injection, Surjection, IsInjective
  <2>3. \A x \in Nat : IsFiniteSet(1..x) /\ Cardinality(1..x) = x
    BY FS_Interval
  <2>4. IsFiniteSet(1..m) /\ IsFiniteSet(1..n) /\ Cardinality(1..m) = m /\ Cardinality(1..n) = n
    BY <2>3
  <2>5. Cardinality(1..m) = Cardinality(1..n)
    BY <2>2, <2>4, FS_Bijection DEF ExistsBijection
  <2>. QED  BY <2>4, <2>5
<1>7. \A i \in 1..n : e[i] = i
  BY <1>5, <1>6, GrowsInPlace
<1>8. Among(all, I) = [k \in 1..n |-> k]
  BY <1>2, <1>4, <1>6, <1>7
<1>. QED  BY <1>1, <1>8

\* A row per item, in the order of the items, then one per URL that was left out.
RowsOf(rows, items, left) ==
  /\ DOMAIN rows = 1..(Len(items) + Len(left))
  /\ \A k \in DOMAIN items : rows[k].url = items[k].url /\ rows[k].error = items[k].error
  /\ \A k \in DOMAIN left : rows[Len(items) + k].url = left[k]

LEMMA ProjectedIs ==
  ASSUME NEW rs, NEW items, Listing(items), NEW left \in Seq(Url),
         \/ \A i \in DOMAIN items : items[i].error
         \/ DOMAIN rs.results = DOMAIN items /\ \A i \in DOMAIN items : rs.results[i].url = items[i].url
  PROVE  RowsOf(Projected(rs, items, left), items, left)
<1> DEFINE n == Len(items)
           nth(seq, i) == Cardinality({j \in 1..i : seq[j].url = seq[i].url})
           answer(i)   == {r \in DOMAIN rs.results :
                             /\ rs.results[r].url = items[i].url
                             /\ nth(rs.results, r) = nth(items, i)}
           row(i)      == [url |-> items[i].url, error |-> items[i].error,
                           text |-> IF answer(i) = {} THEN 0 ELSE rs.results[CHOOSE r \in answer(i) : TRUE].text]
           kept        == Places(items, {i \in DOMAIN items : answer(i) # {} \/ items[i].error})
           lost(k)     == [url |-> left[k], error |-> TRUE, text |-> 0]
           first       == [k \in DOMAIN kept |-> row(kept[k])]
           rest        == [k \in DOMAIN left |-> lost(k)]
           rows        == Projected(rs, items, left)
<1>1. n \in Nat /\ DOMAIN items = 1..n
  BY DEF Listing
<1>2. rows = first \o rest
  BY DEF Projected
<1>3. \A i \in 1..n : answer(i) # {} \/ items[i].error
  <2>1. CASE \A i \in DOMAIN items : items[i].error
    BY <1>1, <2>1
  <2>2. CASE DOMAIN rs.results = DOMAIN items /\ \A i \in DOMAIN items : rs.results[i].url = items[i].url
    <3> SUFFICES ASSUME NEW i \in 1..n PROVE i \in answer(i)
      OBVIOUS
    <3>1. \A j \in 1..i : j \in DOMAIN items
      BY <1>1
    <3>2. {j \in 1..i : rs.results[j].url = rs.results[i].url} = {j \in 1..i : items[j].url = items[i].url}
      BY <1>1, <2>2, <3>1
    <3>3. nth(rs.results, i) = nth(items, i)
      BY <3>2
    <3> HIDE DEF nth
    <3>. QED  BY <1>1, <2>2, <3>3
  <2>. QED  BY <2>1, <2>2
<1>4. kept = [k \in 1..n |-> k]
  <2> DEFINE I == {i \in DOMAIN items : answer(i) # {} \/ items[i].error}
  <2>1. 1..n \subseteq I
    <3> HIDE DEF answer
    <3>. QED  BY <1>1, <1>3
  <2>2. kept = Places(items, I)
    OBVIOUS
  <2> HIDE DEF I, kept, n
  <2>. QED  BY <1>1, <2>1, <2>2, AllPlaces
<1>5. \A i : row(i).url = items[i].url /\ row(i).error = items[i].error
  BY ZenonT(30)
<1>6. \A k : lost(k).url = left[k]
  OBVIOUS
<1>7. Len(left) \in Nat /\ DOMAIN left = 1..Len(left)
  OBVIOUS
<1> DEFINE T == {row(i) : i \in 1..n} \cup {lost(k) : k \in 1..Len(left)}
<1>8. \A k \in 1..n : row(k) \in T
  BY ZenonT(30)
<1>9. \A k \in 1..Len(left) : lost(k) \in T
  BY ZenonT(30)
<1> HIDE DEF T, row, lost, kept
<1>10. first = [k \in 1..n |-> row(k)]
  BY <1>4
<1>11. first \in Seq(T) /\ Len(first) = n /\ \A k \in 1..n : first[k] = row(k)
  BY <1>1, <1>8, <1>10
<1>12. rest \in Seq(T) /\ Len(rest) = Len(left) /\ \A k \in 1..Len(left) : rest[k] = lost(k)
  BY <1>7, <1>9
<1> HIDE DEF first, rest, rows
<1>13. /\ Len(rows) = n + Len(left) /\ rows \in Seq(T)
       /\ \A i \in 1..(n + Len(left)) : rows[i] = IF i <= n THEN first[i] ELSE rest[i - n]
  BY <1>2, <1>11, <1>12, ConcatProperties
<1>14. DOMAIN rows = 1..(n + Len(left))
  BY <1>13
<1>15. ASSUME NEW k \in DOMAIN items PROVE rows[k].url = items[k].url /\ rows[k].error = items[k].error
  <2>1. k \in 1..(n + Len(left)) /\ k <= n /\ k \in 1..n
    BY <1>1, <1>7
  <2>2. rows[k] = row(k)
    BY <1>11, <1>13, <2>1
  <2>. QED  BY <1>5, <2>2
<1>16. ASSUME NEW k \in DOMAIN left PROVE rows[n + k].url = left[k]
  <2>1. n + k \in 1..(n + Len(left)) /\ ~(n + k <= n) /\ (n + k) - n = k /\ k \in 1..Len(left)
    BY <1>1, <1>7
  <2>2. rows[n + k] = rest[k]
    BY <1>13, <2>1
  <2>3. rows[n + k] = lost(k)
    BY <1>12, <2>1, <2>2
  <2>. QED  BY <1>6, <2>3
<1>. QED  BY <1>14, <1>15, <1>16 DEF RowsOf, rows

-----------------------------------------------------------------------------
(***************************************************************************)
(* The answer                                                              *)
(***************************************************************************)
\* A search or a research shows every page it was handed.
LEMMA EachPageObserved ==
  ASSUME NEW order \in Seq(Provider), IsInjective(order), None \notin Provider,
         NEW attempts, Tried(attempts, order), NEW kind, kind # "extract", NEW payload,
         Speaks(payload, attempts, order),
         payload.research => \A it \in Range(payload.raw) : ServedBy(it, attempts),
         Range(payload.items) \subseteq Range(payload.raw),
         NEW i \in DOMAIN payload.items, ~payload.items[i].error
  PROVE  \E o \in Observations(kind, payload, attempts, Selected(payload)) : o.url = payload.items[i].url
<1> DEFINE items    == payload.items
           raw      == payload.raw
           selected == Selected(payload)
           observed == Observations(kind, payload, attempts, selected)
           best     == Best(attempts, selected)
           slots(k) == Slots(kind, raw, attempts, best, k)
           served   == ServedAttempts(attempts)
<1>1. items[i] \in Range(items)
  BY DEF Range
<1>2. PICK s \in DOMAIN raw : raw[s] = items[i]
  BY <1>1 DEF Range
<1>3. \A t, T, k, p : Observation(raw, t, T, k, p).url = raw[t].url
  BY DEF Observation
<1>4. ~Merged(kind, items, attempts)
  BY DEF Merged
<1>5. CASE payload.research
  <2>1. raw[s] \in Range(raw)
    BY DEF Range
  <2>2. PICK k \in served : raw[s].provider = attempts[k].provider
    BY <1>5, <2>1 DEF ServedBy
  <2>3. attempts # <<>>
    BY <2>2, ServedOf
  <2>4. observed = UNION {{Observation(raw, t, slots(k_), k_, attempts[k_].provider) : t \in slots(k_)} : k_ \in served}
    BY <1>5, <2>3 DEF Observations
  <2>5. s \in slots(k)
    BY <2>2 DEF Slots
  <2> DEFINE o == Observation(raw, s, slots(k), k, attempts[k].provider)
  <2>6. o \in observed
    <3> HIDE DEF observed, served, slots
    <3>. QED  BY <2>2, <2>4, <2>5
  <2>7. o.url = items[i].url
    BY <1>2, <1>3
  <2> HIDE DEF o, observed
  <2>. QED  BY <2>6, <2>7 DEF observed
<1>6. CASE ~payload.research
  <2>1. PICK w \in served : payload.provider = order[w]
    BY <1>1, <1>6 DEF Speaks
  <2>2. w # 0 /\ attempts # <<>> /\ order[w] \in Provider
    BY <2>1, ServedOf
  <2>3. selected = order[w] /\ selected # None
    BY <1>6, <2>1, <2>2 DEF Selected
  <2>4. best = w
    BY <2>1, <2>3, BestIs
  <2>5. observed = {Observation(raw, t, DOMAIN raw, best, selected) : t \in DOMAIN raw}
    BY <1>4, <1>6, <2>2, <2>3, <2>4 DEF Observations
  <2>. QED  BY <1>2, <1>3, <2>5
<1>. QED  BY <1>5, <1>6

\* What PaidIsAnswered says of the response rs to an executed request.
Shows(r, rs) ==
  \A it \in Range(run[r].payload.items) :
    ~it.error => \E x \in Range(rs.results) : Canon[x.url] = Canon[it.url]

Left(r)        == SubSeq(req[r].urls, Len(Processed(r)) + 1, Len(req[r].urls))
RowsWith(r, rs) == Projected(rs, run[r].payload.items, Left(r))
Lines(r, rs) ==
  req[r].kind = "extract" /\ run[r].payload.items # <<>> =>
    /\ [k \in DOMAIN RowsWith(r, rs) |-> RowsWith(r, rs)[k].url] = req[r].urls
    /\ \A k \in DOMAIN Processed(r) : RowsWith(r, rs)[k].error = run[r].payload.items[k].error

\* The rows are about the URLs that were asked for.
LEMMA RowsAreAsked ==
  ASSUME scene \in Scenes, NEW r, req[r].urls \in Seq(Url), NEW items,
         Listing(items), DOMAIN items = Allowed(req[r].urls),
         \A u \in DOMAIN items : items[u].url = req[r].urls[u],
         NEW rows, RowsOf(rows, items, Left(r))
  PROVE  /\ [k \in DOMAIN rows |-> rows[k].url] = req[r].urls
         /\ \A k \in DOMAIN Processed(r) : rows[k].error = items[k].error
<1> DEFINE urls == req[r].urls
           m    == Len(urls)
           n    == P!Least(m, scene.maxUrls)
           left == Left(r)
<1>1. m \in Nat /\ scene.maxUrls \in Nat /\ urls = [k \in 1..m |-> urls[k]]
  BY ScenesAssumption
<1>2. n \in Nat /\ n <= m
  BY <1>1 DEF P!Least
<1>3. Processed(r) = SubSeq(urls, 1, n) /\ Allowed(urls) = DOMAIN SubSeq(urls, 1, n)
  BY DEF Processed, Allowed
<1> HIDE DEF n
<1>4. Len(SubSeq(urls, 1, n)) = n /\ DOMAIN SubSeq(urls, 1, n) = 1..n
  BY <1>1, <1>2
<1>5. Len(items) = n /\ DOMAIN items = 1..n
  <2>1. Len(items) \in Nat /\ 1..Len(items) = 1..n
    BY <1>3, <1>4 DEF Listing
  <2>2. \A x, y \in Nat : 1..x = 1..y => x = y
    <3> SUFFICES ASSUME NEW x \in Nat, NEW y \in Nat, 1..x = 1..y PROVE x = y
      OBVIOUS
    <3>1. x > y => x \in 1..x /\ x \notin 1..y
      OBVIOUS
    <3>2. y > x => y \in 1..y /\ y \notin 1..x
      OBVIOUS
    <3>. QED  BY <3>1, <3>2
  <2>. QED  BY <1>2, <1>3, <1>4, <2>1, <2>2
<1>6. left = SubSeq(urls, n + 1, m)
  BY <1>3, <1>4 DEF Left
<1>7. Len(left) = m - n /\ \A k \in 1..(m - n) : left[k] = urls[n + k]
  <2> HIDE DEF urls, m, left
  <2>1. urls \in Seq(Url) /\ Len(urls) = m
    BY DEF urls, m
  <2>2. n + 1 \in 1..(m + 1) /\ m \in n..m
    BY <1>1, <1>2
  <2>. QED  BY <1>1, <1>2, <1>6, <2>1
<1>8. DOMAIN rows = 1..m
  BY <1>1, <1>2, <1>5, <1>7 DEF RowsOf
<1>9. DOMAIN left = 1..(m - n)
  <2>1. left \in Seq(Url)
    BY <1>1, <1>2, <1>6
  <2>. QED  BY <1>7, <2>1
<1> HIDE DEF left, urls, m
<1>10. ASSUME NEW k \in 1..m PROVE rows[k].url = urls[k]
  <2>1. CASE k <= n
    BY <1>2, <1>5, <2>1 DEF RowsOf, urls
  <2>2. CASE ~(k <= n)
    <3>1. k - n \in 1..(m - n) /\ n + (k - n) = k
      BY <1>1, <1>2, <2>2
    <3>2. rows[n + (k - n)].url = left[k - n]
      BY <1>5, <1>9, <3>1 DEF RowsOf, left
    <3>. QED  BY <1>7, <3>1, <3>2
  <2>. QED  BY <2>1, <2>2
<1>11. [k \in DOMAIN rows |-> rows[k].url] = urls
  BY <1>1, <1>8, <1>10
<1>12. \A k \in DOMAIN Processed(r) : rows[k].error = items[k].error
  BY <1>3, <1>4, <1>5 DEF RowsOf
<1>. QED  BY <1>11, <1>12 DEF urls

LEMMA PagesShown ==
  ASSUME scene \in Scenes, NEW r, req[r].kind # "extract", plan[r].order \in Seq(Provider),
         IsInjective(plan[r].order), RunAnswers(r),
         NEW rs, SameRows(rs.results, SearchResults(run[r].payload.items,
                   Observations(req[r].kind, run[r].payload, run[r].attempts, Selected(run[r].payload))))
  PROVE  Shows(r, rs) /\ Lines(r, rs)
<1> DEFINE kind     == req[r].kind
           payload  == run[r].payload
           items    == payload.items
           attempts == run[r].attempts
           order    == plan[r].order
           observed == Observations(kind, payload, attempts, Selected(payload))
           results  == SearchResults(items, observed)
<1>1. /\ order \in Seq(Provider) /\ IsInjective(order) /\ None \notin Provider /\ Tried(attempts, order)
      /\ Speaks(payload, attempts, order) /\ Listing(payload.raw) /\ Listing(items)
      /\ payload.research => \A it \in Range(payload.raw) : ServedBy(it, attempts)
      /\ Range(items) \subseteq Range(payload.raw) /\ kind # "extract"
  BY SceneIs DEF RunAnswers, Answering
<1>2. SameRows(rs.results, results)
  OBVIOUS
<1> HIDE DEF kind, payload, attempts, order, results
<1>3. Ranked(observed)
  BY <1>1, ObservedRanked
<1>4. \A i \in DOMAIN items : (\E o \in observed : Canon[o.url] = Canon[items[i].url]) =>
                                \E k \in DOMAIN results : Canon[results[k].url] = Canon[items[i].url]
  <2> HIDE DEF observed, items
  <2>. QED  BY <1>1, <1>3, SearchFinds DEF results
<1>5. ASSUME NEW it \in Range(items), ~it.error
      PROVE  \E x \in Range(rs.results) : Canon[x.url] = Canon[it.url]
  <2>1. PICK i \in DOMAIN items : it = items[i]
    BY DEF Range
  <2>2. \E o \in observed : o.url = items[i].url
    BY <1>1, <1>5, <2>1, EachPageObserved
  <2>3. PICK k \in DOMAIN results : Canon[results[k].url] = Canon[items[i].url]
    BY <1>4, <2>2
  <2>4. k \in DOMAIN rs.results /\ rs.results[k].url = results[k].url
    BY <1>2 DEF SameRows
  <2>5. rs.results[k] \in Range(rs.results)
    BY <2>4 DEF Range
  <2>. QED  BY <2>1, <2>3, <2>4, <2>5
<1>6. Shows(r, rs)
  BY <1>5 DEF Shows, payload
<1>. QED  BY <1>6 DEF Lines

LEMMA LinesGiven ==
  ASSUME scene \in Scenes, NEW r, req[r].kind = "extract", req[r] \in RequestV3, plan[r].order \in Seq(Provider),
         IsInjective(plan[r].order), RunAnswers(r),
         NEW rs, SameRows(rs.results, ExtractResults(
                   Observations(req[r].kind, run[r].payload, run[r].attempts, Selected(run[r].payload))))
  PROVE  Shows(r, rs) /\ Lines(r, rs)
<1> DEFINE payload  == run[r].payload
           items    == payload.items
           attempts == run[r].attempts
           order    == plan[r].order
           urls     == req[r].urls
           n        == Len(items)
           observed == Observations("extract", payload, attempts, Selected(payload))
           results  == ExtractResults(observed)
<1>1. CASE items = <<>>
  BY <1>1 DEF Shows, Lines, Range
<1>2. CASE items # <<>>
  <2>1. /\ order \in Seq(Provider) /\ IsInjective(order) /\ None \notin Provider /\ Tried(attempts, order)
        /\ Speaks(payload, attempts, order) /\ Listing(items) /\ ~payload.research
        /\ payload.raw = items /\ DOMAIN items = Allowed(urls)
        /\ \A u \in DOMAIN items : items[u].url = urls[u] /\ (items[u].error => items[u].provider = None)
        /\ \/ \A u \in DOMAIN items : items[u].provider = None
           \/ \A u \in DOMAIN items : items[u].error \/ ServedBy(items[u], attempts)
    BY <1>2, SceneIs DEF RunAnswers, Answering
  <2>2. SameRows(rs.results, results)
    OBVIOUS
  <2>3. urls \in Seq(Url) /\ Left(r) \in Seq(Url)
    <3>1. urls \in Seq(Url)
      BY DEF RequestV3
    <3>2. Left(r) \in Seq(Url)
      <4>1. scene.maxUrls \in Nat
        BY ScenesAssumption
      <4>2. P!Least(Len(urls), scene.maxUrls) \in Nat
        BY <3>1, <4>1 DEF P!Least
      <4>3. Len(Processed(r)) \in Nat
        BY <3>1, <4>2 DEF Processed
      <4>. QED  BY <3>1, <4>3 DEF Left
    <3>. QED  BY <3>1, <3>2
  <2>4. n \in Nat /\ DOMAIN items = 1..n /\ \A s \in 1..n : items[s].size \in Nat
    BY <2>1 DEF Listing
  <2> HIDE DEF payload, attempts, order, urls, results, observed, n
  <2>5. \/ \A u \in DOMAIN items : items[u].error
        \/ Handed(payload, attempts, order)
    <3>1. CASE ServedAttempts(attempts) = {} /\ \A it \in Range(items) : it.error
      BY <3>1 DEF Range
    <3>2. CASE \E w \in ServedAttempts(attempts) :
                 payload.provider = order[w] /\ ((payload.fallback = "none") <=> (w = 1))
      BY <2>1, <3>2 DEF Handed
    <3>. QED  BY <2>1, <3>1, <3>2 DEF Speaks
  <2>6. ASSUME Handed(payload, attempts, order)
        PROVE  DOMAIN rs.results = 1..n /\ \A i \in 1..n : rs.results[i].url = items[i].url
    <3>1. \A u \in 1..n : \E o \in observed : o.slot = u /\ o.url = items[u].url
      BY <2>1, <2>4, <2>6, EachSlotObserved DEF observed
    <3>2. \A i \in DOMAIN attempts : i \in DOMAIN order /\ attempts[i].provider = order[i]
      BY <2>1 DEF Tried
    <3>3. Slotted(observed, n)
      BY <2>1, <2>4, <3>2, ExtractSlotted DEF observed
    <3> HIDE DEF items
    <3>4. DOMAIN results = 1..n /\ \A i \in 1..n : results[i].url = items[i].url
      <4>1. LET found == ExtractResults(observed)
            IN DOMAIN found = 1..n /\ \A i \in 1..n : found[i].url = items[i].url
        BY <2>4, <3>1, <3>3, SlotsInPlace
      <4>. QED  BY <4>1 DEF results
    <3>. QED  BY <2>2, <3>4 DEF SameRows
  <2>7. Shows(r, rs)
    <3>1. CASE \A u \in DOMAIN items : items[u].error
      BY <3>1 DEF Shows, Range, payload
    <3>2. CASE Handed(payload, attempts, order)
      <4> SUFFICES ASSUME NEW it \in Range(items) PROVE \E x \in Range(rs.results) : x.url = it.url
        BY DEF Shows, payload
      <4>1. PICK u \in 1..n : it = items[u]
        BY <2>4 DEF Range
      <4>2. rs.results[u] \in Range(rs.results) /\ rs.results[u].url = it.url
        BY <2>6, <3>2, <4>1 DEF Range
      <4>. QED  BY <4>2
    <3>. QED  BY <2>5, <3>1, <3>2
  <2>8. RowsOf(RowsWith(r, rs), items, Left(r))
    <3>1. \/ \A i \in DOMAIN items : items[i].error
          \/ DOMAIN rs.results = DOMAIN items /\ \A i \in DOMAIN items : rs.results[i].url = items[i].url
      BY <2>4, <2>5, <2>6
    <3>2. RowsWith(r, rs) = Projected(rs, items, Left(r))
      BY DEF RowsWith, payload
    <3> HIDE DEF items
    <3>. QED  BY <2>1, <2>3, <3>1, <3>2, ProjectedIs
  <2> HIDE DEF items
  <2>9. /\ [k \in DOMAIN RowsWith(r, rs) |-> RowsWith(r, rs)[k].url] = urls
        /\ \A k \in DOMAIN Processed(r) : RowsWith(r, rs)[k].error = items[k].error
    BY <2>1, <2>3, <2>8, RowsAreAsked DEF urls
  <2>10. Lines(r, rs)
    BY <2>9 DEF Lines, urls, items, payload
  <2>. QED  BY <2>7, <2>10
<1>. QED  BY <1>1, <1>2

LEMMA FinalAnswers ==
  ASSUME scene \in Scenes, NEW r, req[r] \in RequestV3, plan[r].order \in Seq(Provider),
         IsInjective(plan[r].order), RunAnswers(r), NEW storable
  PROVE  LET final == Final(r, storable)
         IN ValidResponse(final) /\ Shows(r, final) /\ Lines(r, final)
<1> DEFINE final    == Final(r, storable)
           observed == Observations(req[r].kind, run[r].payload, run[r].attempts, Selected(run[r].payload))
<1>1. /\ ValidResponse(final)
      /\ SameRows(final.results, IF req[r].kind = "extract" THEN ExtractResults(observed)
                                 ELSE SearchResults(run[r].payload.items, observed))
  BY FinalStands
<1> HIDE DEF final
<1>2. CASE req[r].kind = "extract"
  <2>1. SameRows(final.results, ExtractResults(observed))
    BY <1>1, <1>2
  <2>2. Shows(r, final) /\ Lines(r, final)
    BY <1>2, <2>1, LinesGiven
  <2>. QED  BY <1>1, <2>2 DEF final
<1>3. CASE req[r].kind # "extract"
  <2>1. SameRows(final.results, SearchResults(run[r].payload.items, observed))
    BY <1>1, <1>3
  <2>2. Shows(r, final) /\ Lines(r, final)
    BY <1>3, <2>1, PagesShown
  <2>. QED  BY <1>1, <2>2 DEF final
<1>. QED  BY <1>2, <1>3

-----------------------------------------------------------------------------
(***************************************************************************)
(* What an execution hands over answers the request                        *)
(***************************************************************************)
LEMMA AttemptsAre ==
  ASSUME NEW order, NEW f, DOMAIN f = DOMAIN order
  PROVE  /\ Tried(Attempts(order, f), order)
         /\ ServedAttempts(Attempts(order, f)) = Of(f, {"answered", "empty", "cut"})
<1> DEFINE attempts == Attempts(order, f)
<1>1. ASSUME NEW p, NEW fate
      PROVE  /\ Attempt(p, fate).provider = p
             /\ Attempt(p, fate).outcome \in Served \cup Lost \cup {"skipped"}
             /\ Attempt(p, fate).outcome \in Served <=> fate \in {"answered", "empty", "cut"}
  BY DEF Attempt, Called, Skipped, Served, Lost
<1>2. attempts = [i \in DOMAIN order |-> Attempt(order[i], f[i])]
  BY DEF Attempts
<1> HIDE DEF attempts
<1>3. Tried(attempts, order)
  BY <1>1, <1>2 DEF Tried
<1>4. ServedAttempts(attempts) = Of(f, {"answered", "empty", "cut"})
  BY <1>1, <1>2 DEF ServedAttempts, Of
<1>. QED  BY <1>3, <1>4 DEF attempts

LEMMA NothingIs ==
  ASSUME NEW kind, NEW p, NEW items
  PROVE  LET x == Nothing(kind, p, items)
         IN x.items = items /\ x.raw = items /\ (x.research <=> kind = "research") /\ x.provider = p
BY DEF Nothing, Payload

LEMMA PayloadIs ==
  ASSUME NEW kind, NEW p, NEW items, NEW raw
  PROVE  LET x == Payload(kind, p, items, raw)
         IN x.items = items /\ x.raw = raw /\ (x.research <=> kind = "research") /\ x.provider = p
BY DEF Payload

LEMMA NoneListed == Listing(<<>>) /\ Range(<<>>) = {}
BY DEF Listing, Range

LEMMA SequenceListed ==
  ASSUME NEW T, \A it \in T : it.size \in Nat, NEW s \in Seq(T)
  PROVE  Listing(s) /\ Range(s) \subseteq T
<1>1. Len(s) \in Nat /\ DOMAIN s = 1..Len(s) /\ \A i \in DOMAIN s : s[i] \in T
  OBVIOUS
<1>. QED  BY <1>1 DEF Listing, Range

LEMMA ListedIs ==
  ASSUME NEW p, NEW pages \in Seq(Url), NEW T, \A u \in Url : Item(u, p, 1) \in T
  PROVE  Listed(p, pages) \in Seq(T)
<1>1. Len(pages) \in Nat /\ DOMAIN pages = 1..Len(pages) /\ \A i \in DOMAIN pages : pages[i] \in Url
  OBVIOUS
<1> DEFINE s == Listed(p, pages)
<1>2. s = [i \in 1..Len(pages) |-> Item(pages[i], p, 1)] /\ \A i \in 1..Len(pages) : Item(pages[i], p, 1) \in T
  BY <1>1 DEF Listed
<1> HIDE DEF s
<1>3. s \in Seq(T)
  BY <1>1, <1>2
<1>. QED  BY <1>3 DEF s

LEMMA SearchAnswers ==
  ASSUME NEW r, req[r].kind = "search", plan[r].order \in Seq(Provider), NEW o \in SearchRuns(r)
  PROVE  Answering(r, o)
<1> DEFINE order == plan[r].order
           ok(f) ==
             LET won == Of(f, {"answered"})
             IN /\ Cardinality(won) <= 1
                /\ won = {} => Of(f, {"superseded", "policy_excluded"}) = {}
                /\ won # {} => Of(f, {"late"}) = {}
                /\ Affordable(f, Sent, Units(r))
           said(f, w) == IF w = 1 THEN "none" ELSE IF f[1] = "empty" THEN "insufficient_results" ELSE "selected_failed"
           best(f) == IF Of(f, {"answered"}) # {} THEN Of(f, {"answered"}) ELSE Of(f, {"empty"})
           won(f)  == Min(best(f))
           one(f, pages) ==
             LET w == won(f)
             IN [Payload("search", order[w], Listed(order[w], pages), Listed(order[w], pages)) EXCEPT
                    !.superseded = {order[i] : i \in Of(f, {"superseded"})}, !.fallback = said(f, w)]
           listed(f) == IF f[won(f)] = "answered" THEN Pages(order[won(f)]) ELSE {<<>>}
           handed(f) == IF best(f) = {} THEN {Nothing("search", plan[r].first, <<>>)}
                        ELSE {one(f, pages) : pages \in listed(f)}
           fates == Sent \cup {"circuit_open", "budget_blocked", "deadline_exceeded", "policy_excluded"}
           able  == {g \in Fates(order, fates) : ok(g)}
           out(f, h) == [payload |-> h, attempts |-> Attempts(order, f), calls |-> Cardinality(Of(f, Sent))]
<1>1. SearchRuns(r) = UNION {{out(f, h) : h \in handed(f)} : f \in able}
  BY DEF SearchRuns
<1>2. \A f, h : out(f, h).payload = h /\ out(f, h).attempts = Attempts(order, f)
  OBVIOUS
<1>3. \A f \in able : f \in [DOMAIN order -> fates]
  BY DEF Fates
<1> HIDE DEF handed, able, out
<1>4. PICK f \in able : \E h \in handed(f) : o = out(f, h)
  BY <1>1
<1>5. o.payload \in handed(f) /\ o.attempts = Attempts(order, f)
  BY <1>2, <1>4
<1>6. f \in [DOMAIN order -> fates] /\ DOMAIN f = DOMAIN order /\ \A i \in DOMAIN order : f[i] # "cut"
  BY <1>3 DEF Sent
<1>7. Tried(o.attempts, order) /\ ServedAttempts(o.attempts) = Of(f, {"answered", "empty"})
  <2>1. Of(f, {"answered", "empty", "cut"}) = Of(f, {"answered", "empty"})
    BY <1>6 DEF Of
  <2>. QED  BY <1>5, <1>6, <2>1, AttemptsAre
<1>8. Of(f, {"answered", "empty"}) = Of(f, {"answered"}) \cup Of(f, {"empty"})
  BY DEF Of
<1>9. CASE best(f) = {}
  <2>1. o.payload = Nothing("search", plan[r].first, <<>>)
    BY <1>5, <1>9 DEF handed
  <2> DEFINE x == o.payload
  <2>2. x.items = <<>> /\ x.raw = <<>> /\ ~x.research
    <3>1. "search" # "research"
      OBVIOUS
    <3> HIDE DEF x
    <3>. QED  BY <2>1, <3>1, NothingIs DEF x
  <2>3. ServedAttempts(o.attempts) = {}
    BY <1>7, <1>8, <1>9
  <2>. QED  BY <1>7, <2>2, <2>3, NoneListed DEF Answering, Speaks
<1>10. CASE best(f) # {}
  <2> DEFINE w == won(f)
             p == order[w]
  <2>1. w \in best(f) /\ best(f) \subseteq DOMAIN order
    <3>1. best(f) \subseteq DOMAIN order /\ DOMAIN order \subseteq Nat
      BY <1>6 DEF Of
    <3> HIDE DEF best
    <3>2. \E i \in best(f) : \A j \in best(f) : i <= j
      BY <1>10, <3>1, LeastOf
    <3>. QED  BY <3>1, <3>2 DEF Min
  <2>2. PICK pages \in listed(f) : o.payload = one(f, pages)
    BY <1>5, <1>10 DEF handed
  <2>3. w \in ServedAttempts(o.attempts) /\ w \in DOMAIN order /\ p \in Provider
    <3>1. best(f) \subseteq Of(f, {"answered", "empty"})
      BY <1>8
    <3> HIDE DEF best, w
    <3>. QED  BY <1>7, <2>1, <3>1
  <2>4. pages \in Seq(Url)
    <3> HIDE DEF w
    <3>1. Pages(p) \subseteq Seq(Url)
      BY <2>3, NamesAssumption
    <3>2. pages \in Pages(p) \/ pages = <<>>
      BY <2>2 DEF w
    <3>3. <<>> \in Seq(Url)
      OBVIOUS
    <3> HIDE DEF p, listed
    <3>. QED  BY <3>1, <3>2, <3>3
  <2> DEFINE items  == Listed(p, pages)
             beaten == {order[i] : i \in Of(f, {"superseded"})}
             why    == said(f, w)
             T      == {Item(u, p, 1) : u \in Url}
  <2>5. o.payload = [Payload("search", p, items, items) EXCEPT !.superseded = beaten, !.fallback = why]
    BY <2>2
  <2>6. (why = "none") <=> (w = 1)
    OBVIOUS
  <2>7. Listing(items)
    <3>1. \A it \in T : it.size \in Nat
      BY DEF Item
    <3>2. \A u \in Url : Item(u, p, 1) \in T
      OBVIOUS
    <3> HIDE DEF T, items, p
    <3>3. items \in Seq(T)
      BY <2>4, <3>2, ListedIs DEF items
    <3>. QED  BY <3>1, <3>3, SequenceListed
  <2> HIDE DEF items, beaten, why, p, w
  <2>8. /\ o.payload.items = items /\ o.payload.raw = items /\ ~o.payload.research
        /\ o.payload.provider = p /\ o.payload.fallback = why
    BY <2>5 DEF Payload
  <2>9. Speaks(o.payload, o.attempts, order)
    BY <2>3, <2>6, <2>8 DEF Speaks, p
  <2>. QED  BY <1>7, <2>7, <2>8, <2>9 DEF Answering
<1>. QED  BY <1>9, <1>10

LEMMA ResearchAnswers ==
  ASSUME NEW r, req[r].kind = "research", plan[r].order \in Seq(Provider), NEW o \in ResearchRuns(r)
  PROVE  Answering(r, o)
<1> DEFINE order == plan[r].order
           listed(p) == Listed(p, CHOOSE pages \in Pages(p) : TRUE)
           parts(f) == [i \in DOMAIN order |-> IF f[i] = "answered" THEN listed(order[i]) ELSE <<>>]
           raw(f)   == Joined(parts(f))
           first(s) == {i \in DOMAIN s : \A j \in 1..(i - 1) : Canon[s[j].url] # Canon[s[i].url]}
           handed(f, short) ==
             IF raw(f) = <<>> THEN Nothing("research", plan[r].first, <<>>)
             ELSE [Payload("research", plan[r].first, At(raw(f), first(raw(f))), raw(f)) EXCEPT !.limited = short]
           out(f, short) == [payload |-> handed(f, short), attempts |-> Attempts(order, f), calls |-> Cardinality(Of(f, Sent))]
           able == {g \in Fates(order, {"answered", "failed", "late", "circuit_open", "budget_blocked", "deadline_exceeded"}) :
                      Affordable(g, Sent, Units(r))}
<1>1. ResearchRuns(r) = UNION {{out(f, short) : short \in BOOLEAN} : f \in able}
  BY DEF ResearchRuns
<1>2. \A f, short : out(f, short).payload = handed(f, short) /\ out(f, short).attempts = Attempts(order, f)
  OBVIOUS
<1>3. \A f \in able : DOMAIN f = DOMAIN order
  BY DEF Fates
<1> HIDE DEF handed, able, out
<1>4. PICK f \in able, short \in BOOLEAN : o = out(f, short)
  BY <1>1
<1>5. o.payload = handed(f, short) /\ o.attempts = Attempts(order, f) /\ DOMAIN f = DOMAIN order
  BY <1>2, <1>3, <1>4
<1>6. Tried(o.attempts, order) /\ ServedAttempts(o.attempts) = Of(f, {"answered", "empty", "cut"})
  BY <1>5, AttemptsAre
<1> DEFINE n == Len(order)
           T == UNION {{Item(u, order[i], 1) : u \in Url} : i \in Of(f, {"answered"})}
<1>7. \A it \in T : it.size \in Nat /\ ServedBy(it, o.attempts)
  <2> SUFFICES ASSUME NEW i \in Of(f, {"answered"}), NEW u \in Url
               PROVE  Item(u, order[i], 1).size \in Nat /\ ServedBy(Item(u, order[i], 1), o.attempts)
    OBVIOUS
  <2>1. i \in ServedAttempts(o.attempts)
    BY <1>6 DEF Of
  <2>2. o.attempts[i].provider = order[i]
    BY <2>1, <1>6, ServedOf
  <2> HIDE DEF order
  <2>. QED  BY <2>1, <2>2 DEF ServedBy, Item
<1>8. n \in Nat /\ DOMAIN order = 1..n /\ \A i \in 1..n : order[i] \in Provider
  OBVIOUS
<1>9. \A i \in 1..n : parts(f)[i] \in Seq(T)
  <2> SUFFICES ASSUME NEW i \in 1..n PROVE parts(f)[i] \in Seq(T)
    OBVIOUS
  <2> DEFINE p == order[i]
  <2>1. parts(f)[i] = IF f[i] = "answered" THEN listed(p) ELSE <<>>
    BY <1>8
  <2>2. CASE f[i] = "answered"
    <3>1. i \in Of(f, {"answered"})
      BY <1>5, <1>8, <2>2 DEF Of
    <3>2. \A u \in Url : Item(u, p, 1) \in T
      BY <3>1
    <3>3. (CHOOSE pages \in Pages(p) : TRUE) \in Seq(Url)
      BY <1>8, NamesAssumption
    <3> HIDE DEF T, p, parts
    <3>4. listed(p) \in Seq(T)
      BY <3>2, <3>3, ListedIs
    <3>. QED  BY <2>1, <2>2, <3>4
  <2>3. CASE f[i] # "answered"
    <3> HIDE DEF T, p, parts, listed
    <3>1. <<>> \in Seq(T)
      OBVIOUS
    <3>. QED  BY <2>1, <2>3, <3>1
  <2>. QED  BY <2>2, <2>3
<1>10. Len(parts(f)) = n /\ DOMAIN parts(f) = 1..n
  <2> HIDE DEF listed
  <2>. QED  BY <1>8
<1> HIDE DEF T, n, parts, order
<1>11. raw(f) \in Seq(T)
  BY <1>8, <1>9, <1>10, JoinedIs
<1> DEFINE items == o.payload.items
           pages == o.payload.raw
<1>12. o.payload.research /\ items \in Seq(T) /\ pages \in Seq(T) /\ Range(items) \subseteq Range(pages)
  <2> DEFINE kept == At(raw(f), first(raw(f)))
             x == o.payload
  <2>1. kept \in Seq(T) /\ Range(kept) \subseteq Range(raw(f))
    <3> DEFINE all == raw(f)
               I   == first(all)
    <3> HIDE DEF first, all
    <3>1. /\ At(all, I) \in Seq(T)
          /\ \A y : y \in Range(At(all, I)) <=> \E i \in DOMAIN all : i \in I /\ y = all[i]
      <4> HIDE DEF I
      <4>. QED  BY <1>11, AtKeeps DEF all
    <3>2. kept = At(all, I)
      BY DEF all
    <3> HIDE DEF I, kept
    <3>3. Range(kept) \subseteq Range(all)
      BY <3>1, <3>2, ZenonT(30) DEF Range
    <3>. QED  BY <3>1, <3>2, <3>3 DEF all
  <2>2. x = IF raw(f) = <<>> THEN Nothing("research", plan[r].first, <<>>)
            ELSE [Payload("research", plan[r].first, kept, raw(f)) EXCEPT !.limited = short]
    BY <1>5 DEF handed
  <2>3. <<>> \in Seq(T)
    OBVIOUS
  <2>4. \A a, b : Range(a) \subseteq Range(a)
    OBVIOUS
  <2> HIDE DEF kept, raw, x
  <2>5. CASE raw(f) = <<>>
    <3>1. x.research /\ x.items = <<>> /\ x.raw = <<>>
      BY <2>2, <2>5, NothingIs
    <3>. QED  BY <2>3, <3>1 DEF x
  <2>6. CASE raw(f) # <<>>
    <3>1. x.research /\ x.items = kept /\ x.raw = raw(f)
      BY <2>2, <2>6 DEF Payload
    <3>. QED  BY <1>11, <2>1, <3>1 DEF x
  <2>. QED  BY <2>5, <2>6
<1>13. Listing(items) /\ Listing(pages) /\ Range(pages) \subseteq T
  <2> HIDE DEF items, pages
  <2>. QED  BY <1>7, <1>12, SequenceListed
<1>14. \A it \in Range(pages) : ServedBy(it, o.attempts)
  BY <1>7, <1>13
<1>. QED  BY <1>6, <1>12, <1>13, <1>14 DEF Answering, Speaks, order

LEMMA ExtractAnswers ==
  ASSUME scene \in Scenes, NEW r, req[r].kind = "extract", req[r].urls \in Seq(Url),
         plan[r].order \in Seq(Provider), NEW o \in ExtractRuns(r)
  PROVE  Answering(r, o)
<1> DEFINE order   == plan[r].order
           urls    == Processed(r)
           givers == [DOMAIN urls -> DOMAIN order \cup {-i : i \in DOMAIN order} \cup {0, Len(order) + 1}]
           serving(by) == {by[u] : u \in DOMAIN urls} \cap DOMAIN order
           closing(by) == {-by[u] : u \in DOMAIN urls} \cap DOMAIN order
           asked(by, i) == {u \in DOMAIN urls : by[u] = 0 \/ {by[u], -by[u]} \cap (i..Len(order)) # {}}
           fits(by, f) ==
             /\ \A i \in DOMAIN order :
                  /\ asked(by, i) = {} <=> f[i] = "policy_excluded"
                  /\ i \in serving(by) <=> f[i] \in {"answered", "cut"}
                  /\ i \in closing(by) => f[i] \in {"answered", "cut", "failed"}
             /\ Affordable(f, Sent \cup {"cut"}, Units(r))
           item(by, u, size) ==
             IF by[u] \in serving(by)
             THEN Item(urls[u], IF Cardinality(serving(by)) > 1 THEN order[by[u]] ELSE None, size)
             ELSE Miss(urls[u])
           listed(by, size) == [u \in DOMAIN urls |-> item(by, u, size)]
           refused(by) == \A u \in DOMAIN urls : by[u] = Len(order) + 1
           handed(by, f, size) ==
             LET items == listed(by, size)
                 last  == Max(serving(by))
             IN IF \A u \in DOMAIN urls : by[u] = Len(order) + 1 THEN Nothing("extract", plan[r].first, <<>>)
                ELSE IF serving(by) = {} THEN Nothing("extract", plan[r].first, items)
                ELSE [Payload("extract", order[last], items, items) EXCEPT
                        !.fallback = IF last = 1 THEN "none" ELSE "selected_failed"]
           fates == {"answered", "cut", "failed", "circuit_open", "budget_blocked", "deadline_exceeded",
                     "policy_excluded"}
           out(by, f, size) ==
             [payload |-> handed(by, f, size),
              attempts |-> IF refused(by) THEN <<>> ELSE Attempts(order, f),
              calls |-> Cardinality(Of(f, Sent \cup {"cut"}))]
           able   == Fates(order, fates)
<1>1. ExtractRuns(r) = UNION {UNION {{out(by, f, size) : size \in Sizes} : f \in {g \in able : fits(by, g)}} :
                               by \in givers}
  BY DEF ExtractRuns
<1>2. \E by \in givers : \E f \in able : \E size \in Sizes : fits(by, f) /\ o = out(by, f, size)
  <2> HIDE DEF out, fits, able, givers
  <2>. QED  BY <1>1
<1>3. PICK by \in givers, f \in able, size \in Sizes : fits(by, f) /\ o = out(by, f, size)
  BY <1>2
<1> DEFINE items == listed(by, size)
           given == o.payload
           attempts == o.attempts
<1>4. given = handed(by, f, size) /\ attempts = IF refused(by) THEN <<>> ELSE Attempts(order, f)
  <2> HIDE DEF handed, refused, order
  <2>. QED  BY <1>3
<1>5. /\ ~given.research /\ given.raw = given.items
      /\ given.items = IF refused(by) THEN <<>> ELSE items
  <2> HIDE DEF listed, serving, order, urls
  <2>1. given = handed(by, f, size)
    BY <1>4
  <2> DEFINE same(x) == ~x.research /\ x.raw = x.items
  <2>2. \A p, y : LET x == Payload("extract", p, y, y) IN same(x) /\ x.items = y
    BY DEF Payload
  <2>3. \A p, y : LET x == Nothing("extract", p, y) IN same(x) /\ x.items = y
    BY DEF Nothing, Payload
  <2>4. \A p, y, z : LET x == [Payload("extract", p, y, y) EXCEPT !.fallback = z] IN same(x) /\ x.items = y
    BY DEF Payload
  <2>5. CASE refused(by)
    <3>1. given = Nothing("extract", plan[r].first, <<>>)
      BY <2>1, <2>5
    <3>. QED  BY <3>1, <2>3, <2>5
  <2>6. CASE ~refused(by) /\ serving(by) = {}
    <3>1. given = Nothing("extract", plan[r].first, items)
      BY <2>1, <2>6
    <3>. QED  BY <3>1, <2>3, <2>6
  <2>7. CASE ~refused(by) /\ serving(by) # {}
    <3> DEFINE p == order[Max(serving(by))]
               z == IF Max(serving(by)) = 1 THEN "none" ELSE "selected_failed"
    <3>1. given = [Payload("extract", p, items, items) EXCEPT !.fallback = z]
      BY <2>1, <2>7
    <3> HIDE DEF p, z, items, given
    <3>. QED  BY <3>1, <2>4, <2>7
  <2>. QED  BY <2>5, <2>6, <2>7
<1>6. PICK n \in Nat : DOMAIN urls = 1..n
  BY FirstOf DEF Processed, Allowed
<1>7. DOMAIN urls = Allowed(req[r].urls) /\ \A u \in DOMAIN urls : urls[u] = req[r].urls[u]
  <2>1. DOMAIN urls = Allowed(req[r].urls)
    BY DEF Processed, Allowed
  <2>2. scene.maxUrls \in Nat /\ Len(req[r].urls) \in Nat
    BY ScenesAssumption
  <2>3. P!Least(Len(req[r].urls), scene.maxUrls) \in Nat /\ P!Least(Len(req[r].urls), scene.maxUrls) <= Len(req[r].urls)
    BY <2>2 DEF P!Least
  <2>4. \A u \in DOMAIN urls : urls[u] = req[r].urls[u]
    <3> DEFINE m == P!Least(Len(req[r].urls), scene.maxUrls)
    <3>1. urls = SubSeq(req[r].urls, 1, m) /\ m \in Nat /\ m <= Len(req[r].urls)
      BY <2>3 DEF Processed
    <3> HIDE DEF m, urls
    <3>. QED  BY <3>1
  <2>. QED  BY <2>1, <2>4
<1>8. \A u \in DOMAIN urls :
        /\ items[u].url = urls[u] /\ items[u].size \in Nat
        /\ by[u] \in serving(by) <=> ~items[u].error
        /\ items[u].provider = IF by[u] \in serving(by) /\ Cardinality(serving(by)) > 1 THEN order[by[u]] ELSE None
  <2>1. size \in Nat
    BY SceneIs
  <2>2. \A p, u : /\ Item(u, p, size).size = size /\ Miss(u).size = 0
                  /\ Item(u, p, size).url = u /\ Miss(u).url = u
                  /\ ~Item(u, p, size).error /\ Miss(u).error
                  /\ Item(u, p, size).provider = p /\ Miss(u).provider = None
    BY DEF Item, Miss
  <2>3. \A u \in DOMAIN urls : items[u] = item(by, u, size)
    OBVIOUS
  <2> TAKE u \in DOMAIN urls
  <2> DEFINE x == items[u]
             p == IF Cardinality(serving(by)) > 1 THEN order[by[u]] ELSE None
  <2>4. x = IF by[u] \in serving(by) THEN Item(urls[u], p, size) ELSE Miss(urls[u])
    BY <2>3
  <2>5. /\ x.url = urls[u] /\ x.size \in Nat /\ (by[u] \in serving(by) <=> ~x.error)
        /\ x.provider = IF by[u] \in serving(by) THEN p ELSE None
    <3> HIDE DEF x, p, serving, urls
    <3>. QED  BY <2>1, <2>2, <2>4
  <2>6. (IF by[u] \in serving(by) THEN p ELSE None)
          = IF by[u] \in serving(by) /\ Cardinality(serving(by)) > 1 THEN order[by[u]] ELSE None
    OBVIOUS
  <2> HIDE DEF p, serving, urls, items, order
  <2>. QED  BY <2>5, <2>6
<1>9. DOMAIN items = 1..n /\ Listing(items)
  <2>1. items = [u \in 1..n |-> item(by, u, size)]
    BY <1>6
  <2> HIDE DEF items, item
  <2>2. Len(items) = n /\ DOMAIN items = 1..n
    BY <2>1
  <2>. QED  BY <1>6, <1>8, <2>2 DEF Listing
<1>10. f \in [DOMAIN order -> fates] /\ DOMAIN f = DOMAIN order /\ \A i \in DOMAIN order : f[i] # "empty"
  BY DEF Fates
<1>11. /\ serving(by) \subseteq DOMAIN order
       /\ \A i \in DOMAIN order : i \in serving(by) <=> f[i] \in {"answered", "cut"}
  <2>1. serving(by) \subseteq DOMAIN order
    <3> HIDE DEF urls, order
    <3>. QED  OBVIOUS
  <2>2. \A i \in DOMAIN order : i \in serving(by) <=> f[i] \in {"answered", "cut"}
    <3> HIDE DEF serving, asked, urls, order
    <3>. QED  BY <1>3
  <2>. QED  BY <2>1, <2>2
<1>12. /\ Tried(Attempts(order, f), order)
       /\ ServedAttempts(Attempts(order, f)) = serving(by)
  <2>1. ServedAttempts(Attempts(order, f)) = Of(f, {"answered", "empty", "cut"}) /\ Tried(Attempts(order, f), order)
    <3> HIDE DEF order
    <3>. QED  BY <1>10, AttemptsAre
  <2>2. Of(f, {"answered", "empty", "cut"}) = serving(by)
    <3> HIDE DEF serving, order
    <3>. QED  BY <1>10, <1>11 DEF Of
  <2>. QED  BY <2>1, <2>2
<1>13. CASE refused(by)
  <2>1. given.items = <<>> /\ given.raw = <<>> /\ ~given.research
    BY <1>5, <1>13
  <2>2. attempts = <<>>
    <3> HIDE DEF refused, order, attempts
    <3>. QED  BY <1>4, <1>13
  <2> HIDE DEF given, attempts
  <2>3. ServedAttempts(attempts) = {} /\ Tried(attempts, order)
    BY <2>2 DEF ServedAttempts, Tried
  <2>. QED  BY <2>1, <2>3, NoneListed DEF Answering, Speaks, given, attempts, order
<1>14. CASE ~refused(by)
  <2>1. given.items = items /\ given.raw = items /\ ~given.research
    BY <1>5, <1>14
  <2>2. attempts = Attempts(order, f)
    <3> HIDE DEF refused, order, attempts
    <3>. QED  BY <1>4, <1>14
  <2>3. Tried(attempts, order) /\ ServedAttempts(attempts) = serving(by)
    <3> HIDE DEF attempts
    <3>. QED  BY <1>12, <2>2
  <2>4. \A i \in ServedAttempts(attempts) : attempts[i].provider = order[i]
    <3> HIDE DEF attempts
    <3>. QED  BY <2>3, ServedOf
  <2>5. \/ \A u \in DOMAIN items : items[u].provider = None
        \/ \A u \in DOMAIN items : items[u].error \/ ServedBy(items[u], attempts)
    <3> HIDE DEF items, urls, serving, order, attempts
    <3>1. CASE Cardinality(serving(by)) > 1
      BY <1>6, <1>8, <1>9, <2>3, <2>4, <3>1 DEF ServedBy
    <3>2. CASE ~(Cardinality(serving(by)) > 1)
      BY <1>6, <1>8, <1>9, <3>2
    <3>. QED  BY <3>1, <3>2
  <2>6. \A u \in DOMAIN items : items[u].url = req[r].urls[u] /\ (items[u].error => items[u].provider = None)
    <3> HIDE DEF items, urls, serving, order
    <3>. QED  BY <1>6, <1>7, <1>8, <1>9
  <2>7. Speaks(given, attempts, order)
    <3>1. CASE serving(by) = {}
      <4>1. \A it \in Range(items) : it.error
        <5> HIDE DEF items, urls, serving, order
        <5>. QED  BY <1>6, <1>8, <1>9, <3>1 DEF Range
      <4> HIDE DEF items, serving, order, attempts, given
      <4>. QED  BY <2>1, <2>3, <3>1, <4>1 DEF Speaks
    <3>2. CASE serving(by) # {}
      <4> DEFINE w == Max(serving(by))
                 p == order[w]
                 z == IF w = 1 THEN "none" ELSE "selected_failed"
      <4>1. w \in serving(by)
        <5>1. Len(order) \in Nat /\ DOMAIN order = 1..Len(order)
          OBVIOUS
        <5> HIDE DEF serving, order
        <5>2. \A x \in Nat : IsFiniteSet(1..x)
          BY FS_Interval
        <5>3. IsFiniteSet(serving(by)) /\ serving(by) \subseteq Nat
          BY <1>11, <5>1, <5>2, FS_Subset
        <5>. QED  BY <3>2, <5>3, LargestOf
      <4>2. given = [Payload("extract", p, items, items) EXCEPT !.fallback = z]
        <5> HIDE DEF listed, serving, order, urls
        <5>. QED  BY <1>4, <1>14, <3>2
      <4>3. (z = "none") <=> (w = 1)
        OBVIOUS
      <4> HIDE DEF items, p, z, w, serving, given, attempts
      <4>4. given.provider = p /\ given.fallback = z
        BY <4>2 DEF Payload
      <4>. QED  BY <2>3, <4>1, <4>3, <4>4 DEF Speaks, p
    <3>. QED  BY <3>1, <3>2
  <2>8. DOMAIN items = Allowed(req[r].urls)
    BY <1>6, <1>7, <1>9
  <2> HIDE DEF items, given, attempts
  <2>. QED  BY <1>9, <2>1, <2>3, <2>5, <2>6, <2>7, <2>8 DEF Answering, given, attempts, order
<1>. QED  BY <1>13, <1>14

LEMMA RunsAnswer ==
  ASSUME scene \in Scenes, NEW r, req[r] \in RequestV3, plan[r].order \in Seq(Provider), NEW o \in Runs(r)
  PROVE  Answering(r, o)
<1>1. req[r].kind \in {"search", "research", "extract"} /\ req[r].urls \in Seq(Url)
  BY DEF RequestV3
<1>. QED  BY <1>1, SearchAnswers, ResearchAnswers, ExtractAnswers DEF Runs

-----------------------------------------------------------------------------
(***************************************************************************)
(* A plan names no provider twice                                          *)
(***************************************************************************)
LEMMA LedInjective ==
  ASSUME NEW p \in Provider, NEW s \in Seq(Provider), IsInjective(s), p \notin Range(s)
  PROVE  IsInjective(<<p>> \o s)
<1> DEFINE a == <<p>>
           b == a \o s
<1>1. a \in Seq(Provider) /\ Len(a) = 1 /\ a[1] = p
  OBVIOUS
<1> HIDE DEF a
<1>2. /\ Len(b) = 1 + Len(s) /\ DOMAIN b = 1..(1 + Len(s)) /\ Len(s) \in Nat
      /\ \A i \in 1..(1 + Len(s)) : b[i] = IF i <= 1 THEN a[i] ELSE s[i - 1]
  <2>1. Len(b) = Len(a) + Len(s) /\ \A i \in 1..(Len(a) + Len(s)) : b[i] = IF i <= Len(a) THEN a[i] ELSE s[i - Len(a)]
    BY <1>1, ConcatProperties
  <2>2. b \in Seq(Provider)
    BY <1>1, ConcatProperties
  <2> HIDE DEF b
  <2>. QED  BY <1>1, <2>1, <2>2
<1> HIDE DEF b
<1>3. ASSUME NEW i \in 1..(1 + Len(s))
      PROVE  (i = 1 /\ b[i] = p) \/ (i - 1 \in DOMAIN s /\ b[i] = s[i - 1] /\ s[i - 1] \in Range(s))
  <2>1. CASE i = 1
    BY <1>1, <1>2, <2>1
  <2>2. CASE i # 1
    <3>1. i - 1 \in DOMAIN s /\ b[i] = s[i - 1]
      BY <1>2, <2>2
    <3>. QED  BY <3>1 DEF Range
  <2>. QED  BY <2>1, <2>2
<1>4. ASSUME NEW i \in DOMAIN b, NEW j \in DOMAIN b, b[i] = b[j] PROVE i = j
  <2>1. i \in 1..(1 + Len(s)) /\ j \in 1..(1 + Len(s))
    BY <1>2
  <2>2. CASE i = 1 /\ b[i] = p
    BY <1>3, <1>4, <2>1, <2>2
  <2>3. CASE i - 1 \in DOMAIN s /\ b[i] = s[i - 1] /\ s[i - 1] \in Range(s)
    <3>1. j - 1 \in DOMAIN s /\ b[j] = s[j - 1]
      BY <1>3, <1>4, <2>1, <2>3
    <3>2. i - 1 = j - 1
      BY <1>4, <2>3, <3>1 DEF IsInjective
    <3>. QED  BY <2>1, <3>2
  <2>. QED  BY <1>3, <2>1, <2>2, <2>3
<1>5. IsInjective(b)
  BY <1>4 DEF IsInjective
<1>. QED  BY <1>5 DEF b, a

LEMMA PrefixInjective ==
  ASSUME NEW T, NEW s \in Seq(T), IsInjective(s), NEW n \in Nat, n <= Len(s)
  PROVE  IsInjective(SubSeq(s, 1, n))
<1>1. DOMAIN SubSeq(s, 1, n) = 1..n /\ \A i \in 1..n : SubSeq(s, 1, n)[i] = s[i] /\ i \in DOMAIN s
  OBVIOUS
<1>. QED  BY <1>1 DEF IsInjective

LEMMA PlanInjective ==
  ASSUME scene \in Scenes, NEW q \in RequestV3 PROVE IsInjective(PlanOf(q).order)
<1>1. scene.order \in Seq(Provider) /\ scene.order # <<>> /\ IsInjective(scene.order)
  BY SceneIs, NamesAssumption
<1>2. q.provider \in Provider \cup {None} /\ q.routed \in Provider
  BY DEF RequestV3
<1>3. Automatic \in Seq(Provider) /\ IsInjective(Automatic)
  BY <1>1, AmongKeeps DEF Automatic
<1>4. \A S : /\ Among(Automatic, S) \in Seq(Provider) /\ IsInjective(Among(Automatic, S))
             /\ \A x : x \in Range(Among(Automatic, S)) => x \in S
  BY <1>3, AmongKeeps
<1>5. \A p \in Provider : LET some == <<p>> \o Among(Automatic, Provider \ {p})
                          IN IsInjective(some) /\ some \in Seq(Provider) /\ some # <<>>
  <2> TAKE p \in Provider
  <2> DEFINE s == Among(Automatic, Provider \ {p})
             a == <<p>>
             b == a \o s
  <2>1. s \in Seq(Provider) /\ IsInjective(s) /\ p \notin Range(s)
    BY <1>4
  <2>2. a \in Seq(Provider) /\ Len(a) = 1
    OBVIOUS
  <2> HIDE DEF s
  <2>3. IsInjective(b)
    BY <2>1, LedInjective
  <2> HIDE DEF a
  <2>4. b \in Seq(Provider) /\ Len(b) = 1 + Len(s)
    BY <2>1, <2>2, ConcatProperties, ZenonT(30)
  <2>5. Len(s) \in Nat
    BY <2>1
  <2> HIDE DEF b
  <2>6. b # <<>>
    BY <2>4, <2>5
  <2>. QED  BY <2>3, <2>4, <2>6 DEF b, a, s
<1>6. ASSUME NEW s \in Seq(Provider), s # <<>>, IsInjective(s) PROVE IsInjective(SubSeq(s, 1, 1))
  <2>1. 1 <= Len(s)
    BY <1>6
  <2>. QED  BY <1>6, <2>1, PrefixInjective
<1> DEFINE first == IF q.provider = None THEN q.routed ELSE q.provider
           some  == <<first>> \o Among(Automatic, Provider \ {first})
           auto  == IF Automatic # <<>> THEN Automatic ELSE SubSeq(scene.order, 1, 1)
           named == <<q.provider>> \o Among(Automatic, Provider \ {q.provider})
           all   == IF q.provider = None THEN auto ELSE named
<1>7. IsInjective(SearchOrder(q))
  <2>1. first \in Provider
    BY <1>2
  <2> HIDE DEF first
  <2>2. IsInjective(some)
    BY <1>5, <2>1
  <2>3. IsInjective(<<first>>)
    BY DEF IsInjective
  <2>4. SearchOrder(q) = some \/ SearchOrder(q) = <<first>>
    BY DEF SearchOrder, first
  <2> HIDE DEF some
  <2>. QED  BY <2>2, <2>3, <2>4
<1>8. IsInjective(ExtractOrder(q))
  <2>1. auto \in Seq(Provider) /\ auto # <<>> /\ IsInjective(auto)
    BY <1>1, <1>3, <1>6, FirstTyped
  <2>2. q.provider # None => named \in Seq(Provider) /\ named # <<>> /\ IsInjective(named)
    BY <1>2, <1>5
  <2> HIDE DEF auto, named
  <2>3. all \in Seq(Provider) /\ all # <<>> /\ IsInjective(all)
    BY <2>1, <2>2
  <2>4. ExtractOrder(q) = IF q.fallback THEN all ELSE SubSeq(all, 1, 1)
    BY DEF ExtractOrder, auto, named
  <2> HIDE DEF all
  <2>. QED  BY <1>6, <2>3, <2>4
<1> DEFINE order == IF q.kind = "extract" THEN ExtractOrder(q) ELSE SearchOrder(q)
<1>9. IsInjective(order)
  BY <1>7, <1>8
<1>10. PlanOf(q) = [order |-> order, first |-> order[1]]
  BY DEF PlanOf
<1> HIDE DEF order
<1>11. PlanOf(q).order = order
  BY <1>10
<1>. QED  BY <1>9, <1>11

\* A plan that is cut short for the budget is a prefix.
LEMMA ReducedInjective ==
  ASSUME scene \in Scenes, NEW q \in RequestV3, NEW order \in Seq(Provider), IsInjective(order), NEW units,
         P!Decide(scene.pre, q, order, units).action # "abort"
  PROVE  IsInjective(P!ReducedOrder(order, P!Decide(scene.pre, q, order, units)))
<1> DEFINE pre     == scene.pre
           d       == P!Decide(pre, q, order, units)
           planned == P!PlannedCalls(q, order)
           allowed == P!AllowedCalls(pre, planned, units)
           most    == Max(allowed)
<1>1. None \notin Nat
  BY SceneIs
<1>2. planned \in Nat /\ planned <= Len(order)
  BY <1>1, PlannedIs
<1>3. ASSUME allowed # {} PROVE most \in 1..planned
  <2>1. \A n \in allowed : n \in 1..planned
    BY DEF P!AllowedCalls
  <2>2. IsFiniteSet(allowed) /\ allowed \subseteq Nat
    <3>1. \A n \in Nat : IsFiniteSet(1..n)
      BY FS_Interval
    <3>2. IsFiniteSet(1..planned)
      BY <1>2, <3>1
    <3>3. allowed \subseteq 1..planned /\ 1..planned \subseteq Nat
      BY <1>2, <2>1
    <3>. QED  BY <3>2, <3>3, FS_Subset
  <2> HIDE DEF allowed, planned
  <2>3. most \in allowed
    BY <1>3, <2>2, LargestOf
  <2>. QED  BY <2>1, <2>3
<1>4. d.calls = None \/ (allowed # {} /\ d.calls = most)
  <2>1. \/ d.calls = None
        \/ allowed # {} /\ d.calls = IF most < planned THEN most ELSE None
    BY DecisionIs
  <2> HIDE DEF allowed, most, d, planned
  <2>. QED  BY <2>1
<1> HIDE DEF d, allowed, most, planned
<1>5. P!ReducedOrder(order, d) = IF d.calls = None THEN order ELSE SubSeq(order, 1, d.calls)
  BY DEF P!ReducedOrder
<1>6. d.calls # None => d.calls \in Nat /\ d.calls <= Len(order)
  BY <1>2, <1>3, <1>4
<1>7. d.calls # None => IsInjective(SubSeq(order, 1, d.calls))
  BY <1>6, PrefixInjective
<1>8. IsInjective(P!ReducedOrder(order, d))
  BY <1>5, <1>7
<1>. QED  BY <1>8 DEF d

-----------------------------------------------------------------------------
(***************************************************************************)
(* AnswerInv, one request at a time                                        *)
(***************************************************************************)
\* What AnswerKnown and PaidIsAnswered say of one request.
Poised(r) ==
  /\ pc[r] \in {"preflight", "lookup", "execute", "finish"} => IsInjective(plan[r].order)
  /\ pc[r] = "finish" => RunAnswers(r)
Paid(r) ==
  /\ pc[r] = "raised" => sent[r] = 0
  /\ pc[r] = "done" /\ Live(r) => Shows(r, resp[r]) /\ Lines(r, resp[r])

LEMMA AnswerInvIs == AnswerInv <=> \A r \in Requests : Poised(r) /\ Paid(r)
BY DEF AnswerInv, AnswerKnown, PaidIsAnswered, Poised, Paid, Shows, Lines, RowsWith, Left, Rows

\* Nothing is said anew of a request that rests.
Same(r) == /\ pc'[r] = pc[r] /\ req'[r] = req[r] /\ plan'[r] = plan[r]
           /\ run'[r] = run[r] /\ resp'[r] = resp[r] /\ sent'[r] = sent[r]

LEMMA SameAnswered ==
  ASSUME scene' = scene, NEW r, Same(r), Poised(r), Paid(r) PROVE Poised(r)' /\ Paid(r)'
<1>1. Poised(r)'
  BY DEF Poised, RunAnswers, Answering, Allowed, Same
<1>2. Processed(r)' = Processed(r)
  BY DEF Processed, Same
<1>3. Left(r)' = Left(r)
  BY <1>2 DEF Left, Same
<1>4. RowsWith(r, resp[r])' = RowsWith(r, resp[r])
  BY <1>3 DEF RowsWith, Same
<1>5. Shows(r, resp[r])' <=> Shows(r, resp[r])
  BY DEF Shows, Same
<1>6. Lines(r, resp[r])' <=> Lines(r, resp[r])
  BY <1>2, <1>4 DEF Lines, Same
<1>7. Paid(r)'
  <2>1. pc'[r] = pc[r] /\ sent'[r] = sent[r] /\ run'[r] = run[r]
    BY DEF Same
  <2>. QED  BY <1>5, <1>6, <2>1 DEF Paid, Live
<1>. QED  BY <1>1, <1>7

LEMMA AnswerInvNext == ASSUME \A r \in Requests : Poised(r)' /\ Paid(r)' PROVE AnswerInv'
BY DEF AnswerInv, AnswerKnown, PaidIsAnswered, Poised, Paid, Shows, Lines, RowsWith, Left, Rows

LEMMA OneAnswered ==
  ASSUME AnswerInv, NEW r \in Requests, scene' = scene,
         \A q \in Requests : q # r => /\ pc'[q] = pc[q] /\ req'[q] = req[q] /\ plan'[q] = plan[q]
                                      /\ run'[q] = run[q] /\ resp'[q] = resp[q] /\ sent'[q] = sent[q],
         Poised(r)', Paid(r)'
  PROVE  AnswerInv'
<1>1. \A q \in Requests : Poised(q) /\ Paid(q)
  BY AnswerInvIs
<1>2. \A q \in Requests : q # r => Same(q)
  BY DEF Same
<1>3. \A q \in Requests : q # r => Poised(q)' /\ Paid(q)'
  BY <1>1, <1>2, SameAnswered
<1>. QED  BY <1>3, AnswerInvNext

\* Who is answered, or not, before anything was sent.
LEMMA UnsentPaid ==
  ASSUME NEW r \in Requests, run[r] = None, sent[r] = 0, run' = run, sent' = sent, pc'[r] \in {"done", "raised"}
  PROVE  Poised(r)' /\ Paid(r)'
BY DEF Poised, Paid, Live

LEMMA SubmitAnswered ==
  ASSUME Inv, AnswerInv, NEW r \in Requests, NEW q \in scene.requests, Submit(r, q) PROVE AnswerInv'
<1>1. scene \in Scenes /\ Domains
  BY InvIs
<1>2. /\ pc[r] = "idle" /\ pc' = [pc EXCEPT ![r] = "preflight"] /\ req' = [req EXCEPT ![r] = q]
      /\ plan' = [plan EXCEPT ![r] = PlanOf(q)] /\ UNCHANGED <<scene, run, resp, sent>>
  BY DEF Submit, Goto
<1>3. IsInjective(PlanOf(q).order)
  <2>1. q \in RequestV3
    BY <1>1, SceneIs
  <2>. QED  BY <1>1, <2>1, PlanInjective
<1>4. /\ pc'[r] = "preflight" /\ plan'[r] = PlanOf(q)
      /\ \A s \in Requests : s # r => pc'[s] = pc[s] /\ req'[s] = req[s] /\ plan'[s] = plan[s]
  BY <1>1, <1>2 DEF Domains
<1>5. Poised(r)' /\ Paid(r)'
  BY <1>3, <1>4 DEF Poised, Paid
<1>. QED  BY <1>1, <1>2, <1>4, <1>5, OneAnswered

LEMMA PreflightAnswered ==
  ASSUME Inv, StatusInv, CapsInv, AnswerInv, NEW r \in Requests, Preflight(r) PROVE AnswerInv'
<1> DEFINE decision == P!Decide(scene.pre, req[r], plan[r].order, ledger)
<1>1. scene \in Scenes /\ Domains /\ AskedOK(r) /\ Standing(r) /\ Known(r) /\ Poised(r)
  BY InvIs, StatusInvIs, CapsInvIs, AnswerInvIs
<1>2. pc[r] = "preflight" /\ UNCHANGED <<scene, run, sent>>
  BY DEF Preflight
<1>3. run[r] = None /\ sent[r] = 0 /\ IsPlan(plan[r]) /\ IsInjective(plan[r].order)
  BY <1>1, <1>2 DEF Standing, AskedOK, Known, Poised
<1>4. CASE decision.action = "abort"
  <2> DEFINE rs == Complete(Evidenced(Refusal(req[r].kind, plan[r].order, "bypassed"), decision))
  <2>1. Answer(r, rs) /\ UNCHANGED <<req, plan>>
    BY <1>4 DEF Preflight
  <2> HIDE DEF rs
  <2>2. /\ \A q \in Requests : q # r => pc'[q] = pc[q] /\ resp'[q] = resp[q]
        /\ pc'[r] \in {"done", "raised"}
    BY <1>1, <2>1, AnswerEnds
  <2>3. Poised(r)' /\ Paid(r)'
    BY <1>2, <1>3, <2>2, UnsentPaid
  <2>. QED  BY <1>2, <2>1, <2>2, <2>3, OneAnswered
<1>5. CASE decision.action # "abort"
  <2> DEFINE less == P!Reduced(req[r], decision)
             kept == P!ReducedOrder(plan[r].order, decision)
  <2>1. /\ req' = [req EXCEPT ![r] = less] /\ plan' = [plan EXCEPT ![r].order = kept]
        /\ pc' = [pc EXCEPT ![r] = "lookup"] /\ resp' = resp
    BY <1>5 DEF Preflight, Goto
  <2>2. req[r] \in RequestV3 /\ plan[r].order \in Seq(Provider)
    BY <1>1, <1>2, <1>3, SceneIs DEF AskedOK, IsPlan
  <2>3. IsInjective(kept)
    BY <1>1, <1>3, <1>5, <2>2, ReducedInjective
  <2> HIDE DEF less, kept, decision
  <2>4. plan'[r] = [plan[r] EXCEPT !.order = kept]
    BY <1>1, <2>1 DEF Domains
  <2>5. plan'[r].order = kept
    <3> DEFINE old   == plan[r]
               order == old.order
               first == old.first
               new   == [old EXCEPT !.order = kept]
    <3>1. old = [order |-> order, first |-> first]
      BY <1>3 DEF IsPlan
    <3> HIDE DEF old, order, first
    <3>2. new.order = kept
      BY <3>1
    <3>. QED  BY <2>4, <3>2 DEF old
  <2>6. /\ pc'[r] = "lookup"
        /\ \A q \in Requests : q # r => pc'[q] = pc[q] /\ req'[q] = req[q] /\ plan'[q] = plan[q]
    BY <1>1, <2>1 DEF Domains
  <2>7. Poised(r)' /\ Paid(r)'
    BY <2>3, <2>5, <2>6 DEF Poised, Paid
  <2>. QED  BY <1>2, <2>1, <2>6, <2>7, OneAnswered
<1>. QED  BY <1>4, <1>5

LEMMA LookupAnswered ==
  ASSUME Inv, StatusInv, AnswerInv, NEW r \in Requests, Lookup(r) PROVE AnswerInv'
<1>1. scene \in Scenes /\ Domains /\ AskedOK(r) /\ Standing(r) /\ Poised(r)
  BY InvIs, StatusInvIs, AnswerInvIs
<1>2. pc[r] = "lookup" /\ UNCHANGED <<scene, req, plan, run, sent>>
  BY DEF Lookup
<1>3. run[r] = None /\ sent[r] = 0 /\ IsInjective(plan[r].order)
  BY <1>1, <1>2 DEF Standing, AskedOK, Poised
<1>4. (\E rs : Answer(r, rs)) \/ (Goto(r, "execute") /\ UNCHANGED resp)
  BY DEF Lookup
<1>5. ASSUME NEW rs, Answer(r, rs) PROVE AnswerInv'
  <2>1. /\ \A q \in Requests : q # r => pc'[q] = pc[q] /\ resp'[q] = resp[q]
        /\ pc'[r] \in {"done", "raised"}
    BY <1>1, <1>5, AnswerEnds
  <2>2. Poised(r)' /\ Paid(r)'
    BY <1>2, <1>3, <2>1, UnsentPaid
  <2>. QED  BY <1>2, <2>1, <2>2, OneAnswered
<1>6. CASE Goto(r, "execute") /\ UNCHANGED resp
  <2>1. pc'[r] = "execute" /\ resp' = resp /\ \A q \in Requests : q # r => pc'[q] = pc[q]
    BY <1>1, <1>6 DEF Domains, Goto
  <2>2. Poised(r)' /\ Paid(r)'
    BY <1>2, <1>3, <2>1 DEF Poised, Paid
  <2>. QED  BY <1>2, <2>1, <2>2, OneAnswered
<1>. QED  BY <1>4, <1>5, <1>6

LEMMA ExecuteAnswered ==
  ASSUME Inv, CapsInv, AnswerInv, NEW r \in Requests, Execute(r) PROVE AnswerInv'
<1>1. scene \in Scenes /\ Domains /\ Known(r) /\ Poised(r)
  BY InvIs, CapsInvIs, AnswerInvIs
<1>2. /\ pc[r] = "execute" /\ pc' = [pc EXCEPT ![r] = "finish"]
      /\ UNCHANGED <<scene, req, plan, resp>>
  BY DEF Execute, Goto
<1>3. PICK o \in Runs(r) : run' = [run EXCEPT ![r] = o] /\ sent' = [sent EXCEPT ![r] = o.calls]
  BY DEF Execute
<1>4. /\ pc'[r] = "finish" /\ run'[r] = o
      /\ \A q \in Requests : q # r => pc'[q] = pc[q] /\ run'[q] = run[q] /\ sent'[q] = sent[q]
  BY <1>1, <1>2, <1>3 DEF Domains
<1>5. req[r] \in RequestV3 /\ plan[r].order \in Seq(Provider) /\ IsInjective(plan[r].order)
  BY <1>1, <1>2 DEF Known, Within, IsPlan, Poised
<1>6. Answering(r, o)
  BY <1>1, <1>5, RunsAnswer
<1>7. RunAnswers(r)'
  BY <1>2, <1>4, <1>6 DEF RunAnswers, Answering, Allowed
<1>8. Poised(r)' /\ Paid(r)'
  BY <1>2, <1>4, <1>5, <1>7 DEF Poised, Paid
<1>. QED  BY <1>2, <1>4, <1>8, OneAnswered

LEMMA FinishAnswered ==
  ASSUME Inv, CapsInv, AnswerInv, NEW r \in Requests, Finish(r) PROVE AnswerInv'
<1>1. scene \in Scenes /\ Domains /\ Known(r) /\ Poised(r)
  BY InvIs, CapsInvIs, AnswerInvIs
<1>2. pc[r] = "finish" /\ UNCHANGED <<scene, req, plan, run, sent>>
  BY DEF Finish
<1>3. PICK storable \in BOOLEAN : Answer(r, Final(r, storable))
  BY DEF Finish, Final
<1> DEFINE final == Final(r, storable)
<1>4. ValidResponse(final) /\ Shows(r, final) /\ Lines(r, final)
  <2>1. req[r] \in RequestV3 /\ plan[r].order \in Seq(Provider) /\ IsInjective(plan[r].order) /\ RunAnswers(r)
    BY <1>1, <1>2 DEF Known, Within, IsPlan, Poised
  <2>. QED  BY <1>1, <2>1, FinalAnswers
<1> HIDE DEF final
<1>5. pc' = [pc EXCEPT ![r] = "done"] /\ resp' = [resp EXCEPT ![r] = final]
  BY <1>3, <1>4 DEF Answer, Goto, final
<1>6. /\ pc'[r] = "done" /\ resp'[r] = final
      /\ \A q \in Requests : q # r => pc'[q] = pc[q] /\ resp'[q] = resp[q]
  BY <1>1, <1>5 DEF Domains
<1>7. Shows(r, resp[r])' /\ Lines(r, resp[r])'
  BY <1>2, <1>4, <1>6 DEF Shows, Lines, RowsWith, Left, Processed
<1>8. Poised(r)' /\ Paid(r)'
  BY <1>6, <1>7 DEF Poised, Paid
<1>. QED  BY <1>2, <1>6, <1>8, OneAnswered

LEMMA RestAnswered == ASSUME AnswerInv, UNCHANGED <<scene, pc, req, plan, run, resp, sent>> PROVE AnswerInv'
<1>1. \A r \in Requests : Poised(r) /\ Paid(r) /\ Same(r)
  BY AnswerInvIs DEF Same
<1>2. \A r \in Requests : Poised(r)' /\ Paid(r)'
  BY <1>1, SameAnswered
<1>. QED  BY <1>2, AnswerInvNext

\* Once a provider was called the caller gets an answer and not an exception about the
\* receipt, and the answer has every page that was served: each URL of an extraction
\* its row, in order, with its page or the reason (contract_v3.py:327-671, 1166-1309;
\* runtime_v3.py:447-560; compat_v3.py:128-202).
THEOREM PaidTrue == Spec => []PaidIsAnswered
<1> DEFINE All == Inv /\ StatusInv /\ CapsInv /\ AnswerInv
<1>1. Init => All
  <2> SUFFICES ASSUME Init PROVE All
    OBVIOUS
  <2>1. Inv /\ StatusInv
    BY DEF Init, Inv, HitsAreWhole, StatusInv, StatusKnown, StatusTrue
  <2>2. scene.pre.daily \in Nat \cup {None}
    BY <2>1, InvIs, SceneIs DEF Preflights, Limit
  <2>3. CapsInv
    BY <2>2 DEF Init, CapsInv, CapsKnown, CapsHold
  <2>4. AnswerInv
    BY DEF Init, AnswerInv, AnswerKnown, PaidIsAnswered
  <2>. QED  BY <2>1, <2>3, <2>4
<1>2. All /\ [Next]_vars => All'
  <2> SUFFICES ASSUME All, [Next]_vars PROVE All'
    OBVIOUS
  <2>1. ASSUME NEW r \in Requests, NEW q \in scene.requests, Submit(r, q) PROVE All'
    BY <2>1, SubmitKept, SubmitTold, SubmitCapped, SubmitAnswered
  <2>2. ASSUME NEW r \in Requests, Preflight(r) PROVE All'
    BY <2>2, PreflightKept, PreflightTold, PreflightCapped, PreflightAnswered
  <2>3. ASSUME NEW r \in Requests, Lookup(r) PROVE All'
    BY <2>3, LookupKept, LookupTold, LookupCapped, LookupAnswered
  <2>4. ASSUME NEW r \in Requests, Execute(r) PROVE All'
    BY <2>4, ExecuteKept, ExecuteTold, ExecuteCapped, ExecuteAnswered
  <2>5. ASSUME NEW r \in Requests, Finish(r) PROVE All'
    BY <2>5, FinishKept, FinishTold, FinishCapped, FinishAnswered
  <2>6. ASSUME NEW p \in Provider, Rekey(p) PROVE All'
    BY <2>6, RestKept, RestTold, RestCapped, RestAnswered DEF Rekey
  <2>7. ASSUME Age PROVE All'
    BY <2>7, AgeKept, AgeTold, AgeCapped, RestAnswered DEF Age
  <2>8. ASSUME UNCHANGED vars PROVE All'
    BY <2>8, RestKept, RestTold, RestCapped, RestAnswered DEF vars
  <2>. QED  BY <2>1, <2>2, <2>3, <2>4, <2>5, <2>6, <2>7, <2>8 DEF Next
<1>3. All => PaidIsAnswered
  BY DEF AnswerInv
<1>. QED  BY <1>1, <1>2, <1>3, PTL DEF Spec
=============================================================================
