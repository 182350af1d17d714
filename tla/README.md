# web-search-plus-mcp: a TLA+ model of its request execution

web-search-plus-mcp answers search, extract and research requests through many
paid search providers.  This directory models the program where threads,
processes, shared files, a database and the clock meet: a request from its plan to
its response, how a provider call is admitted, paid for, retried and recorded, how
one request races several providers, fans out over them or passes URLs from one to
the next, what each provider is sent, and how the stores below (state database,
caches, statistics, full texts) are shared, migrated and swept.  TLC checks the
models on small instances; TLAPS proves what the attempt engine, the budget, the race,
extraction, research, the cache and the migration guarantee for every value of the
constants.

Paths below are relative to `src/web_search_plus_mcp/`.

## 1. The system and its parts

| Part | State it keeps | Operations | Talks to |
|---|---|---|---|
| **MCP server** `server.py` | the engine once imported; per tool call a daemon thread or a child process | dispatch, wait, time out, fall back, cancel | orchestrator, in a thread or a process |
| **Orchestrator** `orchestrator_v3.py`, `request_gate_v3.py`, `compat_v3.py` | none | normalise, plan, preflight, cache lookup, execute, cache write | everything below |
| **Budget preflight** `budget_preflight_v3.py` | none (reads the ledger) | estimate, clamp, reject | orchestrator |
| **Result cache** `cache_v3.py`, `cache_identity_v3.py` | one JSON file per entry, a quarantine directory | `get`, `put`, `clear` (and `stats`) | orchestrator; shared by processes |
| **Search race** `search.py` | candidates left, tasks, a queue of finished ones, the hedge clock | launch, hedge, take, stop at the deadline, report, last-resort probe | attempt engine, one daemon thread per candidate |
| **Research fan-out** `research.py` | sub-search tasks, one deadline | fan out, collect, stop at a quorum or the deadline, extract, write receipts | attempt engine, daemon tasks, extract |
| **Extract fallback** `extract.py`, `extract_failures.py` | URLs answered and left over | one provider after another, under one budget | attempt engine, matching |
| **Extract matching** `extract_match.py` | none | pair the items of a reply with the URLs asked for | extract fallback |
| **Attempt engine** `attempt_engine_v3.py` | the locals of `execute`: try number, probe lease, encountered classes, last error | `execute`: deadline, admission, reservations, operation, reconciliation, retry, health record | circuit store, ledger, an adapter |
| **Circuit store** `state_store_v3.py` | SQLite table `circuit_state`: one row per endpoint and error class; per instance an availability flag and its quiet period | `admit`, `record_failure`, `record_success`, `expire_circuit`, `release_half_open`, `get_circuit` | attempt engine, search race; shared by all processes through the file |
| **Budget ledger** `state_store_v3.py` | table `budget_ledger` (used/reserved units of the day), an in-memory request budget under a lock | `configure_budget`, `reserve_budget`, `commit_budget`, `release_budget` | attempt engine, preflight |
| **Receipts and responses** `contract_v3.py`, `runtime_v3.py`, `compat_v3.py` | none | routing receipt and its validation, status, warnings, sources, projections | orchestrator |
| **Search adapters** `provider_dispatch.py`, `providers.py`, `octen.py`, `tinyfish.py`, `urls.py`, `query_limits.py` | Brave's pacer | what each of fourteen providers is asked for, what is told of it | attempt engine, HTTP client |
| **Extraction adapters** `providers.py` | per call: threads, a gate, a queue | one batch of URLs for each of eight providers | extract fallback, HTTP client |
| **DonSeTch** `providers.d/donsetch.py` | a child process, its streams, a queue of its lines | spawn, handshake, tool calls, terminate, reap | a foreign program |
| **HTTP client** `http_client.py` | a context variable with the request deadline; a connection pool | acquire, send, retry, redirect, deadline check | adapters; survives a fork |
| **Full-text store** `bounded_context_v3.py`, `span_extraction_v3.py` | a directory of texts | store, sweep, look up; limits of an extraction | extraction; shared by processes |
| **Provider statistics and health** `provider_stats.py`, `provider_health.py` | two JSON files; thread locks and a lock file | record, mark, reset | search race, older search; shared by processes |
| **State migration** `state_migration_v3.py` | backups with a manifest | read, stage, import, roll back | operator; runs beside everyone else |
| **Older search and cache** `search.py`, `cache.py` | JSON files | providers in order, cooldowns, merge, cache | command line |
| **Daemon tasks** `daemon_tasks.py` | one thread, an event, callbacks | start, finish, callback | search race, research, server |
| **Error classification** `errors_v3.py` | none | exception to class, retryable or not | attempt engine |
| **Pure functions** routing, intents, quality, diversity, dates | none | scoring and text work | search |
| **Configuration, SDK, schema scripts** | loaded once | | |

What is hard in it:

* **Interleaving.** Threads of one request and processes of many share circuit
  rows, ledgers, caches and JSON files.  Some are transactions, some are locks of a
  process, some have no lock at all: a call acts on what it read several steps ago.
* **Failure.** An I/O error makes a store unavailable for a quiet period, in the
  middle of a call that holds a reservation or a probe lease.  A process may die
  anywhere, between two steps of a rollback too.
* **Money.** Every try is paid.  A limit must hold across threads, retries,
  processes, faults and crashes; a unit reserved and not spent must come back; a
  page that was paid for must reach the caller, whatever else fails.
* **Shifting positions.**  Providers reorder, drop, rewrite and repeat URLs; what
  is left of a batch is the next provider's batch.
* **Untrusted others.**  A child process or a server answers late, twice or never;
  an answer must not be taken for that of another question.
* **Time.** Request deadlines, probe leases, open windows, Retry-After, hedge
  delays and pacing all read a clock that moves between two steps.

What makes each part correct is stated as the properties below, and PROJECT.json
lists each hazard at its line with the property that would notice it.

## 2. Modules

| Module | What it models |
|---|---|
| `CircuitStore` | the transactions on the circuit rows of one endpoint, as operators |
| `AttemptEngine` | `AttemptEngine.execute` by concurrent calls over `CircuitStore`, the ledgers, the store's availability, crashes |
| `CallAllowance` | the abstract promise of a budget, without a ledger |
| `ProbeWatch` | `AttemptEngine` with a history of the probers whose lease shuts nobody out |
| `HedgedRace` | `_race_providers`, `_last_resort_probe` and their part of `_execute_search_v3` |
| `ResearchFanOut` | `run_research_mode`, the receipts of `_execute_research_v3`, `DaemonTask` |
| `ExtractMatch` | `match_extract_items`, as operators |
| `ExtractFallback` | `_execute_extract_v3` over `ExtractMatch`, up to the response |
| `RoutingReceipt`, `ResponseBuild`, `BudgetPreflight` | the receipt, the response and the preflight, as operators |
| `RequestPath` | `execute_v3_request`: requests end to end over these three, sharing the cache and the ledger |
| `ResponseCache` | one entry of `cache_v3.py` and the requests that share it |
| `SharedFiles` | the health and the statistics file under their locks |
| `StateMigration` | migration and rollback beside `SharedFiles` and the users of the database |
| `FullTextStore` | the store of page texts and its sweeps |
| `LegacySearch` | `_execute_search_request_core` with cooldowns, merge and the older cache |
| `ToolCall` | a call of the MCP server, in a thread or a child process |
| `DonsetchSession` | a session with the DonSeTch child process |
| `ConnectionPool`, `CallPacer` | the transport: kept-alive connections, and starts of a rate-limited provider |
| `ExtractBatch` | one call of an extraction adapter |
| `ProviderRequests` | what each search provider is sent, and what is told of it |
| `MCAttemptEngine`, `MCProbeWatch`, `MCHedgedRace`, `MCResearchFanOut`, `MCExtractFallback`, `MCStateMigration`, `MCRequestPath` | constants for TLC |
| `Services`, `MCServices`, `ServicesProofs` | the components that share nothing, side by side: see section 3 |
| `Selection` | what is picked from a sequence, as operators the proofs can unfold |
| `AttemptEngineProofs` | theorems: types, receipts, probe leases, hard blocks; the ledgers, and that they implement the allowance |
| `RaceProofs`, `ExtractProofs`, `ResearchProofs` | theorems: what becomes of every candidate, URL and provider |
| `RequestPathProofs` | theorems: what was paid for is answered, hits are whole answers, statuses are true, calls and texts stay within their limits |
| `MigrationProofs` | theorems: shared files, import, rollback |
| `FiniteLemmas` | lemmas: induction, folds, sums and enumerations over finite sets |

How they compose: `RequestPath` takes from `HedgedRace`, `ResearchFanOut` and
`ExtractFallback` only the outcomes these can hand over (attempts with their
results, who was superseded, the items left); each of them takes from
`AttemptEngine` only how a call may end, and the engine's operation may do what
`ExtractBatch`, `DonsetchSession`, `ConnectionPool` and `ProviderRequests` show of
an adapter.  `ToolCall` runs a whole request as one pipeline.

An operator whose name starts with `Bug` is a plausible mistake in the definition
that follows it.  No specification uses it; PROJECT.json names the property that
catches it.

### CircuitStore and AttemptEngine

One action is one transaction of the store, or one step of `execute` between two
of them, and the clock may tick between any two steps.  The control state of a
call, `pc[c]`, is where it stands:

    admit -> (claim -> (reread)) -> reserve -> (reserveDaily -> (unreserve))
          -> call -> inflight -> (commitDaily) -> (release) -> (record | succeed)
                  -> (refundDaily)               -> sleep -> admit (next try)
    expire (transient, then timeout) -> admit      for a last-resort probe

`frame[c]` holds the local variables of `execute`; the rest follows the code:

| Model | Code |
|---|---|
| `circuit[k][e]` | the row of endpoint k and class e; a missing row reads as closed |
| `daily` | today's row of `budget_ledger` |
| `budget[r]` | the in-memory request budget of one store instance |
| `downSince[r]` | `_available` and the time its quiet period started |
| `deadline[r]` | the deadline of a request, which all its calls share |
| `Admit`, `Claim`, `Reread` | `admit`, `_claim_half_open`, `get_circuit` after a lost claim |
| `Reserve`, `ReserveDaily`, `Unreserve` | the two reservations and the return of the first when the second is denied |
| `Send`, `RefuseAtDeadline`, `RefundDaily` | the first request of a try; the deadline's error out of the operation, before or after that, and the refund it leads to |
| `Finish`, `CommitDaily` | the operation ends; the two commits |
| `Release`, `Record`, `Clear`, `Succeed` | lease back, `record_failure`, `record_success` per class, the receipt |
| `Leave`, `GiveBackAndLeave` | `_stopped`: a skip after a paid try is reported as its failure |
| `Reprobe`, `Crash` | recovery of a store, death of a process |

`sent`, `sentToday`, `lapsed`, `owner` and the frame fields `probed`, `paid` and
`forced` are history; no action's guard reads them, except that `forced` keeps a
request to one last-resort probe (in the code that call follows the race once).

Decisions, each one a place where the model says less than the code:

* Error classes that are no provider health are one class, `other`.
* Failure counts saturate at `FailuresToOpen`: the code compares a count only
  with the threshold and with zero.
* Every call costs one unit (`budget_units=1` in the code).
* `configure_budget` and the daily `reserve_budget` are one action: the first only
  writes the limit, a constant here.
* The in-memory reconciliation happens in the same action as the end of the
  operation; it takes a lock no other step holds for long and cannot fail.
* Only a rate limit carries a Retry-After, as only an HTTP 429 does; the jitter of
  the back-off is left out; a pause may take any time.
* The day does not roll over: the window key is chosen when a call reserves and
  kept until it reconciles, so two days are two independent ledgers.
* A request slot is reused by `NewRequest`, which begins with a fresh store
  instance and budget.
* A try is one step from `call` to `inflight`, however many requests its operation
  sends; `Batches` are the calls whose operation may send several, and only these can
  meet the deadline with a request behind them.
* `LastResort` says whether requests make last-resort probes: search does, extract
  does not.

### CallAllowance

Callers take out grants and send only on a grant; a grant is spent, given back or
lost, and never more than `Limit` are out or charged.  A grant that was spent may be
taken back (`Lapse`), which is what the engine does with the unit of a batch that the
deadline ends midway; `lapsed` counts these, and the promise is that no more than
`Limit + lapsed` are sent.  `AttemptEngine` implements
it under the refinement mapping at its end: grants out are the calls between
their daily reservation and the sending (or the refund), everything else in the
ledger is charged.  A crash and an unreachable ledger map to `Forfeit`: they may
only ever charge too much.

### ProbeWatch

A lease has a length and no identity: a call goes on probing when its lease is over, and
a failure with a short Retry-After, a last-resort probe or an outlived lease given back
frees a row somebody still probes.  Nothing in the code prevents any of these.
`ProbeWatch` marks the probers this happens to (`exposed`), step by step beside the
engine, and `OneProber` says that two probe one bucket only if one of them is marked.

### HedgedRace

The racer is one thread, each candidate a daemon thread of which only the outcome
matters.  The wait on the queue and the reading of the clock after it are two
steps (`WaitOver`, then `StopAtDeadline` or `Hedge`), so a result may arrive and
the deadline may pass between them.  `Conclude` writes the receipts and picks the
winner; `Probe` is the last-resort probe, made by the racer itself.  Left out: the
exception a host secret scope raises, which re-raises out of the race.

### ResponseCache

One entry, that is one cache key and one file, and the requests with that key.
The code takes no lock: every action is one operation on a file, so a request
acts on what it read some steps earlier while others write.

    idle -> lookup -> over                        a hit
                   -> remove -> (execute | over)  expired
                   -> examine -> scan -> (move | remove) -> (execute | over)
            execute -> (put) -> over

| Model | Code |
|---|---|
| `file` | the entry's JSON file: an answer (its candidate order, its `created_at`), a file with another owner, or bytes that do not parse |
| `quarantine` | `response_root/quarantine`: `[of, n]` is the name (digest and suffix), `holds` the bytes |
| `Ask`, `Read` | `get`: the clock, `_read_for_lookup` and the classification, then the comparison of candidate orders in `execute_v3_request` |
| `Remove` | `path.unlink` of an expired entry, or of bytes that are in quarantine already |
| `Examine`, `Scan`, `Move` | `_quarantine`: read again, look for a name, `os.replace` |
| `Execute`, `Put` | the adapter; `put` through a temporary file |
| `ClearFound`, `ClearEntry`, `ClearQuarantined` | `clear`, which reaches answers in quarantine too |
| `Damage`, `Die`, `Io(FALSE)` | other software, the end of a process, a failing system call; together at most `MaxFaults` |

A read that fails for any reason but a missing file counts as corrupt, as in the
code.  The payload is abstracted to the plan and the time of birth, which is all
the lookup tells apart.  Requests whose cache mode is `bypass`, or whose adapter
finds them ineligible, never reach the cache and are not modelled.

### ResearchFanOut

The collector is one thread, each provider a daemon thread.  A thread's steps are
those the collector can tell apart: its operation starts, it returns with a receipt,
the task publishes its result, the task notifies.  The collector:

    launch -> turn <-> wait -> mark -> extract -> (extracting) -> report -> over
              turn ---------------------^

| Model | Code |
|---|---|
| `label` | `pending_by_index`, `results_by_index` and the texts in `provider_errors` |
| `queue` | `completed`; what `done()` shows is `thread` |
| `Launch`, `Turn`, `Wake`, `Expire`, `Mark` | the budget gate; the top of the loop; `completed.get` returning; raising `Empty`; `mark_budget_timeouts` |
| `Extract`, `Extracted`, `ExtractOverdue` | the extraction of the best pages, skipped, ended, or given up |
| `receipt`, `pages` | `receipts_by_provider`, `payloads_by_provider` |
| `FinalReceipt`, `BudgetLimited` | the receipts `_execute_research_v3` writes; `budget_limited` of the response |

A page is a model value with a domain.  A thread's inside is `AttemptEngine`; here an
admission may be refused, at the deadline always.  A drain and the decision that
follows it are one step.  The collector's wait ends empty only at the deadline: what
a fake clock would make of it (the short grace and another turn) is left out, and so
are the semaphore, which by default has room for every provider, a request without a
time budget, fusion and reranking.  The deadline of the collector and that of the
engine, taken a moment apart in the code, are one.

### ExtractMatch and ExtractFallback

`ExtractMatch` is the pure part: six passes of falling evidence (the item's own
URL or the URL it says it was asked for; the very spelling, the canonical form,
the form without scheme and percent spelling), the lone-item rule, repeated URLs.
A URL is a model value; the two comparison keys are constant functions, so what
`canonical_url` and `_rewrite_key` do to a string is left to the instance, and nothing is
assumed of either or of the two together: they are not nested, since the second ignores
the scheme and the first drops the port 80 of http only (`urls.py:186`,
`extract_match.py:48`).  A batch
keeps the positions of the request: the code numbers the URLs of each batch afresh and
maps the numbers back (`pending[i]`), which keeps their order, and the matching compares
positions only.

`ExtractFallback` is one request.  A candidate's turn is one action when it is
skipped (`Skip`) or raises (`Fail`), and two when it replies: `Answer`, then what
becomes of the reply.  The deadline may pass anywhere.

| Model | Code |
|---|---|
| `pending`, `answer`, `failed` | `pending`, `succeeded`, `failed`, by position |
| `reply.match` | the result of `match_extract_items` on the batch and the items |
| `Discard` | the call raises although it had a reply: a provider-wide stop or a run-out deadline before any page was read, or pages for other URLs only |
| `AllFailed` | `ExtractUrlsFailed`: the reasons are kept through `batch_failures` |
| `Serve` | some page was for a URL of the batch; a stopped batch keeps its pages |
| `Better`, `Final` | `extract_failures.better`, `FINAL_REASONS` |

`gone` and `offered` are history.  What the engine does inside a turn is
`AttemptEngine`: here an admission may fail at any time, a call takes one unit, and
a retry (made only when there is a single candidate) is part of the same turn.
Left out: URLs refused by the URL check, which never enter `urls`; the optional
quality filter; `fallback_errors`, `unmatched_results` and the texts.

### RequestPath, with RoutingReceipt, ResponseBuild, BudgetPreflight

    idle -> preflight -> lookup -> execute -> finish -> done
                 \-> done (refused)    \-> done (hit, or nothing to execute)
                                          \-> raised (a receipt or response is invalid)

| Model | Code |
|---|---|
| `Submit`, `PlanOf`, `Rekey` | normalising and planning; a provider's key comes or goes between two requests |
| `Preflight`, `Checks`, `Decide`, `Reduced` | `run_budget_preflight` on the ledger as read then; refuse, reduce or let through |
| `Lookup`, `FromCache`, `SamePlan`, `OfHit` | the entry, whose plan must be that of the request, and the receipt a hit is given |
| `Execute`, `SearchRuns`, `ResearchRuns`, `ExtractRuns` | every combination of fates the three executions hand over, within `Units`; a research's pages read in time or not |
| `Completed`, `Decisions`, `Fallback`, `ValidReceipt` | `complete_routing_receipt_v3` and the validation that raises `ValueError` |
| `Built`, `Observations`, `ExtractResults`, `SearchResults`, `Limited` | `response_from_legacy`: sources, slots, status, warnings |
| `Bounded`, `FairShare` | the limits of an extraction's texts |
| `Finish`, `WorthKeeping`, `Age` | finalization, what is cached, time |

Texts are lengths, pages are model values with a canonical form.  The order of
providers is a constant of the scene: how `routing.py` scores a query is left out.

### SharedFiles and StateMigration

A thread's update goes `idle -> (waits ->) locked -> loaded -> idle`: take the lock
of the process (and, for the statistics, the lock file), read, replace.  A failed
read counts as an empty file, and a death frees the operating system's lock only.
`MigrationStep` is one file operation of `migrate_legacy_state` (`Read` six times:
hashes, files, hashes again; `Preflight`, `VerifySource`, `MakeDir`, `Copy`,
`WriteManifest`, `OpenStore`, `Import`) or of `rollback_legacy_state` (`Validate`,
`UnlinkLog`, `RestoreDb`, `RestoreSecret`); each may fail or be the last one before
`MigDies`.  The database is a main file and a write-ahead log; users make the
secret, connect, commit and checkpoint meanwhile.  `held` (the pairs of contents the
files had since the migration began), `recorded`, `healthBy`, `misread` and
`disturbed` are history.

### The other components

| Module | State | Steps |
|---|---|---|
| `DonsetchSession` | the child, its streams, the reader thread's queue, the request's loop over URLs | `Spawn`, `Initialize`, `Call`, `Answered` (the id matches), `CallFails`, `CallBreaks`, `PassOver`, `Terminate`, `Kill`, `Reap`, `Drain`; the child's `Reply`, `Chatter`, `ChildDies`; `ReadLine` |
| `ConnectionPool` | per process: idle connections and the pid they belong to; per connection: requests sent, owed, answered | `Acquire`, `Send`, `Receive`, `Replace` (the one retry), `Interrupted`, `Decide` (redirect); the server's `Serve`, `HangUp`; `Fork` |
| `CallPacer` | next slot, last start, interval | `WaitTurn`, `Send`, `Raise`, `Learn` |
| `FullTextStore` | files by path (a writer trusts the digest in an entry's header, a reader checks the text), temporary files, orphans, each process's listing | `Check`, `Vet`, `Look`, `WriteTemp`, `Link`, `Verify`, `CleanOrphans`, `Scan`, `Evict`, `Find`, `Expire`, `Read`, `Die` |
| `LegacySearch` | health entries, cache entries, per request what is eligible, got, failed | `Submit`, `Lookup`, `Answered`, `NotConfigured`, `Fails`, `Finish` |
| `ToolCall` | per call its thread, its process, its wait | `Dispatch`, `PipelineStarts`, `WorkerEnds`, `ChildEnds`, `TakeThread`, `WaitEnds`, `TimesOut`, `Resume`, `Cancel` |
| `ExtractBatch` | per URL its fetch; what the caller collected | `Start`, `Dispatch`, `Reply` of a thread; `Collect`, `GiveUp`, `Crash`, `End`, `Batch` |
| `ProviderRequests` | the request, providers left, the last message, what is told | `Check`, `Dispatch` (one message per provider), `Fails`, `Answers` |

In `ProviderRequests` a message is what the body says of domains, recency, vertical
and locale, in a unified form: a filter is the set of sites it covers, so a `site:`
operator and a domain field are compared by what they let through.  Public suffixes,
operator limits and unusable tokens are kept, since a filter is lost by them.

## 3. Runs

| Run | Question | Properties | States, time |
|---|---|---|---|
| `probe` | Two requests, one failing and recovering provider, leases that expire or are undercut | `OneProber`, `NoProbationForABlip` | 0.4 M, 15 s |
| `retry` | Two calls that retry, every error class and Retry-After, deadlines, a request limit of one, last-resort probes | `PaidTryReported`, `UnusedLeaseReturned`, `HardBlockHolds` | 1.5 M, 40 s |
| `budget` | Three fair calls of two requests, both limits 1, a fault or crash | `RequestBudgetKept`, `ReservationsMatch`, `ImplementsAllowance`, `CallsEnd` | 0.1 M, 60 s |
| `race` | Three candidates, two hedge delays, every outcome, three deadlines, providers that may hang | `EveryoneTried`, `FirstAnswerWins`, `LimitReportedTruly`, `DeadlineEndsRace` | 0.2 M, 10 s |
| `extract` | Six requests with siblings, similar and repeated URLs, two providers, every reply of up to two items | `SiblingsNotMixed`, `ReadOnce`, `NoneDropped` | 0.2 M, 40 s |
| `research` | Three providers that answer, fail, are refused or hang; same, different or no pages; an extraction that may hang | `QuorumIsReal`, `FullRecall`, `ReceiptsMatchResults`, `AnswersKept`, `PaidIsReported`, `BudgetEndsResearch` | 0.9 M, 60 s |
| `path` | Two overlapping requests in each of eight scenes, every outcome of their executions | `PaidIsAnswered`, `StatusTrue`, `CapsHold`, `HitsAreWhole` | 0.2 M, 80 s |
| `migrate` | Two migrations or rollbacks beside two processes that use the files and one user of the database, one fault | `ImportIsSnapshot`, `RollbackRestores`, `NoSampleLost` | 1.8 M, 35 s |
| `services` | Nine components side by side | `HonestHits`, `NoSpuriousQuarantine`, `SessionHolds`, `TransportHolds`, `StoreHolds`, `ForeignTextsKept`, `LegacyHolds`, `ServerHolds`, `BatchHolds`, `SearchHolds`, `AlwaysAnswered` | 1.6 M, 130 s |
| `swap` | expected violation, finding 1 | `RightPage` | |
| `ledger` | expected violation, finding 2 | `ClosedOnlyWhenNecessary` | |
| `deadline` | expected violation, finding 3 | `DeadlineSkipsUnpaid` | |

**Side by side.**  The components of `services` share no state, so their product
would only multiply; the initial state picks one (`part`) and only that one moves.
`Services` gives each module's variables to a few shared ones (`clock`, `step`,
`s1` .. `s15`) by `INSTANCE ... WITH`.  Each property named `...Holds` is the
conjunction of the properties its module states and explains:

| Property | Part | What it says |
|---|---|---|
| `HonestHits`, `NoSpuriousQuarantine` | cache | a hit fits the plan and its label; no half-written entry is taken for damage |
| `SessionHolds` | DonSeTch | a page belongs to its URL, every URL is accounted for, pages survive a later failure, the child is gone at the end |
| `TransportHolds` | pool, pacer | answers are the caller's own, a connection has one user and one process, a request is sent a second time only for a closed connection; paced starts are an interval apart and in time |
| `StoreHolds`, `ForeignTextsKept` | full texts | the texts fit their limit at rest, a reader sees whole texts, a user's file stays |
| `LegacyHolds` | older search | no page twice when several answered, none of another provider for a strict request, an error only when everyone failed but those in cooldown as the request came, hits no older than allowed |
| `ServerHolds` | tool calls | at most one pipeline per call; success is that of a pipeline |
| `BatchHolds` | extraction batch | paid pages reach the caller, an account-wide error reaches the engine, at most one gate's worth of calls follows it |
| `SearchHolds` | search requests | domains are kept to by whoever takes the whole list, the metadata is true of who answered, no synthesized answers |
| `AlwaysAnswered` | DonSeTch, tool calls, batch | each ends though nobody on the other side does |

`TypeOK` of a module states the shape of its variables; it is a conjunct of the
`...Holds` properties and of the inductive invariants of section 4.  Those of
`StateMigration` and `ExtractFallback` are documentation, no run lists them.

**Bounds.**  Model seconds are scaled: a lease and a blip window take 2, the
quota window and the ceiling 3, the Retry-After values are none, one below and
one above the longest wait.  The threshold of a blip bucket is 2, or 3 in `budget`.
`MaxTime` lets a window open, expire, be probed and reopen; `MaxRequests` lets a
slot be used again by a later request; `MaxFaults` gives one fault in `budget`,
`migrate` and in the cache and store parts of `services`, at any step (the budget,
cache and migration theorems hold for any number).  Two calls suffice for every race
on a row or a ledger, since a property relates at most two calls and a row; `budget`
adds a third, so that two calls of one request and one of another compete.
`race` needs three candidates, so that one is left over when two are in flight.
In `research` two of three providers make a quorum while the third is anywhere in its
call; payloads that are empty, alone on one domain, or on two tell the three
quorum conditions apart; the clock has one tick, the deadline, since the collector
compares it with nothing else.
In `extract` three URLs cover a pair of siblings beside another URL, and a
repeated one; two items cover every way in which one can be taken for another;
with two providers one gets what the other left.
In `path` two requests give every order of one's cache write and ledger units
and the other's reading of them; each scene turns on what it is about: a key that
comes and goes, a day's limit, a request's limit, research, too long texts, more
URLs than are processed, an extraction by one provider.
In `migrate` the files are updated twice, so that the second update falls on either
side of any of the six readings, and one migration's backup can be rolled back by
the second run.  The window of two samples is filled but not exceeded, since a third
update makes the run eight times larger; `NoSampleKept` (section 4) covers every
window.
In `services`: two requests on one cache entry, since entries share nothing but the
quarantine; two URLs and one stray line for a DonSeTch session,
so that a late answer can meet the next question; two connections and three callers,
one of them in a forked copy; four paced calls under intervals none, shorter and
longer than the longest wait; two pages, a file of the older naming and two stores or
lookups, with room for two; two older searches over four providers, one unconfigured, one
that answers with more than was asked;
two tool calls for one executor thread; batches of one and three URLs for two workers,
so that one is queued when the first two end; all fourteen search providers and four
pairs, with recency and vertical, filters, and locale varied one at a time (they do
not meet in the code).  Symmetry (requests alike) is used in safety runs only.

**Deadlock.**  The clock and the requests are bounded and a system whose requests
are done has nothing left to do, so the configurations say `CHECK_DEADLOCK FALSE`.
That a call, a race, a research request, a session, a tool call or a batch is never
stuck is what `CallsEnd`, `DeadlineEndsRace`, `BudgetEndsResearch` and
`AlwaysAnswered` say.

**Fairness.**  `AttemptEngine.FairSpec`: weak fairness of every call's own steps.
A started call is a running thread; its operation ends because each socket has a
timeout, its pauses because they are bounded sleeps.  Nothing is assumed of time,
of faults or of new requests.  `HedgedRace.FairSpec`: the racer and the clock go
on, providers may hang.  `ResearchFanOut.FairSpec`: the collector and the clock go
on; no search, and not even the extraction, is assumed to end.
`Services.ServicesSpec`: of a DonSeTch session the caller's steps and the clock,
of a tool call the server's steps for that call, of a batch the collector and the
clock; nothing is assumed of the child process, of a pipeline or of a fetch, since
every wait for them has a timeout of its own.  The other modules need none.

### Findings

1. **The wrong page** (`swap`).  "Providers may reorder, drop, rewrite or repeat
   URLs; the caller sees none of that" (`extract.py:742`).  The lone-item rule
   looks at the open URL only: asked for a and b, a reply with a twice and without
   b leaves one URL and one item, and b gets the second page of a.  The rule
   excludes a lone URL with siblings for this very reason (`extract_match.py:107`).
2. **Closed for want of a file** (`ledger`).  The budget snapshot is to tell a
   missing row from an unavailable database "so policy can fail closed only when
   necessary" (`state_store_v3.py:852`).  With a daily limit on a fresh installation
   there is no state file; the snapshot opens it as an existing one, gets an
   unavailable store, and the preflight refuses with `budget_ledger_unavailable`
   (`orchestrator_v3.py:188`).  Only a provider call would create the file, so every
   later request is refused too.
3. **Paid, and reported as never sent** (`deadline`).  "No dispatch on this try: return
   both reservations" (`attempt_engine_v3.py:492`).  The engine says this of every
   `RequestDeadlineExceeded`, and a batch may raise one after a request: when the first
   page failed at Firecrawl or Linkup and the deadline passes between the check before
   the next page and its dispatch (`providers.py:1129`, `1206`), every item has an error
   and `_extract_batch_payload` raises the deadline's (`providers.py:1102`).  The paid
   request is in no receipt, and its unit of the day is spent again by another request:
   `DailyBudgetKept` holds up to `lapsed`.  The request's own limit is not overrun,
   since all its calls share the deadline that has passed (`RequestBudgetKept`).

### Observations without a run of their own

*Attempt engine and store.*  "A success deletes the bucket and resets the count"
(`state_store_v3.py:30`), but a success clears only the classes its call saw failing
when it was admitted (`attempt_engine_v3.py:596`): failures of an overlapping call
count as two in a row with a success between them.  `release_half_open` gives back
"a probe lease that was claimed but never used" (`state_store_v3.py:553`) and matches
the class only: a prober that outlives its lease frees the lease another call claimed
meanwhile.  So two may probe one provider after all, as they may with a last-resort probe
or a Retry-After shorter than a lease, since a failure recorded late turns a half-open row
back to open; `ProbeWatch` names these cases.  A read error of the ledger counts as
nothing used.

*Race and research.*  The last-resort probe runs in the racer's thread and is bounded
by socket timeouts only.  An execution that raised is listed as superseded.  "A hedge
loser is cancelled because another attempt won, not by a budget" (`runtime_v3.py:644`):
the race says who was superseded, research never does (`search.py:1828`), so a response
that ended by a quorum claims to be limited by its budget.  A provider preempted before
its operation started is reported as skipped, "excluded before admission"
(`attempt_engine_v3.py:282`), yet its thread goes on and may still call.

*Extraction.*  "A page that does not exist ... is final" (`extract_failures.py:10`), but
only `ExtractUrlsFailed` carries a reply's reasons out of a failed call (`extract.py:631`):
when a provider-wide error stops the batch first, the 404 is forgotten and the next
provider is paid for the URL.  A request may name a URL twice, and positions are
served one by one: where a provider reads the page for one and fails the other, the next
provider is asked for, and paid for, a page that is there (`extract.py:669`; `ReadOnce` is
of positions).  `http://e.com:80/p` and `http://e.com/p` have one canonical form and two
rewrite keys, so the lone-item rule takes neither for a sibling of the other: of a reply
that names one of them twice the second item goes to the other one
(`extract_match.py:107`; `SiblingsNotMixed` is of spellings with one rewrite key).  A JSON
reply that is not an object ends such a batch with an `AttributeError` and loses the pages
read before.  Automatic extraction with every provider disabled raises "provider plan
requires candidates".

*Adapters.*  "An unrestricted search must not stand in for a restricted one"
(`provider_dispatch.py:98`), but SearXNG's adapter passes neither domain list on
(`provider_dispatch.py:298`), and nothing filters its results: `Restricted` exempts
SearXNG and Keenable.  SearXNG is also told a country it is not sent, which `ToldTruly`
exempts.  Octen and TinyFish prefer freshness to time_range, against
`effective_recency` (`providers.py:168`); recency "hour" is sent to some providers and told
as unsupported; TinyFish is sent a vertical told as not applied; Keenable drops excludes
and all includes but the first; excludes beyond the operator limit are dropped untold;
Firecrawl is told a language it is not sent, Brave one it omits.  Serper's request for
images is a second call that no budget reserved.  The pacer lets calls through at once
when the wait would be too long, and moves the next slot back then.  A redirect may start
after the deadline (`http_client.py:365`).

*Caches and files.*  `_quarantine` moves bytes aside "without overwriting evidence"
(`cache_v3.py:361`), but looks for a free name first and replaces it later: the second of
two readers puts whatever the file holds by then over what the first put aside.  A late
reader unlinks or quarantines an entry another request has just written, and a passing read
error quarantines a good one (`cache_v3.py:485`, `cache.py:254`); each costs a repeated
call only.  The older cache lets decoding errors escape, and a strict
request is served a merged answer that was kept under its provider's name
(`search.py:1204`); a single provider's answer is as long as the provider made it, only
merged ones are cut (`search.py:1466`).  Answers shortened by a budget are kept for the full
time.  Storing an expired text again evicts it and reports a failure; a text's age is never
refreshed.  Updates of the health file by two processes may lose one another's entry, and
a failed read of either JSON file counts as empty, so the next save erases it (`NoSampleLost`
and `HealthUpdatesInTurn` say so much and no more).  The configuration writer's temporary
file has one name for all (`server.py:303`).

*Migration.*  It is called "reversible" (`state_migration_v3.py:4`), but the flags of the
manifest are taken before the files are copied: a secret or database created in between
makes the backup unusable (`backup_invalid`).  The automatic rollback after a failed import
restores the ledger of an earlier moment.  A log created between the removal of the old one
and the exchange of the main file is foreign to it, which is why `RollbackRestores` asks
that nobody is connected.

*Server.*  A configuration warning before the answer makes the child's output no JSON, and
its typed error is lost (`server.py:1006`); a child killed after it printed one warning in
JSON has that returned as a success (`server.py:1069`), the exception in `SuccessIsReal`.

## 4. Proofs

All theorems hold for any numbers of calls, requests, endpoints, threads, providers,
candidates and URLs and any limits, from the named assumptions of the modules
(`StoreAssumption`, `EngineAssumption`, `RaceAssumption`, `FallbackAssumption`,
`CacheAssumption`, `ResearchAssumption`, `SharedFilesAssumption`, `ServerAssumption`,
`PoolAssumption`, `PacerAssumption`, `BatchAssumption`, `SessionAssumption`,
`ScenesAssumption`, `NamesAssumption`, `LegacyAssumption`, `SearchAssumption`),
which TLC evaluates in the runs.  Three theorems assume more, and say so: `AllowanceKept`
and `AllowanceImplemented` that there is a daily limit, and `NoProbation` what is
explained below.

**Attempt engine** (`AttemptEngineProofs`).  `TypeOK` is not inductive: a call at
`release` needs a lease, one at `claim` a target, one at `record` an error.  `TypeInv`
adds these facts per step (`CallsOK`) and gives `TypeCorrect`.  Next has some twenty
actions that share a handful of ways out, so the other properties are not proved action
by action:

1. `Paths` says what the local variables of a call may be at each step (`PathOK`): a try
   under a lease is a paid try, a paid try leaves an error to report until the call
   succeeds or raises, a lease that is not given back has been used, times lie in the
   past.  `PaidTryIsReported` is its case for a call that has ended.  The one way from a
   paid try to a skip is the deadline's error out of a batch (`MayEnd`).
2. `CallMoves` and `RowMoves` sum up what any step of Next does to one call (it stays,
   moves on with its lease, is admitted, claims, releases, returns, ...) and to one row
   with its owner (untouched, claimed, recorded, cleared, released, expired).  Each is
   proved once, with one case per action.
3. The invariants follow from these sums.  `OwnerInv` says that the owner of a probe
   belongs to a row that is half open, and holds its lease until it gives it back or has
   used it: `UnusedLeasesReturn`.  `HardInv` says that a call past the circuit rows
   either found each hard block expired or was admitted no later than it was written:
   `HardBlocksHold`.

`NoProbation` (`NoProbationForABlip`) assumes `~LastResort`.  Its invariant `BlipInv`
adds `ClaimsOpened`: between the admission that saw a blip bucket open and the claim,
another call may clear it and a third may count again, but the window of the new count
has not expired when the claim compares.  A last-resort request ends windows early, and
with one the property is false: with both blip classes, two calls and ten requests TLC
finds a claim that follows such an early end and puts a provider on probation for a
single blip (the request ends the transient bucket's one-blip window while the timeout
bucket is the one that is open).  `OneProberHolds` is about
`ProbeWatch` and assumes nothing: its invariant `ProbeInv` says that the row of a running
probe that is not exposed is closed or blocked at least until its lease ends.  A failure
recorded meanwhile reopens the row, and it is exactly when its window is the shorter one
that `Undercut` marks the prober; the claim of a row that is half open or open compares
its `until` with the clock, in one transaction, so nobody gets in before.  What the theorem
leaves to the configuration is how often anybody is exposed: the default windows (60, 300
and 3600 seconds) are no shorter than a lease of 60, a provider's Retry-After may be.

**Budget** (the last part of `AttemptEngineProofs`).  `RequestBudgetHolds`, `DailyBudgetHolds`
and `ReservationsHold` share one induction.  `BudgetInv` adds to `TypeInv`: the reserved
units of a request equal its calls at the steps between reservation and reconciliation;
what it sent and may still send is covered by its used and reserved units, which stay
within the limit; the same for the day, with `>=` where a fault or a crash can strand a
unit, and but for the lapsed units; and no call is at `broken`.  That a batch gets its
request's unit back after it sent does not break the request's limit: the sum holds until
the deadline, and past it nobody sends (`MaySend`).  Without the equality the reconciliation guard
(`reserved >= 1`) cannot be discharged.  The lemmas on counting (`CountUp`, `CountDown`,
`CountFall`, ...) say how the number of calls at a set of steps changes when one moves.
`AllowanceImplemented` is the refinement: `Spec => ImplementsAllowance`.  `GrantSteps`
sums up what any step does to the grants out, the units taken and the requests sent; a
crash loses the grants of its process, a ledger out of reach keeps a unit that should have
come back, a batch ended midway takes one back (`Lapsing`).  With `AllowanceKept`,
`CallAllowance`'s own promise, this is what the ledger is for.

**Race** (`RaceProofs`): `EveryoneIsTried`, `FirstAnswerHolds`, `LimitsAreTrue`.  The
properties speak of the end of a race, so `RaceInv` follows a candidate through it:
`Queues` (it is pending, running, in the queue or dealt with, and in no two of these),
`Answers` (what its outcome may be in each place), `Stages` (what the racer knows at each
of its steps) and `Arrivals` (what it has taken from the queue is the beginning of the
order of arrival and held no answer).  The racer acts some time after its wait, when more
may have arrived or the deadline passed; without `Arrivals` the winner could be a later
answer.

**Extract** (`ExtractProofs`): `PagesReadOnce`, `NoUrlDropped`, `SiblingsApart`.
`FallbackInv` says that a position is open, answered, or closed by a final reason heard
from a provider (`Accounts`), that open positions went to everyone called and that nobody
was asked out of turn (`Offers`); `ReadOnce` follows of each position.
The first two theorems do not open what
`match_extract_items` pairs: they hold for every matching of a batch.  `SiblingsApart` is
about the matching itself.  The set `Fitting` of the matchings in which every position with
a sibling holds no item or one it has earned (`Earned`: by the very spelling, or by a
canonical form no sibling shares) is closed under every step of the six passes (`TakeKeeps`,
`RunPassKeeps`), under the lone-item rule, which leaves positions with siblings alone
(`LoneKeeps`), and under the repetition of pages, which joins equal spellings only
(`RepeatsKeeps`).

**Request path** (`RequestPathProofs`): `HitsTrue`, `StatusIsTrue`, `CapsAreHeld`,
`PaidTrue`.  `Inv`, at the end of `RequestPath`,
says that an entry is a whole answer to whoever has its key, and the work is in showing
that `Finish` stores no other.  `RunServes` says what an extraction without an error hands
over: an item for each URL that may be fetched, whose provider, if it names one, served.
From there `EachItemObserved` shows that every item is observed once (when pages of several
providers are merged this needs that the plan names no provider twice, which the receipt's
validation guarantees before anything is stored), `OneResultPerSlot` that every observation
has its result, and `FinalIs` that evidence, receipt and bounds change neither.  The
sequences behind it are not unfolded.

`StatusIsTrue` needs of the cache that no failure is kept and that what is kept as "ok" has
no text cut (`StatusInv`); the rest is what `Complete`, `Evidenced`, `Bounded` and
`Limited` do to a status (`FinalTells`).

`CapsAreHeld` is about sums.  `CapsInv` adds that a plan past the preflight is within each
configured limit (`Within`), that what an execution returns has one text for each slot
(`RunSized`) and that the texts of an entry fit the limit it is kept under.  Four lemmas
carry it: `PreflightFits`, that refusing and reducing leave nothing above a limit;
`RunCosts`, that the attempts of every execution add up to `Units` or less; `FairShareFits`,
by induction over the rounds of `_fair_shares`, that the shares sum to the budget at most
whatever the texts; and `BoundedFits`, that the clamp to `MinContext`..`MaxContext`
(`bounded_context_v3.py:85-87`) gives nothing back of it, since the configured limit is
validated to lie between the two (`config.py:517-525`).

`PaidTrue` says that no answer that was paid for ends in an exception about its receipt or
loses a page on its way out.  `AnswerInv` adds to `PaidIsAnswered` that a plan names no
provider twice and that a run waiting to be finished has the form `RunAnswers` describes:
one attempt for each provider of the plan, in its order (`Tried`), a payload that names an
attempt that served and whether that was the first (`Speaks`), and items that are the asked
URLs in order, each without a page or from a provider that served (`Answering`).
`RunsAnswer` shows this of every execution of a search, of research and of an extraction,
which are the three places where the code assembles it separately.  From there
`ReceiptStands` takes the receipt through `validate_routing_receipt_v3`, `BuiltStands`,
`EvidencedStands`, `CompleteStands` and `BoundedStands` the response through
`ValidResponse` after every step that rewrites it, and `PagesShown` and `LinesGiven`
say that grouping pages by their canonical form and projecting the response back to the
tools' format lose none.  That no provider stands twice is needed already by the receipt:
its decisions are matched with the attempts by name.  It comes from `NamesAssumption` (the
configured order is free of repetitions, `config.py:264-290`), passes through the planner
(`PlanInjective`) and the budget's cut (`ReducedInjective`).

**Research** (`ResearchProofs`): `TypeCorrect`, `QuorumHolds`, `RecallIsFull`,
`ReceiptsMatch`, `PaidReported`, `NoAnswerLost`.  `ResearchInv` adds to `TypeOK` that
exactly the providers not yet launched are unlabelled, that those shown as results have a
success receipt and those skipped no thread (`Launched`), and that nobody is given up
before the deadline but to a quorum (`Stopped`).  `QuorumInv` says a quorum is found at
the last look, after which neither the labels nor the pages of who has answered change,
although the other threads go on.  The step from counting contributors to two different
answers is `TwoContributors`: the later of two contributors has a page the earlier one,
which has pages, lacks.

**Migration** (`MigrationProofs`): `NoSampleKept`, `HealthInTurn`, `ImportOfOneMoment`,
`RollbackIsTrue`.  `FilesInv` carries the first two: every lock is held by the thread
whose step says so and nobody else (`LocksHeld`), and what a thread between reading and
replacing has read is still what the file holds (`SeenFresh`); the samples are numbered in
the order they were saved, so the file is the end of that order.  `SnapInv` carries the
third: a statistics file never returns to contents it had (`NeverAgain`, from the
numbering), so that when the two hashes of the statistics agree they stood still while the
health file was read between, and the pair that was read is one of `held`.  The health
file may well return to earlier contents; the proof shows that this does no harm.
`RollInv` carries the fourth: while a rollback runs undisturbed nobody is connected, after
`UnlinkLog` there is no log, after `RestoreDb` the main file is the backup's.

**Side by side** (`ServicesProofs`): `ServerTrue`, `TransportTrue`, `BatchTrue`,
`SessionTrue`, `StoreTrue`, `ForeignKept`, `LegacyTrue`, `SearchTrue`, and of the cache
`CacheTypeCorrect`, `HitsAreHonest`, `NothingSpurious`.  Only the part that was picked moves (`OnePartMoves`), so each
property needs the invariant of its own module.

* The cache is proved as it is, alone.  `CacheTypes` adds to the types that a request looking
  for a name has bytes to put aside; `HitInv` that a request which served a hit is over and
  what it served fits its own lookup time (the file may have changed since); `CleanInv` that
  without faults nobody is on the way to quarantine and the file is whole.
* `ToolCall.Inv` says what the thread, the process and the job of a call may be together
  (`CallOK`): the process comes after the thread in one case only, that the thread had not
  started its pipeline, so there is one pipeline (`NotRunYet` until it starts); and a job
  that is over has the result of the pipeline it ran on, unless it was given up.
* `ConnectionPool.Inv` gives every connection one place.  One that lies in a pool (`IdleOK`)
  is quiet, lies there once, is used by nobody and only ever was by that process; one in
  use (`UseOK`) has one user and nothing under way but the request that is waited for.
  That a late answer never reaches the next user (`AnswersAreOwn`) needs exactly this: a
  connection goes back only after its answer was read to the end.  The copy of the pool
  that a fork makes does not count (`Lies`), because the pid in it is another's; without
  that the invariant fails at `Fork`.  `CallerMoves` sums up what any step of a caller does
  that leaves the pools alone; `CallerReceives` and `CallerAcquires` are the two others.
* `CallPacer`'s properties are inductive as they stand.
* `ExtractBatch.Inv` says that the items are of one URL after the other and agree with what
  came of the fetches (`ItemsOK`), and how many fetches are under way (`RunningOK`).
  `FewAfterBlock` counts the requests sent after a block; threads that passed their check
  before the block still send, so what stays below `Workers` is those sent together with
  those past their check.
* `DonsetchSession.Inv` says that there is one item for each URL passed (`Progress`), that
  every line on its way carries the id of a call that was made, and that what carries the id
  of the call under way is about its URL (`LinesOK`): ids are never used twice, which is why
  late, repeated and unasked replies do no harm.  `ChildOK` says how far the child's end has
  come at each step.
* `FullTextStore.Inv`: a path that a sweep found to be an entry, or that is about to expire,
  holds no file of the user's.  It is owned when it is found, and only an owner's file may
  take its place before it is removed.  For `StoreBounded` several writers sweep at once,
  each by a list that was true when it was made.  `Accounted` says that some set of paths
  has every entry but those whose writers have yet to sweep (`Spares`), and that this set
  fits the configured size or is the list a sweep is still working off (`Reduces`): the
  last list made is the one that counts, however old the others are.
* `LegacySearch.LegacyInv`: every provider of the query's order was tried, is still to be
  tried, or was cooling down when the request came (`AskedOK`), which at the end is what an
  error may mean; what was gathered carries its provider's name, at any length (`Gathered`);
  what is kept under a key is rid of repetitions when several gave it (`EntryOK`).  `LegacyMerged` is
  about the merge: what stands first of each page, cut to length, has no page twice.
* `ProviderRequests.SearchInv` is short, because a request is one message; the work is
  in what the message of each provider lets through (`SearchMessages`, from one lemma for each
  way to say a filter: fields, operators, a prefix of the list) and in what is told of it.

**Data.**  What the model computes of a list, a set or a reply is proved for any of them,
by induction, without the library's induction theorems (they take a predicate as an
operator).  `FiniteLemmas` states induction about a set instead: a set of numbers that has
0 and with each number the next has them all (`OverNumbers`), and a set of subsets that has
{} and every set whose smaller parts it has, has every subset (`OverSubsets`), each from the
least element of a set of numbers.  On these rest the lemmas about folds, sums and
enumerations.  The folds of the community modules unfold by `MapThenFoldSet`, and in the
proofs a recursive function is known by what it is at 0 and at the next number.
`SelectSeq` and `SetToSortSeq` do not unfold, so the modules pick from sequences with the
operators of `Selection`, which say the same with folds and places.  `Selection` extends
`Folds` only: an instance of a module brings all the module extends, and the proofs about
`Services` would carry it nine times.

**Corrections.**  Properties that claimed more than the code does, and what became of
them: a paid try may be reported as a skip, and the day's limit overrun, by a batch at the
deadline (finding 3); nothing keeps probes within their leases, so `OneProber` names the
exposed; pages are read once per position; siblings are spellings with one rewrite key; an
older search's answer may be longer than asked.  A provider's own answer is not rid of repeated
pages (`search.py:1467` merges when there are several), so `LegacyHolds` excludes repeated
pages of merged answers only; and Linkup takes a prefix of a long domain list, so
`SearchHolds` exempts the lists it cuts (`TooLong`).

**Only model-checked.**  Out of the prover's reach: liveness (`CallsEnd`,
`DeadlineEndsRace`, `BudgetEndsResearch`, `AlwaysAnswered`), which rests on fairness and
ENABLED.  All other properties of the passing runs are theorems.

## 5. Not modelled

* **Routing and planning** (`routing.py`, `intents.py`): scores of a text, without
  state.  `RequestPath` takes the resulting order as a constant.
* **Result processing** (`quality.py`, `diversity_v3.py`, `dates.py`,
  `result_redirects.py`, `jev_optional.py`) and the mapping of results in the adapters:
  pure functions over payloads, mostly on strings.  What becomes of repeated pages is in
  `LegacySearch` and `ResponseBuild`.
* **Configuration and credentials**: loaded once, constants here; keys that come and go
  between requests are `keyed` in `RequestPath`.
* **Plugin SDK, schema scripts, tool schemas, the JSON form of the contract**:
  declarations and generators without state of their own.
* **Text**: how URLs are made canonical, how spans are chosen, how errors are worded,
  how cache keys and identities are derived.  Canonical forms are constants.
* **I/O below the transport**: TLS, proxies, decoding; SQLite is its transactions and,
  in `StateMigration`, its files.
* Of modelled parts: the exception a host secret scope raises out of a race, a callback
  added to a daemon task that has ended, the roll-over of the day in the ledger, research
  without a time budget, fusion and reranking, the optional quality filter of extract.
  PROJECT.json gives the status of each part.
