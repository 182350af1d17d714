--------------------------- MODULE AttemptEngine ---------------------------
(***************************************************************************)
(* Provider attempts: AttemptEngine.execute (attempt_engine_v3.py) run by  *)
(* concurrent callers against the durable state store (state_store_v3.py). *)
(*                                                                         *)
(* A request owns one store instance, hence one availability flag and one  *)
(* in-memory request budget; it makes one call per candidate provider,     *)
(* each in a thread of its own.  The circuit rows and the daily ledger are *)
(* in SQLite and are shared by the calls of all requests and processes.    *)
(* One action is one transaction of the store, or one step of the call     *)
(* between two of them; time may pass between any two steps.               *)
(*                                                                         *)
(* The clock, the requests served and the faults are bounded (MaxTime,     *)
(* MaxRequests, MaxFaults); nothing else is.                               *)
(***************************************************************************)
EXTENDS CircuitStore, FiniteSets

CONSTANTS
  Call, Request, Endpoint,
  RequestOf,        \* call -> request whose candidate it is
  EndpointOf,       \* call -> circuit key of its provider
  Batches,          \* calls whose operation may make several provider requests
  MaxAttempts,      \* tries of one call: 1 with a fallback waiting, else 2
  RequestLimit,     \* max_provider_attempts of a request
  DailyLimit,       \* provider calls a day, or None when not configured
  Errors,           \* error classes the providers answer with
  RetryAfters,      \* Retry-After values they send, None for none
  Backoff,          \* pause before a retry without a Retry-After (1)
  MaxRetryWait,     \* longest Retry-After that is waited out (30)
  Deadlines,        \* request deadlines, None for none
  MinRetryWindow,   \* no retry starts with less than this left (1)
  RecoverySeconds,  \* quiet period of a store that met an I/O error (30)
  LastResort,       \* whether requests make last-resort probes (search does)
  MaxTime, MaxRequests, MaxFaults

ASSUME EngineAssumption ==
  /\ IsFiniteSet(Call)
  /\ RequestOf \in [Call -> Request]
  /\ EndpointOf \in [Call -> Endpoint]
  /\ Batches \subseteq Call
  /\ MaxAttempts \in Nat \ {0}
  /\ RequestLimit \in Nat
  /\ DailyLimit \in Nat \cup {None}
  /\ Errors \subseteq ErrorClass
  /\ RetryAfters \subseteq Nat \cup {None}
  /\ Deadlines \subseteq Nat \cup {None}
  /\ Backoff \in Nat /\ MaxRetryWait \in Nat /\ MinRetryWindow \in Nat /\ RecoverySeconds \in Nat
  /\ LastResort \in BOOLEAN
  /\ None \notin Call
  /\ MaxTime \in Nat /\ MaxRequests \in Nat /\ MaxFaults \in Nat

VARIABLES
  now,        \* the clock
  circuit,    \* endpoint -> its circuit rows
  daily,      \* today's row of the budget ledger
  budget,     \* request -> its in-memory request budget
  downSince,  \* request -> when its store became unavailable, or None
  pc,         \* call -> where it stands in execute
  frame,      \* call -> the local variables of execute
  result,     \* call -> how it ended in the current request of its slot
  served,     \* requests begun
  deadline,   \* request -> its deadline, one for all its calls, or None
  faults,     \* I/O errors and crashes so far
  \* History, read by no action:
  sent,       \* request -> tries that reached a provider
  sentToday,  \* the same of all requests, when a daily limit is set
  lapsed,     \* those of them whose unit was asked back at the deadline
  owner       \* endpoint -> class -> call that claimed the half-open row

stores   == <<circuit, daily, budget, downSince>>
requests == <<served, deadline>>
history  == <<sent, sentToday, lapsed, owner>>
vars     == <<now, stores, pc, frame, result, requests, faults, history>>

-----------------------------------------------------------------------------
Ledger == [used : Nat, reserved : Nat]
Empty  == [used |-> 0, reserved |-> 0]

\* Where a call can stand.  "idle" is before and after execute.
Step == {"idle", "expire", "admit", "claim", "reread", "reserve", "reserveDaily",
         "unreserve", "call", "inflight", "refundDaily", "commitDaily", "release",
         "sleep", "record", "succeed", "broken"}

Skips  == CircuitSkips \cup {"budget_blocked", "deadline_exceeded"}
Ending == Skips \cup {"failed", "cancelled", "raised"}
Result == Ending \cup {"fresh", "success", "crashed"}

Frame == [index    : Nat,                       \* number of the try, from 0
          lease    : ErrorClass \cup {None},    \* bucket whose probe it holds
          leaseEnd : Nat,
          probed   : BOOLEAN,                   \* a try was made under the lease
          paid     : BOOLEAN,                   \* a try reached the provider
          seen     : SUBSET ErrorClass,         \* encountered
          failing  : SUBSET BlipClass,          \* of a claim under way
          error    : Failure \cup {None},       \* last_error
          at       : Nat,                       \* "now" passed to the store
          target   : ErrorClass \cup {None},    \* bucket being claimed or expired
          forced   : BOOLEAN,                   \* this is the last-resort probe
          verdict  : Ending \cup {"success", "retry", "pending"}]

NoFrame == [index |-> 0, lease |-> None, leaseEnd |-> 0, probed |-> FALSE, paid |-> FALSE,
            seen |-> {}, failing |-> {}, error |-> None, at |-> 0, target |-> None,
            forced |-> FALSE, verdict |-> "pending"]

CallsOf(r) == {c \in Call : RequestOf[c] = r}
RowsOf(c)  == circuit[EndpointOf[c]]
Up(r)      == downSince[r] = None

Init ==
  /\ now = 0
  /\ circuit = [k \in Endpoint |-> [e \in ErrorClass |-> NoRow]]
  /\ daily = Empty
  /\ budget = [r \in Request |-> Empty]
  /\ downSince = [r \in Request |-> None]
  /\ pc = [c \in Call |-> "idle"]
  /\ frame = [c \in Call |-> NoFrame]
  /\ result = [c \in Call |-> "fresh"]
  /\ served = 0
  /\ deadline \in [Request -> Deadlines]
  /\ faults = 0
  /\ sent = [r \in Request |-> 0]
  /\ sentToday = 0
  /\ lapsed = 0
  /\ owner = [k \in Endpoint |-> [e \in ErrorClass |-> None]]
-----------------------------------------------------------------------------
(***************************************************************************)
(* Building blocks of the actions.  An operator whose name starts with Bug *)
(* is a mistake one could make in the definition that follows it; no       *)
(* specification uses it, the mutation runs show that a property sees it.  *)
(***************************************************************************)

\* A reservation, a unit reserved, spent, and given back.
BugFits(ledger, limit) == ledger.used + 1 <= limit
Fits(ledger, limit) == ledger.used + ledger.reserved + 1 <= limit
Reserved(ledger)    == [ledger EXCEPT !.reserved = @ + 1]
BugCharged(ledger)  == [ledger EXCEPT !.reserved = @ - 1]
Charged(ledger)     == [used |-> ledger.used + 1, reserved |-> ledger.reserved - 1]
Returned(ledger)    == [ledger EXCEPT !.reserved = @ - 1]

\* One SQLite transaction on behalf of c.  It runs (ok), or the store is
\* already unavailable, or the transaction fails and makes it unavailable.
Transaction(c, ok) ==
  LET r == RequestOf[c] IN
  \/ ok /\ Up(r) /\ UNCHANGED <<downSince, faults>>
  \/ ~ok /\ ~Up(r) /\ UNCHANGED <<downSince, faults>>
  \/ /\ ~ok /\ Up(r) /\ faults < MaxFaults
     /\ downSince' = [downSince EXCEPT ![r] = now]
     /\ faults' = faults + 1

SetRows(c, rows)  == circuit' = [circuit EXCEPT ![EndpointOf[c]] = rows]
SetOwner(c, e, o) == owner' = [owner EXCEPT ![EndpointOf[c]][e] = o]
Goto(c, step, f)  == /\ pc' = [pc EXCEPT ![c] = step]
                     /\ frame' = [frame EXCEPT ![c] = f]

\* c returns from execute (or raises).
Return(c, f, end) ==
  /\ pc' = [pc EXCEPT ![c] = "idle"]
  /\ frame' = [frame EXCEPT ![c] = [NoFrame EXCEPT !.probed = f.probed,
                                                   !.paid = f.paid,
                                                   !.forced = f.forced]]
  /\ result' = [result EXCEPT ![c] = end]

BugLeave(c, f, end) ==
  IF end = "failed" THEN Goto(c, "record", f) /\ UNCHANGED result
                    ELSE Return(c, f, end)

\* The end of a call that holds no lease any more.  _stopped: a skip after an
\* earlier try is reported, and recorded, as the failure that try was.
Leave(c, f, end) ==
  IF end = "failed" \/ (end \in Skips /\ f.error # None)
  THEN Goto(c, "record", f) /\ UNCHANGED result
  ELSE Return(c, f, end)

BugGiveBackAndLeave(c, f, end) == Leave(c, f, end)

\* The same for a call that first gives its lease back, if it holds one.
GiveBackAndLeave(c, f, end) ==
  IF f.lease = None
  THEN Leave(c, f, end)
  ELSE Goto(c, "release", [f EXCEPT !.verdict = end]) /\ UNCHANGED result

Late(r)         == deadline[r] # None /\ now >= deadline[r]
PastDeadline(c) == Late(RequestOf[c])
-----------------------------------------------------------------------------
(***************************************************************************)
(* Requests.                                                               *)
(***************************************************************************)

\* A new request takes a free slot: new store instance, request budget and
\* deadline.
NewRequest(r) ==
  /\ served < MaxRequests
  /\ \A c \in CallsOf(r) : pc[c] = "idle"
  /\ \E c \in CallsOf(r) : result[c] # "fresh"
  /\ served' = served + 1
  /\ \E t \in Deadlines : deadline' = [deadline EXCEPT ![r] = t]
  /\ budget' = [budget EXCEPT ![r] = Empty]
  /\ downSince' = [downSince EXCEPT ![r] = None]
  /\ result' = [c \in Call |-> IF c \in CallsOf(r) THEN "fresh" ELSE result[c]]
  /\ frame' = [c \in Call |-> IF c \in CallsOf(r) THEN NoFrame ELSE frame[c]]
  /\ sent' = [sent EXCEPT ![r] = 0]
  /\ owner' = [k \in Endpoint |-> [e \in ErrorClass |->
                 IF owner[k][e] \in CallsOf(r) THEN None ELSE owner[k][e]]]
  /\ UNCHANGED <<now, circuit, daily, pc, faults, sentToday, lapsed>>

\* execute starts.  Its configure_budget writes the limit, a constant here.
Start(c) ==
  /\ pc[c] = "idle" /\ result[c] = "fresh"
  /\ Goto(c, "admit", NoFrame)
  /\ UNCHANGED <<now, stores, result, requests, faults, history>>

\* _last_resort_probe: every candidate of the request was skipped because its
\* circuit is open, so the first one (any call here: the order of candidates
\* is not modelled) gets one probe after its blip windows are ended.
LastResortProbe(c) ==
  /\ LastResort
  /\ \A d \in CallsOf(RequestOf[c]) :
       pc[d] = "idle" /\ result[d] = "circuit_open" /\ ~frame[d].forced
  /\ Goto(c, "expire", [NoFrame EXCEPT !.forced = TRUE, !.at = now,
                                       !.target = "transient"])
  /\ UNCHANGED <<now, stores, result, requests, faults, history>>

\* expire_circuit for transient, then for timeout, then execute.
Expire(c) ==
  LET f == frame[c] IN
  /\ pc[c] = "expire"
  /\ \E ok \in BOOLEAN :
       /\ Transaction(c, ok)
       /\ SetRows(c, IF ok THEN ExpireCircuit(RowsOf(c), f.target, f.at) ELSE RowsOf(c))
  /\ IF f.target = "transient"
     THEN Goto(c, "expire", [f EXCEPT !.target = "timeout"])
     ELSE Goto(c, "admit", [f EXCEPT !.target = None])
  /\ UNCHANGED <<now, daily, budget, result, requests, history>>
-----------------------------------------------------------------------------
(***************************************************************************)
(* The head of the retry loop: deadline, admission, reservations.          *)
(***************************************************************************)

TooLate(c) ==
  LET t == deadline[RequestOf[c]] IN
  \/ PastDeadline(c)
  \/ frame[c].index > 0 /\ t # None /\ now + MinRetryWindow > t

StopAtDeadline(c) ==
  /\ pc[c] = "admit" /\ TooLate(c)
  /\ Leave(c, frame[c], "deadline_exceeded")
  /\ UNCHANGED <<now, stores, requests, faults, history>>

\* A retry under the call's own probe lease is not admitted again.
KeepLease(c) ==
  /\ pc[c] = "admit" /\ ~TooLate(c)
  /\ frame[c].index > 0 /\ frame[c].lease # None
  /\ Goto(c, "reserve", frame[c])
  /\ UNCHANGED <<now, stores, result, requests, faults, history>>

\* admit: one query reads every row; an unavailable store admits the call.
Admit(c) ==
  LET f      == frame[c]
      rows   == RowsOf(c)
      active == Active(rows, now)
      due    == Expired(rows, now)
  IN
  /\ pc[c] = "admit" /\ ~TooLate(c)
  /\ ~ (f.index > 0 /\ f.lease # None)
  /\ \/ /\ Transaction(c, FALSE)
        /\ Goto(c, "reserve", [f EXCEPT !.at = now]) /\ UNCHANGED result
     \/ /\ Transaction(c, TRUE)
        /\ active # {}
        /\ Leave(c, f, SkipReasonOf(FirstOf(active)))
     \/ /\ Transaction(c, TRUE)
        /\ active = {} /\ due # {}
        /\ Goto(c, "claim", [f EXCEPT !.at = now, !.target = FirstOf(due),
                                       !.failing = Failing(rows)])
        /\ UNCHANGED result
     \/ /\ Transaction(c, TRUE)
        /\ active = {} /\ due = {}
        /\ Goto(c, "reserve", [f EXCEPT !.at = now, !.seen = @ \cup Failing(rows)])
        /\ UNCHANGED result
  /\ UNCHANGED <<now, circuit, daily, budget, requests, history>>

\* Only an admitting decision names the classes that were failing.
Claim(c) ==
  LET f    == frame[c]
      e    == f.target
      won  == CanClaim(RowsOf(c), e, f.at)
      held == [f EXCEPT !.lease = e, !.leaseEnd = f.at + LeaseSeconds,
                        !.probed = FALSE, !.seen = @ \cup {e} \cup f.failing,
                        !.target = None, !.failing = {}]
  IN
  /\ pc[c] = "claim"
  /\ \/ /\ Transaction(c, FALSE)
        /\ Goto(c, "reserve", [f EXCEPT !.target = None, !.failing = {}])
        /\ UNCHANGED <<circuit, owner>>
     \/ /\ Transaction(c, TRUE) /\ won
        /\ SetRows(c, ClaimHalfOpen(RowsOf(c), e, f.at))
        /\ SetOwner(c, e, c)
        /\ Goto(c, "reserve", held)
     \/ /\ Transaction(c, TRUE) /\ ~won
        /\ Goto(c, "reread", f)
        /\ UNCHANGED <<circuit, owner>>
  /\ UNCHANGED <<now, daily, budget, result, requests, sent, sentToday, lapsed>>

\* get_circuit after a lost claim: only the reported state depends on it.
Reread(c) ==
  /\ pc[c] = "reread"
  /\ \E ok \in BOOLEAN : Transaction(c, ok)
  /\ Leave(c, frame[c], SkipReasonOf(frame[c].target))
  /\ UNCHANGED <<now, circuit, daily, budget, requests, history>>

BugReserve(c) ==
  LET r == RequestOf[c] IN
  /\ pc[c] = "reserve" /\ Fits(budget[r], RequestLimit)
  /\ budget' = [budget EXCEPT ![r] = Reserved(@)]
  /\ Goto(c, IF DailyLimit = None THEN "call" ELSE "reserveDaily", frame[c])
  /\ UNCHANGED <<now, circuit, daily, downSince, result, requests, faults, history>>

\* The request budget is in memory, under a lock: it never fails.
Reserve(c) ==
  LET r == RequestOf[c]
      f == frame[c] IN
  /\ pc[c] = "reserve"
  /\ \/ /\ Fits(budget[r], RequestLimit)
        /\ budget' = [budget EXCEPT ![r] = Reserved(@)]
        /\ Goto(c, IF DailyLimit = None THEN "call" ELSE "reserveDaily", f)
        /\ UNCHANGED result
     \/ /\ ~Fits(budget[r], RequestLimit)
        /\ GiveBackAndLeave(c, f, "budget_blocked")
        /\ UNCHANGED budget
  /\ UNCHANGED <<now, circuit, daily, downSince, requests, faults, history>>

\* configure_budget, then reserve_budget.  The two transactions are one action:
\* the first only writes the limit, a constant here, and when it fails the
\* second finds the store unavailable.
ReserveDaily(c) ==
  /\ pc[c] = "reserveDaily"
  /\ \/ /\ Transaction(c, TRUE) /\ Fits(daily, DailyLimit)
        /\ daily' = Reserved(daily)
        /\ Goto(c, "call", frame[c])
     \/ /\ Transaction(c, TRUE) /\ ~Fits(daily, DailyLimit)
        /\ Goto(c, "unreserve", frame[c]) /\ UNCHANGED daily
     \/ /\ Transaction(c, FALSE)
        /\ Goto(c, "unreserve", frame[c]) /\ UNCHANGED daily
  /\ UNCHANGED <<now, circuit, budget, result, requests, history>>

\* A reconciliation that misses its reservation raises RuntimeError.
Broken(c) == Goto(c, "broken", frame[c]) /\ UNCHANGED result

BugUnreserve(c) ==
  /\ pc[c] = "unreserve"
  /\ GiveBackAndLeave(c, frame[c], "budget_blocked")
  /\ UNCHANGED <<now, stores, requests, faults, history>>

Unreserve(c) ==
  LET r == RequestOf[c] IN
  /\ pc[c] = "unreserve"
  /\ IF budget[r].reserved >= 1
     THEN /\ budget' = [budget EXCEPT ![r] = Returned(@)]
          /\ GiveBackAndLeave(c, frame[c], "budget_blocked")
     ELSE Broken(c) /\ UNCHANGED budget
  /\ UNCHANGED <<now, circuit, daily, downSince, requests, faults, history>>
-----------------------------------------------------------------------------
(***************************************************************************)
(* The provider operation and its accounting.                              *)
(***************************************************************************)

\* The shared HTTP client checks the deadline right before it sends.  A batch
\* sends again while it is in flight: this is its first request.
Send(c) ==
  /\ pc[c] = "call" /\ ~PastDeadline(c)
  /\ Goto(c, "inflight", [frame[c] EXCEPT !.probed = TRUE, !.paid = TRUE])
  /\ sent' = [sent EXCEPT ![RequestOf[c]] = @ + 1]
  /\ sentToday' = IF DailyLimit = None THEN sentToday ELSE sentToday + 1
  /\ UNCHANGED <<now, stores, result, requests, faults, lapsed, owner>>

\* RequestDeadlineExceeded: both reservations go back, the request's here and the
\* day's in RefundDaily.  The client raises it before it sends, and a batch whose
\* earlier requests were answered raises it too: the engine does not look.
RefuseAtDeadline(c) ==
  LET r == RequestOf[c]
      f == frame[c] IN
  /\ pc[c] = "call" \/ (pc[c] = "inflight" /\ c \in Batches)
  /\ PastDeadline(c)
  /\ IF budget[r].reserved >= 1
     THEN /\ budget' = [budget EXCEPT ![r] = Returned(@)]
          /\ IF DailyLimit = None
             THEN GiveBackAndLeave(c, f, "deadline_exceeded")
             ELSE Goto(c, "refundDaily", f) /\ UNCHANGED result
     ELSE Broken(c) /\ UNCHANGED budget
  /\ lapsed' = IF DailyLimit # None /\ pc[c] = "inflight" THEN lapsed + 1 ELSE lapsed
  /\ UNCHANGED <<now, circuit, daily, downSince, requests, faults, sent, sentToday, owner>>

RefundDaily(c) ==
  LET f == frame[c] IN
  /\ pc[c] = "refundDaily"
  /\ \/ /\ Transaction(c, TRUE)
        /\ IF daily.reserved >= 1
           THEN /\ daily' = Returned(daily)
                /\ GiveBackAndLeave(c, f, "deadline_exceeded")
           ELSE Broken(c) /\ UNCHANGED daily
     \/ /\ Transaction(c, FALSE)
        /\ GiveBackAndLeave(c, f, "deadline_exceeded")
        /\ UNCHANGED daily
  /\ UNCHANGED <<now, circuit, budget, requests, history>>

\* What a failed try leads to.  A Retry-After that is too long, or a deadline
\* too near, rules the retry out; so does a batch that was stopped midway.
\* Without a Retry-After the wait is a back-off (its jitter is left out).
RetryWait(failure) == IF failure.retryAfter = None THEN Backoff ELSE failure.retryAfter

MayRetry(c, failure) ==
  LET t == deadline[RequestOf[c]] IN
  /\ failure.class \in Retryable
  /\ frame[c].index < MaxAttempts - 1
  /\ RetryWait(failure) <= MaxRetryWait
  /\ t # None => now + RetryWait(failure) + MinRetryWindow <= t

\* The errors an operation may end with.  Only a rate limit comes with a
\* Retry-After, and an adapter that fails before it sends (a configuration
\* error) answers "other".
Failures(c) ==
  {x \in [class : Errors, retryAfter : RetryAfters] :
     /\ x.class = "rate_limit" \/ x.retryAfter = None
     /\ pc[c] = "call" => x.class = "other"}

\* What may become of one: a batch stopped midway is never retried, an abort by
\* the request's own deadline is not the provider's failure.
Verdicts(c, failure) ==
  (IF MayRetry(c, failure) THEN {"retry"} ELSE {"failed"})
  \cup (IF failure.class \in {"auth", "quota", "rate_limit"} THEN {"failed"} ELSE {})
  \cup (IF PastDeadline(c) /\ failure.class \in BlipClass THEN {"cancelled"} ELSE {})

WithFailure(f, failure, verdict) ==
  [f EXCEPT !.error = failure, !.seen = @ \cup {failure.class}, !.verdict = verdict]

\* The possible frames after the operation of c ended.
Outcomes(c) ==
  {[frame[c] EXCEPT !.verdict = v] : v \in {"raised"} \cup
                                          (IF pc[c] = "inflight" THEN {"success"} ELSE {})}
  \cup UNION {{WithFailure(frame[c], x, v) : v \in Verdicts(c, x)} : x \in Failures(c)}

\* Where a call goes once its budgets are committed.
Settle(c, f) ==
  CASE f.verdict = "success" -> Goto(c, "succeed", f) /\ UNCHANGED result
    [] f.verdict \in {"raised", "cancelled"} -> GiveBackAndLeave(c, f, f.verdict)
    [] f.verdict = "retry" -> Goto(c, "sleep", f) /\ UNCHANGED result
    [] f.verdict = "failed" ->
         IF f.error.class \in HealthClass
         THEN Leave(c, f, "failed")
         ELSE GiveBackAndLeave(c, f, "failed")

\* The operation returns or raises; the request budget is charged.
Finish(c) ==
  LET r == RequestOf[c] IN
  /\ pc[c] \in {"call", "inflight"}
  /\ IF budget[r].reserved >= 1
     THEN /\ budget' = [budget EXCEPT ![r] = Charged(@)]
          /\ \E f \in Outcomes(c) :
               IF DailyLimit = None
               THEN Settle(c, f)
               ELSE Goto(c, "commitDaily", f) /\ UNCHANGED result
     ELSE Broken(c) /\ UNCHANGED budget
  /\ UNCHANGED <<now, circuit, daily, downSince, requests, faults, history>>

CommitDaily(c) ==
  LET f == frame[c] IN
  /\ pc[c] = "commitDaily"
  /\ \/ /\ Transaction(c, TRUE)
        /\ IF daily.reserved >= 1
           THEN /\ daily' = Charged(daily)
                /\ Settle(c, f)
           ELSE Broken(c) /\ UNCHANGED daily
     \/ /\ Transaction(c, FALSE)
        /\ Settle(c, f) /\ UNCHANGED daily
  /\ UNCHANGED <<now, circuit, budget, requests, history>>
-----------------------------------------------------------------------------
(***************************************************************************)
(* After the operation: lease, pause, health record.                       *)
(***************************************************************************)

\* _release_lease, then on to where the call was leaving for.
Release(c) ==
  LET f == frame[c] IN
  /\ pc[c] = "release"
  /\ \/ /\ Transaction(c, TRUE)
        /\ SetRows(c, ReleaseHalfOpen(RowsOf(c), f.lease, now))
        /\ IF RowsOf(c)[f.lease].state = "half_open"
           THEN SetOwner(c, f.lease, None) ELSE UNCHANGED owner
     \/ Transaction(c, FALSE) /\ UNCHANGED <<circuit, owner>>
  /\ Leave(c, [f EXCEPT !.lease = None], f.verdict)
  /\ UNCHANGED <<now, daily, budget, requests, sent, sentToday, lapsed>>

\* The pause before a retry ends; it can take any time.
Wake(c) ==
  /\ pc[c] = "sleep"
  /\ Goto(c, "admit", [frame[c] EXCEPT !.index = @ + 1, !.verdict = "pending"])
  /\ UNCHANGED <<now, stores, result, requests, faults, history>>

\* The pause is interrupted by an exception of the host.
Interrupt(c) ==
  /\ pc[c] = "sleep"
  /\ GiveBackAndLeave(c, frame[c], "raised")
  /\ UNCHANGED <<now, stores, requests, faults, history>>

\* _failed: record_failure of the last error.
Record(c) ==
  LET f == frame[c]
      e == f.error.class IN
  /\ pc[c] = "record"
  /\ \/ /\ Transaction(c, TRUE)
        /\ SetRows(c, RecordFailure(RowsOf(c), e, f.error.retryAfter, now))
        /\ SetOwner(c, e, None)
     \/ Transaction(c, FALSE) /\ UNCHANGED <<circuit, owner>>
  /\ Return(c, f, "failed")
  /\ UNCHANGED <<now, daily, budget, requests, sent, sentToday, lapsed>>

\* record_success for one encountered class, in the order of a Python set.
Clear(c) ==
  /\ pc[c] = "succeed"
  /\ \E e \in frame[c].seen :
       /\ \/ /\ Transaction(c, TRUE)
             /\ SetRows(c, RecordSuccess(RowsOf(c), e))
             /\ SetOwner(c, e, None)
          \/ Transaction(c, FALSE) /\ UNCHANGED <<circuit, owner>>
       /\ Goto(c, "succeed", [frame[c] EXCEPT !.seen = @ \ {e}])
  /\ UNCHANGED <<now, daily, budget, result, requests, sent, sentToday, lapsed>>

Succeed(c) ==
  /\ pc[c] = "succeed" /\ frame[c].seen = {}
  /\ Return(c, frame[c], "success")
  /\ UNCHANGED <<now, stores, requests, faults, sent, sentToday, lapsed, owner>>
-----------------------------------------------------------------------------
(***************************************************************************)
(* The environment: time, recovery of a store, a crash.                    *)
(***************************************************************************)

\* Whether c acts as the prober of its endpoint.
Probing(c) == /\ frame[c].lease # None
              /\ pc[c] \in {"reserve", "reserveDaily", "unreserve", "call", "inflight",
                            "refundDaily", "commitDaily", "sleep", "admit", "release"}

Tick ==
  /\ now < MaxTime
  /\ now' = now + 1
  /\ UNCHANGED <<stores, pc, frame, result, requests, faults, history>>

\* A store is probed again once its quiet period is over.  A probe that fails
\* starts a new quiet period.
Reprobe(r) ==
  /\ ~Up(r) /\ now >= downSince[r] + RecoverySeconds
  /\ \/ downSince' = [downSince EXCEPT ![r] = None] /\ UNCHANGED faults
     \/ /\ faults < MaxFaults /\ faults' = faults + 1
        /\ downSince' = [downSince EXCEPT ![r] = now]
  /\ UNCHANGED <<now, circuit, daily, budget, pc, frame, result, requests, history>>

\* The process that serves r dies: its memory is lost, the database stays.
Crash(r) ==
  /\ faults < MaxFaults /\ faults' = faults + 1
  /\ \E c \in CallsOf(r) : pc[c] # "idle"
  /\ pc' = [c \in Call |-> IF c \in CallsOf(r) THEN "idle" ELSE pc[c]]
  /\ frame' = [c \in Call |-> IF c \in CallsOf(r) THEN NoFrame ELSE frame[c]]
  /\ result' = [c \in Call |-> IF c \in CallsOf(r) THEN "crashed" ELSE result[c]]
  /\ budget' = [budget EXCEPT ![r] = Empty]
  /\ downSince' = [downSince EXCEPT ![r] = None]
  /\ sent' = [sent EXCEPT ![r] = 0]
  /\ UNCHANGED <<now, circuit, daily, requests, sentToday, lapsed, owner>>

Advance(c) ==
  \/ Expire(c) \/ StopAtDeadline(c) \/ KeepLease(c) \/ Admit(c) \/ Claim(c)
  \/ Reread(c) \/ Reserve(c) \/ ReserveDaily(c) \/ Unreserve(c)
  \/ Send(c) \/ RefuseAtDeadline(c) \/ RefundDaily(c) \/ Finish(c)
  \/ CommitDaily(c) \/ Release(c) \/ Wake(c) \/ Interrupt(c) \/ Record(c)
  \/ Clear(c) \/ Succeed(c)

Next ==
  \/ \E c \in Call : Start(c) \/ LastResortProbe(c) \/ Advance(c)
  \/ \E r \in Request : NewRequest(r) \/ Reprobe(r) \/ Crash(r)
  \/ Tick

\* A started call keeps running: its thread is scheduled, and every provider
\* operation and pause ends (socket timeouts, bounded waits).
Fairness == \A c \in Call : WF_vars(Advance(c))

Spec     == Init /\ [][Next]_vars
FairSpec == Spec /\ Fairness
-----------------------------------------------------------------------------
(***************************************************************************)
(* Properties.                                                             *)
(***************************************************************************)

\* Every variable has its type.
TypeOK ==
  /\ now \in Nat
  /\ circuit \in [Endpoint -> Rows]
  /\ daily \in Ledger
  /\ budget \in [Request -> Ledger]
  /\ downSince \in [Request -> Nat \cup {None}]
  /\ pc \in [Call -> Step]
  /\ frame \in [Call -> Frame]
  /\ result \in [Call -> Result]
  /\ served \in Nat /\ faults \in Nat
  /\ deadline \in [Request -> Nat \cup {None}]
  /\ sent \in [Request -> Nat] /\ sentToday \in Nat /\ lapsed \in Nat
  /\ owner \in [Endpoint -> [ErrorClass -> Call \cup {None}]]

\* The calls that hold a reservation of their request, and of the day.
HoldsRequest == {c \in Call : pc[c] \in {"reserveDaily", "unreserve", "call", "inflight"}}
HoldsDay     == {c \in Call : DailyLimit # None /\
                   pc[c] \in {"call", "inflight", "refundDaily", "commitDaily"}}
\* Those that may still send on it: the client refuses past the deadline.
MaySend      == {c \in Call : pc[c] = "call" /\ ~PastDeadline(c)}

\* The tries a request has sent, with those it is cleared to send, stay within
\* max_provider_attempts, whatever its threads, its retries and its store do.  A
\* unit that was given back although a batch had sent on it is not spent again:
\* by then the deadline of its request has passed.
RequestBudgetKept ==
  \A r \in Request : sent[r] + Cardinality(MaySend \cap CallsOf(r)) <= RequestLimit

\* The same of the daily limit, over all requests and processes: a ledger that
\* cannot be read or a process that dies only ever charges too much.  Here the
\* unit of a batch that was given up midway is spent again, by another request:
\* the limit holds but for these.
DailyBudgetKept ==
  DailyLimit # None => sentToday + Cardinality(MaySend) <= DailyLimit + lapsed

\* No reservation is lost and none is left behind on any way out of execute:
\* the reserved units of a request are its calls between their reservation and
\* its reconciliation.  The day's ledger covers its own in the same way, and
\* exactly as long as no store failed and no process died.  So "budget
\* reservation missing during reconciliation" is never raised.
ReservationsMatch ==
  /\ \A r \in Request :
       budget[r].reserved = Cardinality(HoldsRequest \cap CallsOf(r))
  /\ Cardinality(HoldsDay) <= daily.reserved
  /\ faults = 0 => daily.reserved = Cardinality(HoldsDay)
  /\ \A c \in Call : pc[c] # "broken"

\* A paid try is not erased from the receipt: a call reported as skipped has
\* sent nothing (_stopped), whatever denied it its next try, with the exception
\* of a batch that the request's deadline ended midway.
PaidTryReported ==
  \A c \in Call : pc[c] = "idle" /\ result[c] \in Skips /\ frame[c].paid =>
    result[c] = "deadline_exceeded" /\ c \in Batches

\* What the comment of the refund says: a call that is reported as stopped by
\* the deadline has dispatched nothing on this try, and no earlier one failed.
DeadlineSkipsUnpaid ==
  \A c \in Call : pc[c] = "idle" /\ result[c] = "deadline_exceeded" => ~frame[c].paid

\* A probe lease that was claimed but never used is given back before the call
\* ends: a provider is not held blocked by a probe that never ran.
UnusedLeaseReturned ==
  \A k \in Endpoint, e \in ErrorClass :
    LET c == owner[k][e] IN
    faults = 0 /\ c # None => pc[c] # "idle" \/ frame[c].probed

\* A probe is asked of a blip bucket only when it had opened: single blips
\* never put a provider on probation.
NoProbationForABlip ==
  \A k \in Endpoint, e \in BlipClass :
    circuit[k][e].state = "half_open" => circuit[k][e].count = FailuresToOpen

\* Persisted blocks fail closed: while a provider is blocked for its account,
\* a call that may send to it was admitted no later than the block was written,
\* unless a store has failed.  The last-resort probe respects such blocks too.
HardBlockHolds ==
  \A c \in MaySend, e \in {"auth", "quota"} :
    /\ faults = 0
    /\ RowsOf(c)[e].state = StateFor(e) /\ RowsOf(c)[e].until > now
    => frame[c].at <= RowsOf(c)[e].until - OpenSeconds[e]

\* Every call that starts comes to an end, whatever the provider and the store
\* answer.
CallsEnd == \A c \in Call : (pc[c] # "idle") ~> (pc[c] = "idle")

\* Units of the day reserved for calls that have neither sent nor given them
\* back, and the units the ledger counts beside these.
GrantsOut    == {c \in Call : pc[c] \in {"call", "refundDaily"}}
UnitsCharged == daily.used + daily.reserved - Cardinality(GrantsOut)

\* The daily ledger implements the allowance of CallAllowance: reservations not
\* yet used are the grants out, everything else in the ledger is charged.  A
\* batch that is refused at the deadline after it sent takes its grant back.
Allowance == INSTANCE CallAllowance WITH
  Limit <- DailyLimit, out <- GrantsOut, charged <- UnitsCharged, sent <- sentToday
ImplementsAllowance == Allowance!Spec
=============================================================================
