---------------------------- MODULE CircuitStore ----------------------------
(***************************************************************************)
(* The circuit rows of the durable state store (state_store_v3.py), for    *)
(* one endpoint.  The SQLite table circuit_state has one row per endpoint  *)
(* and error class; every method of SQLiteStateStore reads or writes it in *)
(* one transaction.  This module gives the transactions as operators on    *)
(* the rows of one endpoint: a function from error classes to rows.  The   *)
(* module AttemptEngine says who runs them, and in which order.            *)
(*                                                                         *)
(* An operator whose name starts with Bug is a mistake one could make in   *)
(* the definition that follows it; only mutation runs use it.              *)
(*                                                                         *)
(* Times are whole seconds, as in the code (now=int(time.time())).         *)
(***************************************************************************)
EXTENDS Integers

CONSTANTS
  LeaseSeconds,     \* length of a half-open probe lease (60 in the code)
  MaxOpenSeconds,   \* longest open window (3600 in the code)
  OpenSeconds,      \* error class -> open window without a Retry-After
  FailuresToOpen,   \* consecutive failures that open a blip bucket (3)
  None              \* "no value"

(***************************************************************************)
(* Error classes.  The first five are provider health (the ones admit      *)
(* looks at); every other class of contract_v3.ErrorClass behaves alike    *)
(* here and is called "other".                                             *)
(***************************************************************************)
HealthClass == {"auth", "quota", "rate_limit", "transient", "timeout"}
ErrorClass  == HealthClass \cup {"other"}

\* A single failure of one of these is usually a blip: they count up to
\* FailuresToOpen before they block.
BlipClass == {"transient", "timeout"}

Retryable == {"rate_limit", "transient", "timeout"}

\* A classified provider error, as far as the store and the retry loop care.
Failure == [class : ErrorClass, retryAfter : Nat \cup {None}]

ASSUME StoreAssumption ==
  /\ LeaseSeconds \in Nat \ {0}
  /\ MaxOpenSeconds \in Nat \ {0}
  /\ OpenSeconds \in [ErrorClass -> 1 .. MaxOpenSeconds]
  /\ FailuresToOpen \in Nat \ {0}
  /\ None \notin Nat \cup ErrorClass \cup Failure

RowState == {"closed", "open", "blocked_auth", "blocked_quota", "half_open"}

\* A missing row reads as "closed".  Counts above FailuresToOpen are not told
\* apart: the code only compares the count with the threshold and with zero.
Row   == [state : RowState, count : 0 .. FailuresToOpen, until : Nat]
Rows  == [ErrorClass -> Row]
NoRow == [state |-> "closed", count |-> 0, until |-> 0]

StateFor(e) ==
  CASE e = "auth"  -> "blocked_auth"
    [] e = "quota" -> "blocked_quota"
    [] OTHER       -> "open"

Threshold(e) == IF e \in BlipClass THEN FailuresToOpen ELSE 1

AtMost(a, b)  == IF a <= b THEN a ELSE b
AtLeast(a, b) == IF a <= b THEN b ELSE a

\* The open window of a failure: the provider's Retry-After when it sent one,
\* else the default of the class; at least a second, never above the ceiling.
OpenWindow(e, retryAfter) ==
  AtMost(AtLeast(1, IF retryAfter = None THEN OpenSeconds[e] ELSE retryAfter),
         MaxOpenSeconds)

(***************************************************************************)
(* The transactions.                                                       *)
(***************************************************************************)
RecordFailure(rows, e, retryAfter, now) ==
  [rows EXCEPT ![e] = [state |-> StateFor(e),
                       count |-> AtMost(rows[e].count + 1, FailuresToOpen),
                       until |-> now + OpenWindow(e, retryAfter)]]

RecordSuccess(rows, e) == [rows EXCEPT ![e] = NoRow]

BugCanClaim(rows, e, now) == rows[e].state # "closed"

\* UPDATE ... WHERE state is a blocking one AND open_until <= now.
CanClaim(rows, e, now) == rows[e].state # "closed" /\ rows[e].until <= now

ClaimHalfOpen(rows, e, now) ==
  [rows EXCEPT ![e].state = "half_open", ![e].until = now + LeaseSeconds]

\* Giving a lease back does not say whose lease it is: any half-open row of
\* the class expires now.
ReleaseHalfOpen(rows, e, now) ==
  IF rows[e].state = "half_open" THEN [rows EXCEPT ![e].until = now] ELSE rows

ExpireCircuit(rows, e, now) ==
  IF rows[e].state = "open" /\ rows[e].until > now
  THEN [rows EXCEPT ![e].until = now]
  ELSE rows

(***************************************************************************)
(* Admission.  admit reads the five health rows in one query and walks     *)
(* them in the order of Rank: the first active one blocks the call; if     *)
(* none is active the first expired one must be claimed; with neither the  *)
(* call is admitted.                                                       *)
(***************************************************************************)
Rank == [auth |-> 1, quota |-> 2, rate_limit |-> 3, transient |-> 4, timeout |-> 5]

FirstOf(classes) ==
  CHOOSE e \in classes : \A f \in classes : Rank[e] <= Rank[f]

BugOpened(rows) == {e \in HealthClass : rows[e].state # "closed"}
BugOpenedOnly(rows) == {e \in HealthClass : /\ rows[e].state \in {"open", "half_open"}
                                           /\ rows[e].count >= Threshold(e)}

\* The classes whose row stands against a call, active or expired.
Opened(rows) ==
  {e \in HealthClass : /\ rows[e].state # "closed"
                       /\ ~ (rows[e].state = "open" /\ rows[e].count < Threshold(e))}

Active(rows, now)  == {e \in Opened(rows) : rows[e].until > now}
Expired(rows, now) == {e \in Opened(rows) : rows[e].until <= now}

\* The blip buckets that are counting: a success has to clear them.
Failing(rows) == {e \in BlipClass : rows[e].count > 0}

SkipReasonOf(e) ==
  CASE e = "auth"       -> "auth_blocked"
    [] e = "quota"      -> "quota_blocked"
    [] e = "rate_limit" -> "rate_limited"
    [] OTHER            -> "circuit_open"

CircuitSkips == {"auth_blocked", "quota_blocked", "rate_limited", "circuit_open"}
=============================================================================
