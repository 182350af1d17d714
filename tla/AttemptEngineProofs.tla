------------------------ MODULE AttemptEngineProofs ------------------------
(***************************************************************************)
(* Machine-checked theorems about AttemptEngine, for any number of calls,  *)
(* requests and endpoints, any limits and any bounds: type correctness,    *)
(* and what calls do to each other through the circuit rows (paid tries    *)
(* are reported, probe leases come back, hard blocks hold, a second prober *)
(* needs a first one whose lease is over or was undercut); and then, in    *)
(* the last part, the budget ledgers.                                      *)
(*                                                                         *)
(* The proof has three layers above TypeInv.  Paths says what the local    *)
(* variables of a call may be at each step of execute.  CallMoves and      *)
(* RowMoves then sum up what any step of Next does to one call and to one  *)
(* circuit row.  Each invariant follows from these sums, without another   *)
(* look at Next.                                                           *)
(***************************************************************************)
EXTENDS ProbeWatch, FiniteSetTheorems, TLAPS

-----------------------------------------------------------------------------
(***************************************************************************)
(* Type correctness.  TypeOK alone is not inductive: a claim needs to know *)
(* the bucket it is after, a record the failure it reports, and a call on  *)
(* its way out where it is going.  AtStep says what the local variables of *)
(* execute hold at each step.                                              *)
(***************************************************************************)
Settled(f) ==
  /\ f.verdict \in {"success", "raised", "cancelled", "retry", "failed"}
  /\ f.verdict = "failed" => f.error # None

AtStep(step, f) ==
  /\ step \in {"claim", "reread"} => f.target \in HealthClass
  /\ step = "expire" => f.target \in BlipClass
  /\ step = "record" => f.error # None
  /\ step = "commitDaily" => Settled(f)
  /\ step = "release" => /\ f.lease # None
                         /\ f.verdict \in Ending
                         /\ f.verdict = "failed" => f.error # None

CallsOK ==
  /\ pc \in [Call -> Step]
  /\ frame \in [Call -> Frame]
  /\ result \in [Call -> Result]
  /\ \A c \in Call : AtStep(pc[c], frame[c])

TypeInv == TypeOK /\ CallsOK

-----------------------------------------------------------------------------
(***************************************************************************)
(* Circuit rows.                                                           *)
(***************************************************************************)

\* The window of a failure is a number of seconds within the ceiling.
LEMMA OpenWindowType ==
  ASSUME NEW e \in ErrorClass, NEW retryAfter \in Nat \cup {None}
  PROVE  OpenWindow(e, retryAfter) \in Nat
BY StoreAssumption DEF OpenWindow, AtMost, AtLeast, ErrorClass, HealthClass

\* No transaction leaves the type of the rows.
LEMMA RowsType ==
  ASSUME NEW rows \in Rows, NEW e \in ErrorClass, NEW t \in Nat,
         NEW retryAfter \in Nat \cup {None}
  PROVE  /\ RecordFailure(rows, e, retryAfter, t) \in Rows
         /\ RecordSuccess(rows, e) \in Rows
         /\ ClaimHalfOpen(rows, e, t) \in Rows
         /\ ReleaseHalfOpen(rows, e, t) \in Rows
         /\ ExpireCircuit(rows, e, t) \in Rows
<1> USE StoreAssumption DEF Rows, Row, RowState
<1>1. RecordFailure(rows, e, retryAfter, t) \in Rows
  <2>1. OpenWindow(e, retryAfter) \in Nat
    BY OpenWindowType
  <2>2. StateFor(e) \in RowState
    BY DEF StateFor
  <2>3. AtMost(rows[e].count + 1, FailuresToOpen) \in 0 .. FailuresToOpen
    BY DEF AtMost
  <2> QED BY <2>1, <2>2, <2>3 DEF RecordFailure
<1>2. RecordSuccess(rows, e) \in Rows
  BY DEF RecordSuccess, NoRow
<1>3. ClaimHalfOpen(rows, e, t) \in Rows
  <2> DEFINE claimed == [rows[e] EXCEPT !.state = "half_open", !.until = t + LeaseSeconds]
  <2>1. t + LeaseSeconds \in Nat
    OBVIOUS
  <2>2. rows[e] \in Row
    OBVIOUS
  <2>3. claimed \in Row
    BY <2>1, <2>2
  <2>4. ClaimHalfOpen(rows, e, t) = [rows EXCEPT ![e] = claimed]
    BY <2>2 DEF ClaimHalfOpen
  <2> QED BY <2>3, <2>4
<1>4. ReleaseHalfOpen(rows, e, t) \in Rows
  BY DEF ReleaseHalfOpen
<1>5. ExpireCircuit(rows, e, t) \in Rows
  BY DEF ExpireCircuit
<1> QED BY <1>1, <1>2, <1>3, <1>4, <1>5

\* The first of some health classes is one of them.
LEMMA FirstOfType ==
  ASSUME NEW classes \in SUBSET HealthClass, classes # {}
  PROVE  FirstOf(classes) \in classes
<1>1. \E e \in classes : \A f \in classes : Rank[e] <= Rank[f]
  <2>1. CASE "auth" \in classes
    BY <2>1 DEF Rank, HealthClass
  <2>2. CASE "auth" \notin classes /\ "quota" \in classes
    BY <2>2 DEF Rank, HealthClass
  <2>3. CASE "auth" \notin classes /\ "quota" \notin classes /\ "rate_limit" \in classes
    BY <2>3 DEF Rank, HealthClass
  <2>4. CASE /\ "auth" \notin classes /\ "quota" \notin classes /\ "rate_limit" \notin classes
             /\ "transient" \in classes
    BY <2>4 DEF Rank, HealthClass
  <2>5. CASE /\ "auth" \notin classes /\ "quota" \notin classes /\ "rate_limit" \notin classes
             /\ "transient" \notin classes
    <3>1. classes = {"timeout"}
      BY <2>5 DEF HealthClass
    <3> QED BY <3>1 DEF Rank
  <2> QED BY <2>1, <2>2, <2>3, <2>4, <2>5
<1> QED BY <1>1 DEF FirstOf

-----------------------------------------------------------------------------
(***************************************************************************)
(* The building blocks.                                                    *)
(***************************************************************************)

\* A call moves to a step whose local variables are right.
LEMMA GotoType ==
  ASSUME CallsOK, NEW c \in Call, NEW step \in Step, NEW f \in Frame,
         AtStep(step, f), Goto(c, step, f), result' \in [Call -> Result]
  PROVE  CallsOK'
BY DEF CallsOK, Goto

\* A call returns.
LEMMA ReturnType ==
  ASSUME CallsOK, NEW c \in Call, NEW f \in Frame, NEW end \in Ending \cup {"success"},
         Return(c, f, end)
  PROVE  CallsOK'
<1> DEFINE g == [NoFrame EXCEPT !.probed = f.probed, !.paid = f.paid, !.forced = f.forced]
<1>1. g \in Frame
  BY DEF Frame, NoFrame
<1>2. AtStep("idle", g)
  BY DEF AtStep
<1>3. "idle" \in Step /\ end \in Result
  BY DEF Step, Result
<1> QED BY <1>1, <1>2, <1>3 DEF CallsOK, Return

LEMMA LeaveType ==
  ASSUME CallsOK, NEW c \in Call, NEW f \in Frame, NEW end \in Ending,
         end = "failed" => f.error # None, Leave(c, f, end)
  PROVE  CallsOK'
<1>1. CASE end = "failed" \/ (end \in Skips /\ f.error # None)
  <2>1. Goto(c, "record", f) /\ UNCHANGED result
    BY <1>1 DEF Leave
  <2>2. AtStep("record", f) /\ "record" \in Step
    BY <1>1 DEF AtStep, Step
  <2> QED BY <2>1, <2>2, GotoType DEF CallsOK
<1>2. CASE ~ (end = "failed" \/ (end \in Skips /\ f.error # None))
  BY <1>2, ReturnType DEF Leave
<1> QED BY <1>1, <1>2

LEMMA GiveBackType ==
  ASSUME CallsOK, NEW c \in Call, NEW f \in Frame, NEW end \in Ending,
         end = "failed" => f.error # None, GiveBackAndLeave(c, f, end)
  PROVE  CallsOK'
<1>1. CASE f.lease = None
  BY <1>1, LeaveType DEF GiveBackAndLeave
<1>2. CASE f.lease # None
  <2> DEFINE g == [f EXCEPT !.verdict = end]
  <2>1. g \in Frame
    BY DEF Frame
  <2>2. AtStep("release", g) /\ "release" \in Step
    BY <1>2 DEF AtStep, Step, Frame
  <2>3. Goto(c, "release", g) /\ UNCHANGED result
    BY <1>2 DEF GiveBackAndLeave
  <2> QED BY <2>1, <2>2, <2>3, GotoType DEF CallsOK
<1> QED BY <1>1, <1>2

LEMMA SettleType ==
  ASSUME CallsOK, NEW c \in Call, NEW f \in Frame, Settled(f), Settle(c, f)
  PROVE  CallsOK'
<1>1. CASE f.verdict = "success"
  <2>1. AtStep("succeed", f) /\ "succeed" \in Step
    BY DEF AtStep, Step
  <2> QED BY <1>1, <2>1, GotoType DEF Settle, CallsOK
<1>2. CASE f.verdict \in {"raised", "cancelled"}
  <2>1. GiveBackAndLeave(c, f, f.verdict) /\ f.verdict \in Ending
    BY <1>2 DEF Settle, Ending
  <2> QED BY <1>2, <2>1, GiveBackType DEF Settled
<1>3. CASE f.verdict = "retry"
  <2>1. AtStep("sleep", f) /\ "sleep" \in Step
    BY DEF AtStep, Step
  <2> QED BY <1>3, <2>1, GotoType DEF Settle, CallsOK
<1>4. CASE f.verdict = "failed"
  <2>1. \/ Leave(c, f, "failed")
        \/ GiveBackAndLeave(c, f, "failed")
    BY <1>4 DEF Settle
  <2>2. "failed" \in Ending /\ f.error # None
    BY <1>4 DEF Ending, Settled
  <2> QED BY <2>1, <2>2, LeaveType, GiveBackType
<1> QED BY <1>1, <1>2, <1>3, <1>4 DEF Settled

\* A transaction keeps the availability flag and the fault count typed.
LEMMA TransactionType ==
  ASSUME NEW c \in Call, NEW ok \in BOOLEAN, Transaction(c, ok),
         downSince \in [Request -> Nat \cup {None}], faults \in Nat, now \in Nat
  PROVE  downSince' \in [Request -> Nat \cup {None}] /\ faults' \in Nat
BY EngineAssumption DEF Transaction

\* The rows of an endpoint, and an owner, are replaced by well-typed ones.
LEMMA SetRowsType ==
  ASSUME NEW c \in Call, NEW rows \in Rows, circuit \in [Endpoint -> Rows], SetRows(c, rows)
  PROVE  circuit' \in [Endpoint -> Rows]
BY EngineAssumption DEF SetRows

LEMMA SetOwnerType ==
  ASSUME NEW c \in Call, NEW e \in ErrorClass, NEW o \in Call \cup {None},
         owner \in [Endpoint -> [ErrorClass -> Call \cup {None}]], SetOwner(c, e, o)
  PROVE  owner' \in [Endpoint -> [ErrorClass -> Call \cup {None}]]
BY EngineAssumption DEF SetOwner

\* The frames an operation may leave are well-typed and say where to go.
LEMMA OutcomesType ==
  ASSUME NEW c \in Call, frame[c] \in Frame, NEW f \in Outcomes(c)
  PROVE  f \in Frame /\ Settled(f)
<1>1. \/ \E v \in {"raised", "success"} : f = [frame[c] EXCEPT !.verdict = v]
      \/ \E x \in Failures(c) : \E v \in Verdicts(c, x) : f = WithFailure(frame[c], x, v)
  BY DEF Outcomes
<1>2. ASSUME NEW v \in {"raised", "success"}, f = [frame[c] EXCEPT !.verdict = v]
      PROVE  f \in Frame /\ Settled(f)
  BY <1>2 DEF Frame, Ending, Settled
<1>3. ASSUME NEW x \in Failures(c), NEW v \in Verdicts(c, x),
             f = WithFailure(frame[c], x, v)
      PROVE  f \in Frame /\ Settled(f)
  <2>1. x \in Failure /\ x.class \in ErrorClass
    BY EngineAssumption DEF Failure, Failures
  <2>2. x # None
    BY StoreAssumption, <2>1
  <2>3. v \in {"retry", "failed", "cancelled"}
    BY DEF Verdicts
  <2>4. v \in Ending \cup {"success", "retry", "pending"}
    BY <2>3 DEF Ending
  <2>5. f \in Frame
    BY <1>3, <2>1, <2>4 DEF Frame, WithFailure
  <2>6. f.verdict = v /\ f.error = x
    BY <1>3 DEF Frame, WithFailure
  <2> QED BY <2>2, <2>3, <2>5, <2>6 DEF Settled
<1> QED BY <1>1, <1>2, <1>3

LEMMA LedgerType ==
  ASSUME NEW ledger \in Ledger
  PROVE  /\ Reserved(ledger) \in Ledger
         /\ ledger.reserved >= 1 => Charged(ledger) \in Ledger /\ Returned(ledger) \in Ledger
BY DEF Ledger, Reserved, Charged, Returned

-----------------------------------------------------------------------------
(***************************************************************************)
(* Every step preserves the types.                                         *)
(***************************************************************************)
LEMMA TypeInit == Init => TypeInv
<1> SUFFICES ASSUME Init PROVE TypeInv
  OBVIOUS
<1>1. NoRow \in Row /\ NoFrame \in Frame /\ Empty \in Ledger
  BY StoreAssumption DEF NoRow, Row, RowState, NoFrame, Frame, Empty, Ledger
<1>2. AtStep("idle", NoFrame) /\ "idle" \in Step /\ "fresh" \in Result
  BY DEF AtStep, Step, Result
<1> QED
  BY <1>1, <1>2, StoreAssumption, EngineAssumption DEF Init, TypeInv, TypeOK, CallsOK, Rows

LEMMA TypeStep == TypeInv /\ [Next]_vars => TypeInv'
<1> SUFFICES ASSUME TypeInv, [Next]_vars PROVE TypeInv'
  OBVIOUS
<1> USE DEF TypeInv
<1>0. \A c \in Call : frame[c] \in Frame /\ EndpointOf[c] \in Endpoint /\ RequestOf[c] \in Request
  BY EngineAssumption DEF CallsOK
<1>1. ASSUME NEW c \in Call, Start(c) PROVE TypeInv'
  <2>1. NoFrame \in Frame /\ AtStep("admit", NoFrame) /\ "admit" \in Step
    BY DEF NoFrame, Frame, AtStep, Step
  <2>2. CallsOK'
    BY <1>1, <2>1, GotoType DEF Start, CallsOK
  <2> QED BY <1>1, <2>2 DEF Start, TypeOK, CallsOK, stores, requests, history
<1>2. ASSUME NEW c \in Call, LastResortProbe(c) PROVE TypeInv'
  <2> DEFINE f == [NoFrame EXCEPT !.forced = TRUE, !.at = now, !.target = "transient"]
  <2>1. Goto(c, "expire", f)
    BY <1>2 DEF LastResortProbe
  <2>2. f \in Frame
    BY DEF NoFrame, Frame, TypeOK, ErrorClass, HealthClass
  <2>3. AtStep("expire", f) /\ "expire" \in Step
    BY DEF AtStep, Step, BlipClass, NoFrame
  <2>4. CallsOK'
    BY <1>2, <2>1, <2>2, <2>3, GotoType DEF LastResortProbe, CallsOK
  <2> QED BY <1>2, <2>4 DEF LastResortProbe, TypeOK, CallsOK, stores, requests, history
<1>3. ASSUME NEW c \in Call, Expire(c) PROVE TypeInv'
  <2> DEFINE f == frame[c]
  <2>1. f.target \in BlipClass /\ f.at \in Nat /\ f \in Frame
    BY <1>0, <1>3 DEF Expire, CallsOK, AtStep, Frame
  <2>2. PICK ok \in BOOLEAN :
          /\ Transaction(c, ok)
          /\ SetRows(c, IF ok THEN ExpireCircuit(RowsOf(c), f.target, f.at) ELSE RowsOf(c))
    BY <1>3 DEF Expire
  <2>3. RowsOf(c) \in Rows
    BY <1>0 DEF TypeOK, RowsOf
  <2>4. (IF ok THEN ExpireCircuit(RowsOf(c), f.target, f.at) ELSE RowsOf(c)) \in Rows
    BY <2>1, <2>3, RowsType DEF BlipClass, ErrorClass, HealthClass
  <2>5. circuit' \in [Endpoint -> Rows]
    BY <2>2, <2>4, SetRowsType DEF TypeOK
  <2>6. downSince' \in [Request -> Nat \cup {None}] /\ faults' \in Nat
    BY <2>2, TransactionType DEF TypeOK
  <2>7. CallsOK'
    <3>1. CASE f.target = "transient"
      <4>1. [f EXCEPT !.target = "timeout"] \in Frame
        BY <2>1 DEF Frame, ErrorClass, HealthClass
      <4>2. AtStep("expire", [f EXCEPT !.target = "timeout"]) /\ "expire" \in Step
        BY <2>1 DEF AtStep, Step, BlipClass, Frame
      <4> QED BY <1>3, <3>1, <4>1, <4>2, GotoType DEF Expire, CallsOK
    <3>2. CASE f.target # "transient"
      <4>1. [f EXCEPT !.target = None] \in Frame
        BY <2>1 DEF Frame
      <4>2. AtStep("admit", [f EXCEPT !.target = None]) /\ "admit" \in Step
        BY DEF AtStep, Step
      <4> QED BY <1>3, <3>2, <4>1, <4>2, GotoType DEF Expire, CallsOK
    <3> QED BY <3>1, <3>2
  <2> QED BY <1>3, <2>5, <2>6, <2>7 DEF Expire, TypeOK, CallsOK, requests, history
<1>4. ASSUME NEW c \in Call, StopAtDeadline(c) PROVE TypeInv'
  <2>1. "deadline_exceeded" \in Ending
    BY DEF Ending, Skips
  <2>2. CallsOK'
    BY <1>0, <1>4, <2>1, LeaveType DEF StopAtDeadline
  <2> QED BY <1>4, <2>2 DEF StopAtDeadline, TypeOK, CallsOK, stores, requests, history
<1>5. ASSUME NEW c \in Call, KeepLease(c) PROVE TypeInv'
  <2>1. AtStep("reserve", frame[c]) /\ "reserve" \in Step
    BY DEF AtStep, Step
  <2>2. CallsOK'
    BY <1>0, <1>5, <2>1, GotoType DEF KeepLease, CallsOK
  <2> QED BY <1>5, <2>2 DEF KeepLease, TypeOK, CallsOK, stores, requests, history
<1>6. ASSUME NEW c \in Call, Admit(c) PROVE TypeInv'
  <2> DEFINE f == frame[c]
             rows == RowsOf(c)
             due == Expired(rows, now)
             active == Active(rows, now)
  <2>1. PICK ok \in BOOLEAN : Transaction(c, ok)
    BY <1>6 DEF Admit
  <2>2. downSince' \in [Request -> Nat \cup {None}] /\ faults' \in Nat
    BY <2>1, TransactionType DEF TypeOK
  <2>3. now \in Nat /\ f \in Frame /\ "reserve" \in Step /\ "claim" \in Step
    BY <1>0 DEF TypeOK, Step
  <2>4. Failing(rows) \in SUBSET BlipClass /\ BlipClass \subseteq ErrorClass
    BY DEF Failing, BlipClass, ErrorClass, HealthClass
  <2>5. CallsOK'
    <3>1. CASE Goto(c, "reserve", [f EXCEPT !.at = now]) /\ UNCHANGED result
      <4>1. [f EXCEPT !.at = now] \in Frame
        BY <2>3 DEF Frame
      <4>2. AtStep("reserve", [f EXCEPT !.at = now])
        BY DEF AtStep
      <4> QED BY <3>1, <4>1, <4>2, <2>3, GotoType DEF CallsOK
    <3>2. CASE active # {} /\ Leave(c, f, SkipReasonOf(FirstOf(active)))
      <4>1. SkipReasonOf(FirstOf(active)) \in Ending \ {"failed"}
        BY DEF SkipReasonOf, Ending, Skips, CircuitSkips
      <4> QED BY <3>2, <4>1, <2>3, LeaveType
    <3>3. CASE due # {} /\ Goto(c, "claim", [f EXCEPT !.at = now, !.target = FirstOf(due),
                                                    !.failing = Failing(rows)])
               /\ UNCHANGED result
      <4> DEFINE g == [f EXCEPT !.at = now, !.target = FirstOf(due), !.failing = Failing(rows)]
      <4>1. FirstOf(due) \in HealthClass /\ FirstOf(due) \in ErrorClass
        BY <3>3, FirstOfType DEF Expired, Opened, ErrorClass
      <4>2. g \in Frame /\ g.target = FirstOf(due)
        BY <2>3, <2>4, <4>1 DEF Frame
      <4>3. AtStep("claim", g)
        BY <4>1, <4>2 DEF AtStep
      <4> QED BY <3>3, <4>2, <4>3, <2>3, GotoType DEF CallsOK
    <3>4. CASE Goto(c, "reserve", [f EXCEPT !.at = now, !.seen = @ \cup Failing(rows)])
               /\ UNCHANGED result
      <4> DEFINE g == [f EXCEPT !.at = now, !.seen = @ \cup Failing(rows)]
      <4>1. g \in Frame
        BY <2>3, <2>4 DEF Frame
      <4>2. AtStep("reserve", g)
        BY DEF AtStep
      <4> QED BY <3>4, <4>1, <4>2, <2>3, GotoType DEF CallsOK
    <3> QED BY <1>6, <3>1, <3>2, <3>3, <3>4 DEF Admit
  <2> QED BY <1>6, <2>2, <2>5 DEF Admit, TypeOK, CallsOK, requests, history
<1>7. ASSUME NEW c \in Call, Claim(c) PROVE TypeInv'
  <2> DEFINE f == frame[c]
             e == f.target
             held == [f EXCEPT !.lease = e, !.leaseEnd = f.at + LeaseSeconds,
                               !.probed = FALSE, !.seen = @ \cup {e} \cup f.failing,
                               !.target = None, !.failing = {}]
             denied == [f EXCEPT !.target = None, !.failing = {}]
  <2>1. PICK ok \in BOOLEAN : Transaction(c, ok)
    BY <1>7 DEF Claim
  <2>2. downSince' \in [Request -> Nat \cup {None}] /\ faults' \in Nat
    BY <2>1, TransactionType DEF TypeOK
  <2>3. f \in Frame /\ f.at \in Nat /\ "reserve" \in Step /\ "reread" \in Step
    BY <1>0 DEF Frame, Step
  <2>4. e \in HealthClass /\ e \in ErrorClass
    BY <1>7 DEF Claim, CallsOK, AtStep, ErrorClass
  <2>5. RowsOf(c) \in Rows
    BY <1>0 DEF TypeOK, RowsOf
  <2>6. circuit' \in [Endpoint -> Rows]
    BY <1>7, <2>3, <2>4, <2>5, RowsType, SetRowsType DEF Claim, TypeOK
  <2>7. owner' \in [Endpoint -> [ErrorClass -> Call \cup {None}]]
    BY <1>7, <2>4, SetOwnerType DEF Claim, TypeOK
  <2>8. CallsOK'
    <3>1. CASE Goto(c, "reserve", denied)
      <4>1. denied \in Frame /\ AtStep("reserve", denied)
        BY <2>3 DEF Frame, AtStep
      <4> QED BY <1>7, <3>1, <4>1, <2>3, GotoType DEF Claim, CallsOK
    <3>2. CASE Goto(c, "reserve", held)
      <4>1. f.at + LeaseSeconds \in Nat
        BY <2>3, StoreAssumption
      <4>2. f.failing \subseteq ErrorClass
        BY <2>3 DEF Frame, BlipClass, ErrorClass, HealthClass
      <4>3. held \in Frame
        BY <2>3, <2>4, <4>1, <4>2 DEF Frame
      <4>4. AtStep("reserve", held)
        BY DEF AtStep
      <4> QED BY <1>7, <3>2, <4>3, <4>4, <2>3, GotoType DEF Claim, CallsOK
    <3>3. CASE Goto(c, "reread", f)
      <4>1. AtStep("reread", f)
        BY <2>4 DEF AtStep
      <4> QED BY <1>7, <3>3, <4>1, <2>3, GotoType DEF Claim, CallsOK
    <3> QED BY <1>7, <3>1, <3>2, <3>3 DEF Claim
  <2> QED BY <1>7, <2>2, <2>6, <2>7, <2>8 DEF Claim, TypeOK, CallsOK, requests
<1>8. ASSUME NEW c \in Call, Reread(c) PROVE TypeInv'
  <2>1. PICK ok \in BOOLEAN : Transaction(c, ok)
    BY <1>8 DEF Reread
  <2>2. downSince' \in [Request -> Nat \cup {None}] /\ faults' \in Nat
    BY <2>1, TransactionType DEF TypeOK
  <2>3. SkipReasonOf(frame[c].target) \in Ending \ {"failed"}
    BY DEF SkipReasonOf, Ending, Skips, CircuitSkips
  <2>4. CallsOK'
    BY <1>0, <1>8, <2>3, LeaveType DEF Reread
  <2> QED BY <1>8, <2>2, <2>4 DEF Reread, TypeOK, CallsOK, requests, history
<1>9. ASSUME NEW c \in Call, Reserve(c) PROVE TypeInv'
  <2> DEFINE r == RequestOf[c]
  <2>1. budget' \in [Request -> Ledger]
    BY <1>0, <1>9, LedgerType DEF Reserve, TypeOK
  <2>2. CallsOK'
    <3>1. CASE GiveBackAndLeave(c, frame[c], "budget_blocked")
      BY <1>0, <3>1, GiveBackType DEF Ending, Skips
    <3>2. CASE /\ Goto(c, IF DailyLimit = None THEN "call" ELSE "reserveDaily", frame[c])
               /\ UNCHANGED result
      <4>1. /\ AtStep("call", frame[c]) /\ AtStep("reserveDaily", frame[c])
            /\ "call" \in Step /\ "reserveDaily" \in Step
        BY DEF AtStep, Step
      <4> QED BY <1>0, <3>2, <4>1, GotoType DEF CallsOK
    <3> QED BY <1>9, <3>1, <3>2 DEF Reserve
  <2> QED BY <1>9, <2>1, <2>2 DEF Reserve, TypeOK, CallsOK, requests, history
<1>10. ASSUME NEW c \in Call, ReserveDaily(c) PROVE TypeInv'
  <2>1. PICK ok \in BOOLEAN : Transaction(c, ok)
    BY <1>10 DEF ReserveDaily
  <2>2. downSince' \in [Request -> Nat \cup {None}] /\ faults' \in Nat
    BY <2>1, TransactionType DEF TypeOK
  <2>3. daily' \in Ledger
    BY <1>10, LedgerType DEF ReserveDaily, TypeOK
  <2>4. /\ AtStep("call", frame[c]) /\ AtStep("unreserve", frame[c])
        /\ "call" \in Step /\ "unreserve" \in Step
    BY DEF AtStep, Step
  <2>5. CallsOK'
    BY <1>0, <1>10, <2>4, GotoType DEF ReserveDaily, CallsOK
  <2> QED BY <1>10, <2>2, <2>3, <2>5 DEF ReserveDaily, TypeOK, CallsOK, requests, history
<1>11. ASSUME NEW c \in Call, Unreserve(c) PROVE TypeInv'
  <2>1. budget' \in [Request -> Ledger]
    BY <1>0, <1>11, LedgerType DEF Unreserve, TypeOK
  <2>2. AtStep("broken", frame[c]) /\ "broken" \in Step
    BY DEF AtStep, Step
  <2>3. GiveBackAndLeave(c, frame[c], "budget_blocked") => CallsOK'
    BY <1>0, GiveBackType DEF Ending, Skips
  <2>4. Broken(c) => CallsOK'
    BY <1>0, <2>2, GotoType DEF Broken, CallsOK
  <2>5. CallsOK'
    BY <1>11, <2>3, <2>4 DEF Unreserve
  <2> QED BY <1>11, <2>1, <2>5 DEF Unreserve, TypeOK, CallsOK, requests, history
<1>12. ASSUME NEW c \in Call, Send(c) PROVE TypeInv'
  <2> DEFINE f == [frame[c] EXCEPT !.probed = TRUE, !.paid = TRUE]
  <2>1. f \in Frame /\ AtStep("inflight", f) /\ "inflight" \in Step
    BY <1>0 DEF Frame, AtStep, Step
  <2>2. CallsOK'
    BY <1>12, <2>1, GotoType DEF Send, CallsOK
  <2>3. sent' \in [Request -> Nat] /\ sentToday' \in Nat
    BY <1>0, <1>12 DEF Send, TypeOK
  <2> QED BY <1>12, <2>2, <2>3 DEF Send, TypeOK, CallsOK, stores, requests
<1>13. ASSUME NEW c \in Call, RefuseAtDeadline(c) PROVE TypeInv'
  <2>1. budget' \in [Request -> Ledger]
    BY <1>0, <1>13, LedgerType DEF RefuseAtDeadline, TypeOK
  <2>2. /\ AtStep("broken", frame[c]) /\ "broken" \in Step
        /\ AtStep("refundDaily", frame[c]) /\ "refundDaily" \in Step
    BY DEF AtStep, Step
  <2>3. GiveBackAndLeave(c, frame[c], "deadline_exceeded") => CallsOK'
    BY <1>0, GiveBackType DEF Ending, Skips
  <2>4. Goto(c, "refundDaily", frame[c]) /\ UNCHANGED result => CallsOK'
    BY <1>0, <2>2, GotoType DEF CallsOK
  <2>5. Broken(c) => CallsOK'
    BY <1>0, <2>2, GotoType DEF Broken, CallsOK
  <2>6. CallsOK'
    BY <1>13, <2>3, <2>4, <2>5 DEF RefuseAtDeadline
  <2> QED BY <1>13, <2>1, <2>6 DEF RefuseAtDeadline, TypeOK, CallsOK, requests, history
<1>14. ASSUME NEW c \in Call, RefundDaily(c) PROVE TypeInv'
  <2>1. PICK ok \in BOOLEAN : Transaction(c, ok)
    BY <1>14 DEF RefundDaily
  <2>2. downSince' \in [Request -> Nat \cup {None}] /\ faults' \in Nat
    BY <2>1, TransactionType DEF TypeOK
  <2>3. daily' \in Ledger
    BY <1>14, LedgerType DEF RefundDaily, TypeOK
  <2>4. AtStep("broken", frame[c]) /\ "broken" \in Step
    BY DEF AtStep, Step
  <2>5. GiveBackAndLeave(c, frame[c], "deadline_exceeded") => CallsOK'
    BY <1>0, GiveBackType DEF Ending, Skips
  <2>6. Broken(c) => CallsOK'
    BY <1>0, <2>4, GotoType DEF Broken, CallsOK
  <2>7. CallsOK'
    BY <1>14, <2>5, <2>6 DEF RefundDaily
  <2> QED BY <1>14, <2>2, <2>3, <2>7 DEF RefundDaily, TypeOK, CallsOK, requests, history
<1>15. ASSUME NEW c \in Call, Finish(c) PROVE TypeInv'
  <2>1. budget' \in [Request -> Ledger]
    BY <1>0, <1>15, LedgerType DEF Finish, TypeOK
  <2>2. AtStep("broken", frame[c]) /\ "broken" \in Step /\ "commitDaily" \in Step
    BY DEF AtStep, Step
  <2>3. Broken(c) => CallsOK'
    BY <1>0, <2>2, GotoType DEF Broken, CallsOK
  <2>4. ASSUME NEW f \in Outcomes(c),
               Settle(c, f) \/ (Goto(c, "commitDaily", f) /\ UNCHANGED result)
        PROVE  CallsOK'
    <3>1. f \in Frame /\ Settled(f) /\ AtStep("commitDaily", f)
      BY <1>0, OutcomesType DEF AtStep
    <3> QED BY <2>2, <2>4, <3>1, GotoType, SettleType DEF CallsOK
  <2>5. CallsOK'
    BY <1>15, <2>3, <2>4 DEF Finish
  <2> QED BY <1>15, <2>1, <2>5 DEF Finish, TypeOK, CallsOK, requests, history
<1>16. ASSUME NEW c \in Call, CommitDaily(c) PROVE TypeInv'
  <2>1. PICK ok \in BOOLEAN : Transaction(c, ok)
    BY <1>16 DEF CommitDaily
  <2>2. downSince' \in [Request -> Nat \cup {None}] /\ faults' \in Nat
    BY <2>1, TransactionType DEF TypeOK
  <2>3. daily' \in Ledger
    BY <1>16, LedgerType DEF CommitDaily, TypeOK
  <2>4. AtStep("broken", frame[c]) /\ "broken" \in Step
    BY DEF AtStep, Step
  <2>5. Settled(frame[c])
    BY <1>16 DEF CommitDaily, CallsOK, AtStep
  <2>6. Settle(c, frame[c]) => CallsOK'
    BY <1>0, <2>5, SettleType
  <2>7. Broken(c) => CallsOK'
    BY <1>0, <2>4, GotoType DEF Broken, CallsOK
  <2>8. CallsOK'
    BY <1>16, <2>6, <2>7 DEF CommitDaily
  <2> QED BY <1>16, <2>2, <2>3, <2>8 DEF CommitDaily, TypeOK, CallsOK, requests, history
<1>17. ASSUME NEW c \in Call, Release(c) PROVE TypeInv'
  <2> DEFINE f == frame[c]
             g == [f EXCEPT !.lease = None]
  <2>1. PICK ok \in BOOLEAN : Transaction(c, ok)
    BY <1>17 DEF Release
  <2>2. downSince' \in [Request -> Nat \cup {None}] /\ faults' \in Nat
    BY <2>1, TransactionType DEF TypeOK
  <2>3. AtStep("release", f) /\ f \in Frame
    BY <1>0, <1>17 DEF Release, CallsOK
  <2>4. f.lease \in ErrorClass
    BY <2>3 DEF AtStep, Frame
  <2>5. now \in Nat /\ RowsOf(c) \in Rows
    BY <1>0 DEF TypeOK, RowsOf
  <2>6. circuit' \in [Endpoint -> Rows]
    BY <1>17, <2>4, <2>5, RowsType, SetRowsType DEF Release, TypeOK
  <2>7. owner' \in [Endpoint -> [ErrorClass -> Call \cup {None}]]
    BY <1>17, <2>4, SetOwnerType DEF Release, TypeOK
  <2>8. g \in Frame /\ g.error = f.error
    BY <2>3 DEF Frame
  <2>9. CallsOK'
    BY <1>17, <2>3, <2>8, LeaveType DEF Release, AtStep
  <2> QED BY <1>17, <2>2, <2>6, <2>7, <2>9 DEF Release, TypeOK, CallsOK, requests
<1>18. ASSUME NEW c \in Call, Wake(c) PROVE TypeInv'
  <2> DEFINE f == [frame[c] EXCEPT !.index = @ + 1, !.verdict = "pending"]
  <2>0. frame[c].index + 1 \in Nat /\ "pending" \in Ending \cup {"success", "retry", "pending"}
    BY <1>0 DEF Frame
  <2>1. f \in Frame /\ AtStep("admit", f) /\ "admit" \in Step
    <3>1. f \in Frame
      BY <1>0, <2>0 DEF Frame
    <3>2. AtStep("admit", f) /\ "admit" \in Step
      BY DEF AtStep, Step
    <3> QED BY <3>1, <3>2
  <2>2. CallsOK'
    BY <1>18, <2>1, GotoType DEF Wake, CallsOK
  <2> QED BY <1>18, <2>2 DEF Wake, TypeOK, CallsOK, stores, requests, history
<1>19. ASSUME NEW c \in Call, Interrupt(c) PROVE TypeInv'
  <2>1. CallsOK'
    BY <1>0, <1>19, GiveBackType DEF Interrupt, Ending
  <2> QED BY <1>19, <2>1 DEF Interrupt, TypeOK, CallsOK, stores, requests, history
<1>20. ASSUME NEW c \in Call, Record(c) PROVE TypeInv'
  <2> DEFINE f == frame[c]
             e == f.error.class
  <2>1. PICK ok \in BOOLEAN : Transaction(c, ok)
    BY <1>20 DEF Record
  <2>2. downSince' \in [Request -> Nat \cup {None}] /\ faults' \in Nat
    BY <2>1, TransactionType DEF TypeOK
  <2>3. f.error \in Failure
    BY <1>0, <1>20 DEF Record, CallsOK, AtStep, Frame
  <2>4. e \in ErrorClass /\ f.error.retryAfter \in Nat \cup {None}
    BY <2>3 DEF Failure
  <2>5. now \in Nat /\ RowsOf(c) \in Rows
    BY <1>0 DEF TypeOK, RowsOf
  <2>6. circuit' \in [Endpoint -> Rows]
    BY <1>20, <2>4, <2>5, RowsType, SetRowsType DEF Record, TypeOK
  <2>7. owner' \in [Endpoint -> [ErrorClass -> Call \cup {None}]]
    BY <1>20, <2>4, SetOwnerType DEF Record, TypeOK
  <2>8. CallsOK'
    BY <1>0, <1>20, ReturnType DEF Record, Ending
  <2> QED BY <1>20, <2>2, <2>6, <2>7, <2>8 DEF Record, TypeOK, CallsOK, requests
<1>21. ASSUME NEW c \in Call, Clear(c) PROVE TypeInv'
  <2> DEFINE f == frame[c]
  <2>1. PICK e \in f.seen :
          /\ \/ /\ Transaction(c, TRUE)
                /\ SetRows(c, RecordSuccess(RowsOf(c), e))
                /\ SetOwner(c, e, None)
             \/ Transaction(c, FALSE) /\ UNCHANGED <<circuit, owner>>
          /\ Goto(c, "succeed", [f EXCEPT !.seen = @ \ {e}])
    BY <1>21 DEF Clear
  <2>2. PICK ok \in BOOLEAN : Transaction(c, ok)
    BY <2>1
  <2>3. downSince' \in [Request -> Nat \cup {None}] /\ faults' \in Nat
    BY <2>2, TransactionType DEF TypeOK
  <2>4. e \in ErrorClass /\ f \in Frame
    BY <1>0 DEF Frame
  <2>5. now \in Nat /\ RowsOf(c) \in Rows
    BY <1>0 DEF TypeOK, RowsOf
  <2>6. circuit' \in [Endpoint -> Rows]
    BY <2>1, <2>4, <2>5, RowsType, SetRowsType DEF TypeOK
  <2>7. owner' \in [Endpoint -> [ErrorClass -> Call \cup {None}]]
    BY <2>1, <2>4, SetOwnerType DEF TypeOK
  <2>8. [f EXCEPT !.seen = @ \ {e}] \in Frame
    BY <2>4 DEF Frame
  <2>9. AtStep("succeed", [f EXCEPT !.seen = @ \ {e}]) /\ "succeed" \in Step
    BY DEF AtStep, Step
  <2>10. CallsOK'
    BY <1>21, <2>1, <2>8, <2>9, GotoType DEF Clear, CallsOK
  <2> QED BY <1>21, <2>3, <2>6, <2>7, <2>10 DEF Clear, TypeOK, CallsOK, requests
<1>22. ASSUME NEW c \in Call, Succeed(c) PROVE TypeInv'
  <2>1. CallsOK'
    BY <1>0, <1>22, ReturnType DEF Succeed
  <2> QED BY <1>22, <2>1 DEF Succeed, TypeOK, CallsOK, stores, requests
<1>23. ASSUME NEW r \in Request, NewRequest(r) PROVE TypeInv'
  <2>1. NoFrame \in Frame /\ Empty \in Ledger /\ "fresh" \in Result
    BY DEF NoFrame, Frame, Empty, Ledger, Result
  <2>2. CallsOK'
    BY <1>23, <2>1 DEF NewRequest, CallsOK, AtStep, CallsOf
  <2>3. deadline' \in [Request -> Nat \cup {None}]
    BY <1>23, EngineAssumption DEF NewRequest, TypeOK
  <2> QED BY <1>23, <2>1, <2>2, <2>3 DEF NewRequest, TypeOK, CallsOK
<1>24. ASSUME NEW r \in Request, Reprobe(r) PROVE TypeInv'
  BY <1>24 DEF Reprobe, TypeOK, CallsOK, requests, history
<1>25. ASSUME NEW r \in Request, Crash(r) PROVE TypeInv'
  <2>1. NoFrame \in Frame /\ Empty \in Ledger /\ "crashed" \in Result /\ "idle" \in Step
    BY DEF NoFrame, Frame, Empty, Ledger, Result, Step
  <2>2. CallsOK'
    BY <1>25, <2>1 DEF Crash, CallsOK, AtStep, CallsOf
  <2> QED BY <1>25, <2>1, <2>2 DEF Crash, TypeOK, CallsOK, requests
<1>26. CASE Tick
  BY <1>26 DEF Tick, TypeOK, CallsOK, stores, requests, history
<1>27. CASE UNCHANGED vars
  BY <1>27 DEF vars, TypeOK, CallsOK, stores, requests, history
<1> QED
  BY <1>1, <1>2, <1>3, <1>4, <1>5, <1>6, <1>7, <1>8, <1>9, <1>10, <1>11, <1>12, <1>13,
     <1>14, <1>15, <1>16, <1>17, <1>18, <1>19, <1>20, <1>21, <1>22, <1>23, <1>24, <1>25,
     <1>26, <1>27 DEF Next, Advance

\* Every variable keeps its type: for every constant, no store transaction, no
\* retry and no crash leaves a call without what its next step needs.
THEOREM TypeCorrect == Spec => []TypeOK
<1>1. TypeInv => TypeOK
  BY DEF TypeInv
<1> QED BY TypeInit, TypeStep, <1>1, PTL DEF Spec

-----------------------------------------------------------------------------
(***************************************************************************)
(* The local variables of a call, step by step.                            *)
(***************************************************************************)
ProbeSteps == {"reserve", "reserveDaily", "unreserve", "call", "inflight",
               "refundDaily", "commitDaily", "sleep", "admit", "release"}

\* At every step: a try under a lease is a paid try, errors are those that
\* providers send, and the times are not in the future.
FrameOK(f, t) ==
  /\ f.probed => f.paid
  /\ f.error # None => /\ f.error.retryAfter \in RetryAfters
                       /\ f.error.class # "rate_limit" => f.error.retryAfter = None
  /\ f.at <= t
  /\ f.leaseEnd <= t + LeaseSeconds

\* A batch leaves, or has left, at the deadline of its request.
Stopped(c, step, f, res) ==
  /\ c \in Batches
  /\ \/ step = "refundDaily"
     \/ step = "release" /\ f.verdict = "deadline_exceeded"
     \/ step = "idle" /\ res = "deadline_exceeded"

\* A paid try has an error to report, unless the call has just succeeded,
\* raises, has ended as what the try was, or is a batch the deadline stopped.
PaidAt(c, step, f, res) ==
  f.paid => \/ step # "idle" /\ f.error # None
            \/ step \in {"inflight", "succeed", "broken"}
            \/ step \in {"commitDaily", "release"} /\ f.verdict \in {"raised", "success"}
            \/ step = "idle" /\ res \notin Skips \cup {"fresh"}
            \/ Stopped(c, step, f, res)

\* How a call that may have paid without an error of its own may end.
MayEnd(c, end) == end \notin Skips \/ (end = "deadline_exceeded" /\ c \in Batches)

\* A lease is claimed at most once in a call; where the call may leave without
\* giving it back, it has been used.
LeaseAt(step, f) ==
  /\ step \in {"expire", "claim", "reread"} => f.lease = None
  /\ step = "admit" /\ f.index = 0 => f.lease = None
  /\ step \in {"admit", "sleep", "record", "succeed", "inflight"} /\ f.lease # None => f.probed
  /\ step = "commitDaily" /\ f.lease # None /\ ~f.probed =>
       \/ f.verdict = "raised"
       \/ f.verdict = "failed" /\ f.error.class \notin HealthClass

PathOK(c, step, f, res, t) == FrameOK(f, t) /\ PaidAt(c, step, f, res) /\ LeaseAt(step, f)

Paths   == \A c \in Call : PathOK(c, pc[c], frame[c], result[c], now)
PathInv == TypeInv /\ Paths

\* A call moves to a step whose local variables are right.
LEMMA GotoPath ==
  ASSUME PathInv, NEW c \in Call, NEW step, NEW f, Goto(c, step, f),
         UNCHANGED <<result, now>>, PathOK(c, step, f, result[c], now)
  PROVE  Paths'
BY DEF PathInv, Paths, TypeInv, CallsOK, Goto

LEMMA ReturnPath ==
  ASSUME PathInv, NEW c \in Call, NEW f \in Frame, NEW end \in Ending \cup {"success"},
         Return(c, f, end), now' = now, f.probed => f.paid, f.paid => MayEnd(c, end)
  PROVE  Paths'
<1> DEFINE g == [NoFrame EXCEPT !.probed = f.probed, !.paid = f.paid, !.forced = f.forced]
<1>1. /\ g.probed = f.probed /\ g.paid = f.paid /\ g.lease = None /\ g.error = None
      /\ g.at = 0 /\ g.leaseEnd = 0
  BY DEF Frame, NoFrame
<1>2. now \in Nat /\ LeaseSeconds \in Nat
  BY StoreAssumption DEF PathInv, TypeInv, TypeOK
<1>3. FrameOK(g, now) /\ LeaseAt("idle", g)
  BY <1>1, <1>2 DEF FrameOK, LeaseAt
<1>4. end # "fresh"
  BY DEF Ending, Skips, CircuitSkips
<1>5. PathOK(c, "idle", g, end, now)
  BY <1>1, <1>3, <1>4 DEF PathOK, PaidAt, Stopped, MayEnd
<1> QED BY <1>5 DEF PathInv, Paths, TypeInv, CallsOK, Return

LEMMA LeavePath ==
  ASSUME PathInv, NEW c \in Call, NEW f \in Frame, NEW end \in Ending, Leave(c, f, end),
         now' = now, FrameOK(f, now), f.lease # None => f.probed,
         end = "failed" => f.error # None, f.paid => f.error # None \/ MayEnd(c, end)
  PROVE  Paths'
<1>1. CASE end = "failed" \/ (end \in Skips /\ f.error # None)
  <2>1. Goto(c, "record", f) /\ UNCHANGED result
    BY <1>1 DEF Leave
  <2>2. PathOK(c, "record", f, result[c], now)
    BY <1>1 DEF PathOK, PaidAt, Stopped, LeaseAt
  <2> QED BY <2>1, <2>2, GotoPath
<1>2. CASE ~ (end = "failed" \/ (end \in Skips /\ f.error # None))
  BY <1>2, ReturnPath DEF Leave, FrameOK, MayEnd
<1> QED BY <1>1, <1>2

LEMMA GiveBackPath ==
  ASSUME PathInv, NEW c \in Call, NEW f \in Frame, NEW end \in Ending,
         GiveBackAndLeave(c, f, end), now' = now, FrameOK(f, now),
         end = "failed" => f.error # None,
         f.paid => \/ f.error # None \/ end = "raised"
                   \/ end = "deadline_exceeded" /\ c \in Batches
  PROVE  Paths'
<1>1. CASE f.lease = None
  BY <1>1, LeavePath DEF GiveBackAndLeave, MayEnd, Skips, CircuitSkips
<1>2. CASE f.lease # None
  <2> DEFINE g == [f EXCEPT !.verdict = end]
  <2>1. Goto(c, "release", g) /\ UNCHANGED result
    BY <1>2 DEF GiveBackAndLeave
  <2>2. /\ g.verdict = end /\ g.lease = f.lease /\ g.probed = f.probed /\ g.paid = f.paid
        /\ g.error = f.error /\ g.at = f.at /\ g.leaseEnd = f.leaseEnd
    BY DEF Frame
  <2>3. PathOK(c, "release", g, result[c], now)
    BY <2>2 DEF PathOK, FrameOK, PaidAt, Stopped, LeaseAt
  <2> QED BY <2>1, <2>3, GotoPath
<1> QED BY <1>1, <1>2

LEMMA SettlePath ==
  ASSUME PathInv, NEW c \in Call, NEW f \in Frame, Settled(f), Settle(c, f), now' = now,
         PathOK(c, "commitDaily", f, result[c], now)
  PROVE  Paths'
<1>0. FrameOK(f, now)
  BY DEF PathOK
<1>1. CASE f.verdict = "success"
  <2>1. PathOK(c, "succeed", f, result[c], now)
    BY <1>1 DEF PathOK, PaidAt, Stopped, LeaseAt
  <2> QED BY <1>1, <2>1, GotoPath DEF Settle
<1>2. CASE f.verdict \in {"raised", "cancelled"}
  <2>1. GiveBackAndLeave(c, f, f.verdict) /\ f.verdict \in Ending /\ f.verdict # "failed"
    BY <1>2 DEF Settle, Ending
  <2>2. f.paid => f.error # None \/ f.verdict = "raised"
    BY <1>2 DEF PathOK, PaidAt, Stopped
  <2> QED BY <1>0, <2>1, <2>2, GiveBackPath
<1>3. CASE f.verdict = "retry"
  <2>1. PathOK(c, "sleep", f, result[c], now)
    BY <1>3 DEF PathOK, PaidAt, Stopped, LeaseAt
  <2> QED BY <1>3, <2>1, GotoPath DEF Settle
<1>4. CASE f.verdict = "failed"
  <2>1. "failed" \in Ending /\ f.error # None
    BY <1>4 DEF Ending, Settled
  <2>2. CASE f.error.class \in HealthClass
    <3>1. Leave(c, f, "failed")
      BY <1>4, <2>2 DEF Settle
    <3>2. f.lease # None => f.probed
      BY <1>4, <2>2 DEF PathOK, LeaseAt
    <3> QED BY <1>0, <2>1, <3>1, <3>2, LeavePath
  <2>3. CASE f.error.class \notin HealthClass
    <3>1. GiveBackAndLeave(c, f, "failed")
      BY <1>4, <2>3 DEF Settle
    <3> QED BY <1>0, <2>1, <3>1, GiveBackPath
  <2> QED BY <2>2, <2>3
<1> QED BY <1>1, <1>2, <1>3, <1>4 DEF Settled

\* An operation leaves an error, a success or an exception.
LEMMA OutcomesPath ==
  ASSUME PathInv, NEW c \in Call, pc[c] \in {"call", "inflight"}, NEW f \in Outcomes(c)
  PROVE  PathOK(c, "commitDaily", f, result[c], now)
<1> DEFINE g == frame[c]
<1>0. g \in Frame /\ PathOK(c, pc[c], g, result[c], now)
  BY DEF PathInv, TypeInv, CallsOK, Paths
<1>1. \/ \E v \in {"raised"} \cup (IF pc[c] = "inflight" THEN {"success"} ELSE {}) :
           f = [g EXCEPT !.verdict = v]
      \/ \E x \in Failures(c) : \E v \in Verdicts(c, x) : f = WithFailure(g, x, v)
  BY DEF Outcomes
<1>2. ASSUME NEW v \in {"raised"} \cup (IF pc[c] = "inflight" THEN {"success"} ELSE {}),
             f = [g EXCEPT !.verdict = v]
      PROVE  PathOK(c, "commitDaily", f, result[c], now)
  <2>1. /\ f.verdict = v /\ f.lease = g.lease /\ f.probed = g.probed /\ f.paid = g.paid
        /\ f.error = g.error /\ f.at = g.at /\ f.leaseEnd = g.leaseEnd
    BY <1>0, <1>2 DEF Frame
  <2> QED BY <1>0, <2>1 DEF PathOK, FrameOK, PaidAt, Stopped, LeaseAt
<1>3. ASSUME NEW x \in Failures(c), NEW v \in Verdicts(c, x), f = WithFailure(g, x, v)
      PROVE  PathOK(c, "commitDaily", f, result[c], now)
  <2>1. /\ f.verdict = v /\ f.lease = g.lease /\ f.probed = g.probed /\ f.paid = g.paid
        /\ f.error = x /\ f.at = g.at /\ f.leaseEnd = g.leaseEnd
    BY <1>0, <1>3 DEF Frame, WithFailure
  <2>2. x.retryAfter \in RetryAfters /\ (x.class # "rate_limit" => x.retryAfter = None)
    BY DEF Failures
  <2>3. x # None
    <3>1. x \in Failure
      BY EngineAssumption DEF Failures, Failure
    <3> QED BY <3>1, StoreAssumption
  <2>4. pc[c] = "call" => v = "failed" /\ x.class \notin HealthClass
    BY DEF Failures, Verdicts, MayRetry, Retryable, BlipClass, HealthClass
  <2>5. FrameOK(f, now)
    BY <1>0, <2>1, <2>2 DEF PathOK, FrameOK
  <2>6. LeaseAt("commitDaily", f)
    BY <1>0, <2>1, <2>4 DEF PathOK, LeaseAt
  <2> QED BY <2>1, <2>3, <2>5, <2>6 DEF PathOK, PaidAt, Stopped
<1> QED BY <1>1, <1>2, <1>3

LEMMA PathInit == Init => PathInv
<1> SUFFICES ASSUME Init PROVE PathInv
  OBVIOUS
<1>1. ASSUME NEW c \in Call PROVE PathOK(c, pc[c], frame[c], result[c], now)
  <2>1. pc[c] = "idle" /\ frame[c] = NoFrame /\ now = 0
    BY DEF Init
  <2> QED
    BY <2>1, StoreAssumption
    DEF PathOK, FrameOK, PaidAt, Stopped, LeaseAt, NoFrame
<1> QED BY <1>1, TypeInit DEF PathInv, Paths

LEMMA PathStep == PathInv /\ [Next]_vars => PathInv'
<1> SUFFICES ASSUME PathInv, [Next]_vars PROVE Paths'
  BY TypeStep DEF PathInv
<1>0. /\ now \in Nat /\ LeaseSeconds \in Nat \ {0}
      /\ \A c \in Call : /\ frame[c] \in Frame /\ pc[c] \in Step
                         /\ AtStep(pc[c], frame[c])
                         /\ PathOK(c, pc[c], frame[c], result[c], now)
  BY StoreAssumption DEF PathInv, TypeInv, TypeOK, CallsOK, Paths
<1>1. ASSUME NEW c \in Call, Start(c) PROVE Paths'
  <2>1. PathOK(c, "admit", NoFrame, result[c], now)
    BY <1>0 DEF PathOK, FrameOK, PaidAt, Stopped, LeaseAt, NoFrame
  <2> QED BY <1>1, <2>1, GotoPath DEF Start
<1>2. ASSUME NEW c \in Call, LastResortProbe(c) PROVE Paths'
  <2> DEFINE f == [NoFrame EXCEPT !.forced = TRUE, !.at = now, !.target = "transient"]
  <2>1. Goto(c, "expire", f)
    BY <1>2 DEF LastResortProbe
  <2>2. PathOK(c, "expire", f, result[c], now)
    BY <1>0 DEF PathOK, FrameOK, PaidAt, Stopped, LeaseAt, NoFrame
  <2> QED BY <1>2, <2>1, <2>2, GotoPath DEF LastResortProbe
<1>3. ASSUME NEW c \in Call, Expire(c) PROVE Paths'
  <2> DEFINE f == frame[c]
  <2>1. \/ Goto(c, "expire", [f EXCEPT !.target = "timeout"])
        \/ Goto(c, "admit", [f EXCEPT !.target = None])
    BY <1>3 DEF Expire
  <2>2. PathOK(c, "expire", f, result[c], now) /\ f \in Frame
    BY <1>0, <1>3 DEF Expire
  <2>3. /\ PathOK(c, "expire", [f EXCEPT !.target = "timeout"], result[c], now)
        /\ PathOK(c, "admit", [f EXCEPT !.target = None], result[c], now)
    BY <2>2 DEF Frame, PathOK, FrameOK, PaidAt, Stopped, LeaseAt
  <2> QED BY <1>3, <2>1, <2>3, GotoPath DEF Expire
<1>4. ASSUME NEW c \in Call, StopAtDeadline(c) PROVE Paths'
  <2>1. PathOK(c, "admit", frame[c], result[c], now) /\ "deadline_exceeded" \in Ending
    BY <1>0, <1>4 DEF StopAtDeadline, Ending, Skips
  <2>2. Leave(c, frame[c], "deadline_exceeded") /\ now' = now
    BY <1>4 DEF StopAtDeadline
  <2> QED BY <1>0, <2>1, <2>2, LeavePath DEF PathOK, PaidAt, Stopped, LeaseAt
<1>5. ASSUME NEW c \in Call, KeepLease(c) PROVE Paths'
  <2>1. PathOK(c, "reserve", frame[c], result[c], now)
    BY <1>0, <1>5 DEF KeepLease, PathOK, PaidAt, Stopped, LeaseAt
  <2> QED BY <1>5, <2>1, GotoPath DEF KeepLease
<1>6. ASSUME NEW c \in Call, Admit(c) PROVE Paths'
  <2> DEFINE f == frame[c]
             rows == RowsOf(c)
             active == Active(rows, now)
             due == Expired(rows, now)
             g1 == [f EXCEPT !.at = now]
             g2 == [f EXCEPT !.at = now, !.target = FirstOf(due), !.failing = Failing(rows)]
             g3 == [f EXCEPT !.at = now, !.seen = @ \cup Failing(rows)]
  <2>1. f \in Frame /\ PathOK(c, "admit", f, result[c], now) /\ f.lease = None
    BY <1>0, <1>6 DEF Admit, PathOK, LeaseAt, Frame
  <2>2. \/ Leave(c, f, SkipReasonOf(FirstOf(active)))
        \/ Goto(c, "reserve", g1) /\ UNCHANGED result
        \/ Goto(c, "claim", g2) /\ UNCHANGED result
        \/ Goto(c, "reserve", g3) /\ UNCHANGED result
    BY <1>6 DEF Admit
  <2>3. now' = now
    BY <1>6 DEF Admit
  <2>4. ASSUME Leave(c, f, SkipReasonOf(FirstOf(active))) PROVE Paths'
    <3>1. SkipReasonOf(FirstOf(active)) \in Ending \ {"failed"}
      BY DEF SkipReasonOf, Ending, Skips, CircuitSkips
    <3> QED BY <2>1, <2>3, <2>4, <3>1, LeavePath DEF PathOK, PaidAt, Stopped
  <2>5. PathOK(c, "reserve", g1, result[c], now)
    BY <1>0, <2>1 DEF Frame, PathOK, FrameOK, PaidAt, Stopped, LeaseAt
  <2>6. PathOK(c, "claim", g2, result[c], now)
    <3>1. /\ g2.lease = None /\ g2.at = now /\ g2.leaseEnd = f.leaseEnd
          /\ g2.probed = f.probed /\ g2.paid = f.paid /\ g2.error = f.error
      BY <2>1 DEF Frame
    <3> QED BY <1>0, <2>1, <3>1 DEF PathOK, FrameOK, PaidAt, Stopped, LeaseAt
  <2>7. PathOK(c, "reserve", g3, result[c], now)
    <3>1. /\ g3.lease = None /\ g3.at = now /\ g3.leaseEnd = f.leaseEnd
          /\ g3.probed = f.probed /\ g3.paid = f.paid /\ g3.error = f.error
      BY <2>1 DEF Frame
    <3> QED BY <1>0, <2>1, <3>1 DEF PathOK, FrameOK, PaidAt, Stopped, LeaseAt
  <2> QED BY <2>2, <2>3, <2>4, <2>5, <2>6, <2>7, GotoPath
<1>7. ASSUME NEW c \in Call, Claim(c) PROVE Paths'
  <2> DEFINE f == frame[c]
             e == f.target
             held == [f EXCEPT !.lease = e, !.leaseEnd = f.at + LeaseSeconds,
                               !.probed = FALSE, !.seen = @ \cup {e} \cup f.failing,
                               !.target = None, !.failing = {}]
             denied == [f EXCEPT !.target = None, !.failing = {}]
  <2>1. f \in Frame /\ PathOK(c, "claim", f, result[c], now) /\ f.lease = None
    BY <1>0, <1>7 DEF Claim, PathOK, LeaseAt
  <2>2. /\ \/ Goto(c, "reserve", denied) \/ Goto(c, "reserve", held) \/ Goto(c, "reread", f)
        /\ UNCHANGED <<result, now>>
    BY <1>7 DEF Claim
  <2>3. PathOK(c, "reserve", denied, result[c], now)
    BY <2>1 DEF Frame, PathOK, FrameOK, PaidAt, Stopped, LeaseAt
  <2>4. PathOK(c, "reserve", held, result[c], now)
    <3>1. /\ held.leaseEnd = f.at + LeaseSeconds /\ held.probed = FALSE
          /\ held.paid = f.paid /\ held.error = f.error /\ held.at = f.at
      BY <2>1 DEF Frame
    <3>2. f.at \in Nat /\ f.at <= now
      BY <2>1 DEF PathOK, FrameOK, Frame
    <3> QED BY <1>0, <2>1, <3>1, <3>2 DEF PathOK, FrameOK, PaidAt, Stopped, LeaseAt
  <2>5. PathOK(c, "reread", f, result[c], now)
    BY <2>1 DEF PathOK, PaidAt, Stopped, LeaseAt
  <2> QED BY <2>2, <2>3, <2>4, <2>5, GotoPath
<1>8. ASSUME NEW c \in Call, Reread(c) PROVE Paths'
  <2>1. SkipReasonOf(frame[c].target) \in Ending \ {"failed"}
    BY DEF SkipReasonOf, Ending, Skips, CircuitSkips
  <2>2. PathOK(c, "reread", frame[c], result[c], now)
    BY <1>0, <1>8 DEF Reread
  <2>3. Leave(c, frame[c], SkipReasonOf(frame[c].target)) /\ now' = now
    BY <1>8 DEF Reread
  <2> QED BY <1>0, <2>1, <2>2, <2>3, LeavePath DEF PathOK, PaidAt, Stopped, LeaseAt
<1>9. ASSUME NEW c \in Call,
             NEW step \in {"reserve", "unreserve", "call", "inflight", "refundDaily", "sleep"},
             pc[c] = step, now' = now,
             NEW end \in {"budget_blocked", "deadline_exceeded", "raised"},
             step \in {"inflight", "refundDaily"} => end = "deadline_exceeded",
             step = "inflight" => c \in Batches,
             GiveBackAndLeave(c, frame[c], end)
      PROVE  Paths'
  <2>1. end \in Ending \ {"failed"}
    BY DEF Ending, Skips
  <2>2. PathOK(c, step, frame[c], result[c], now)
    BY <1>0, <1>9
  <2>3. /\ frame[c] \in Frame /\ FrameOK(frame[c], now)
        /\ frame[c].paid =>
             frame[c].error # None \/ (end = "deadline_exceeded" /\ c \in Batches)
    BY <1>0, <1>9, <2>2 DEF PathOK, PaidAt, Stopped
  <2> QED BY <1>9, <2>1, <2>3, GiveBackPath
<1>10. ASSUME NEW c \in Call, pc[c] # "idle", Broken(c), now' = now PROVE Paths'
  <2>1. PathOK(c, "broken", frame[c], result[c], now)
    BY <1>0 DEF PathOK, PaidAt, Stopped, LeaseAt
  <2> QED BY <1>10, <2>1, GotoPath DEF Broken
<1>11. ASSUME NEW c \in Call, Reserve(c) PROVE Paths'
  <2>1. PathOK(c, "call", frame[c], result[c], now) /\ PathOK(c, "reserveDaily", frame[c], result[c], now)
    BY <1>0, <1>11 DEF Reserve, PathOK, PaidAt, Stopped, LeaseAt
  <2> QED BY <1>9, <1>11, <2>1, GotoPath DEF Reserve
<1>12. ASSUME NEW c \in Call, ReserveDaily(c) PROVE Paths'
  <2>1. PathOK(c, "call", frame[c], result[c], now) /\ PathOK(c, "unreserve", frame[c], result[c], now)
    BY <1>0, <1>12 DEF ReserveDaily, PathOK, PaidAt, Stopped, LeaseAt
  <2> QED BY <1>12, <2>1, GotoPath DEF ReserveDaily
<1>13. ASSUME NEW c \in Call, Unreserve(c) PROVE Paths'
  BY <1>9, <1>10, <1>13 DEF Unreserve
<1>14. ASSUME NEW c \in Call, Send(c) PROVE Paths'
  <2> DEFINE f == [frame[c] EXCEPT !.probed = TRUE, !.paid = TRUE]
  <2>1. /\ f.probed /\ f.paid /\ f.error = frame[c].error /\ f.lease = frame[c].lease
        /\ f.at = frame[c].at /\ f.leaseEnd = frame[c].leaseEnd
    BY <1>0 DEF Frame
  <2>2. PathOK(c, "call", frame[c], result[c], now)
    BY <1>0, <1>14 DEF Send
  <2>3. PathOK(c, "inflight", f, result[c], now)
    BY <2>1, <2>2 DEF PathOK, FrameOK, PaidAt, Stopped, LeaseAt
  <2> QED BY <1>14, <2>3, GotoPath DEF Send
<1>15. ASSUME NEW c \in Call, RefuseAtDeadline(c) PROVE Paths'
  <2>1. PathOK(c, "refundDaily", frame[c], result[c], now)
    BY <1>0, <1>15 DEF RefuseAtDeadline, PathOK, PaidAt, Stopped, LeaseAt
  <2> QED BY <1>9, <1>10, <1>15, <2>1, GotoPath DEF RefuseAtDeadline
<1>16. ASSUME NEW c \in Call, RefundDaily(c) PROVE Paths'
  BY <1>9, <1>10, <1>16 DEF RefundDaily
<1>17. ASSUME NEW c \in Call, Finish(c) PROVE Paths'
  <2>1. ASSUME NEW f \in Outcomes(c),
               Settle(c, f) \/ (Goto(c, "commitDaily", f) /\ UNCHANGED result)
        PROVE  Paths'
    <3>1. PathOK(c, "commitDaily", f, result[c], now)
      BY <1>17, OutcomesPath DEF Finish
    <3>2. f \in Frame /\ Settled(f)
      BY <1>0, OutcomesType
    <3> QED BY <1>17, <2>1, <3>1, <3>2, SettlePath, GotoPath DEF Finish
  <2> QED BY <1>10, <1>17, <2>1 DEF Finish
<1>18. ASSUME NEW c \in Call, CommitDaily(c) PROVE Paths'
  <2>1. PathOK(c, "commitDaily", frame[c], result[c], now) /\ Settled(frame[c])
    BY <1>0, <1>18 DEF CommitDaily, AtStep
  <2>2. Settle(c, frame[c]) => Paths'
    BY <1>0, <1>18, <2>1, SettlePath DEF CommitDaily
  <2> QED BY <1>10, <1>18, <2>2 DEF CommitDaily
<1>19. ASSUME NEW c \in Call, Release(c) PROVE Paths'
  <2> DEFINE f == frame[c]
             g == [f EXCEPT !.lease = None]
  <2>1. PathOK(c, "release", f, result[c], now) /\ AtStep("release", f) /\ f \in Frame
    BY <1>0, <1>19 DEF Release
  <2>2. /\ g \in Frame /\ g.lease = None /\ g.probed = f.probed /\ g.paid = f.paid
        /\ g.error = f.error /\ g.at = f.at /\ g.leaseEnd = f.leaseEnd
    BY <2>1 DEF Frame
  <2>3. f.paid => f.error # None \/ MayEnd(c, f.verdict)
    BY <2>1 DEF PathOK, PaidAt, Stopped, MayEnd, Skips, CircuitSkips
  <2>4. Leave(c, g, f.verdict) /\ now' = now
    BY <1>19 DEF Release
  <2> QED BY <2>1, <2>2, <2>3, <2>4, LeavePath DEF PathOK, FrameOK, AtStep
<1>20. ASSUME NEW c \in Call, Wake(c) PROVE Paths'
  <2> DEFINE f == [frame[c] EXCEPT !.index = @ + 1, !.verdict = "pending"]
  <2>1. /\ f.index # 0 /\ f.lease = frame[c].lease /\ f.probed = frame[c].probed
        /\ f.paid = frame[c].paid /\ f.error = frame[c].error /\ f.at = frame[c].at
        /\ f.leaseEnd = frame[c].leaseEnd
    BY <1>0 DEF Frame
  <2>2. PathOK(c, "sleep", frame[c], result[c], now)
    BY <1>0, <1>20 DEF Wake
  <2>3. PathOK(c, "admit", f, result[c], now)
    BY <2>1, <2>2 DEF PathOK, FrameOK, PaidAt, Stopped, LeaseAt
  <2> QED BY <1>20, <2>3, GotoPath DEF Wake
<1>21. ASSUME NEW c \in Call, Interrupt(c) PROVE Paths'
  BY <1>9, <1>21 DEF Interrupt
<1>22. ASSUME NEW c \in Call, Record(c) PROVE Paths'
  <2>1. PathOK(c, "record", frame[c], result[c], now)
    BY <1>0, <1>22 DEF Record
  <2> QED
    BY <1>0, <1>22, <2>1, ReturnPath
    DEF Record, PathOK, FrameOK, MayEnd, Ending, Skips, CircuitSkips
<1>23. ASSUME NEW c \in Call, Clear(c) PROVE Paths'
  <2>1. PICK e \in frame[c].seen : Goto(c, "succeed", [frame[c] EXCEPT !.seen = @ \ {e}])
    BY <1>23 DEF Clear
  <2> DEFINE f == [frame[c] EXCEPT !.seen = @ \ {e}]
  <2>2. /\ f.lease = frame[c].lease /\ f.probed = frame[c].probed
        /\ f.paid = frame[c].paid /\ f.error = frame[c].error /\ f.at = frame[c].at
        /\ f.leaseEnd = frame[c].leaseEnd
    BY <1>0 DEF Frame
  <2>3. PathOK(c, "succeed", frame[c], result[c], now)
    BY <1>0, <1>23 DEF Clear
  <2>4. PathOK(c, "succeed", f, result[c], now)
    BY <2>2, <2>3 DEF PathOK, FrameOK, PaidAt, Stopped, LeaseAt
  <2> QED BY <1>23, <2>1, <2>4, GotoPath DEF Clear
<1>24. ASSUME NEW c \in Call, Succeed(c) PROVE Paths'
  <2>1. PathOK(c, "succeed", frame[c], result[c], now)
    BY <1>0, <1>24 DEF Succeed
  <2> QED
    BY <1>0, <1>24, <2>1, ReturnPath
    DEF Succeed, PathOK, FrameOK, MayEnd, Skips, CircuitSkips
<1>25. ASSUME NEW r \in Request, NewRequest(r) \/ Crash(r) PROVE Paths'
  <2>1. ASSUME NEW c \in Call PROVE PathOK(c, pc[c], frame[c], result[c], now)'
    <3>1. CASE c \in CallsOf(r)
      <4>1. pc'[c] = "idle" /\ frame'[c] = NoFrame /\ now' = now
        BY <1>25, <3>1 DEF NewRequest, Crash, PathInv, TypeInv, CallsOK
      <4> QED
        BY <1>0, <4>1 DEF PathOK, FrameOK, PaidAt, Stopped, LeaseAt, NoFrame
    <3>2. CASE c \notin CallsOf(r)
      <4>1. /\ pc'[c] = pc[c] /\ frame'[c] = frame[c] /\ result'[c] = result[c]
            /\ now' = now
        BY <1>25, <3>2 DEF NewRequest, Crash, PathInv, TypeInv, CallsOK
      <4> QED BY <1>0, <4>1 DEF PathOK, FrameOK, PaidAt, Stopped, LeaseAt
    <3> QED BY <3>1, <3>2
  <2> QED BY <2>1 DEF Paths
<1>26. CASE Tick
  <2>1. ASSUME NEW c \in Call PROVE PathOK(c, pc[c], frame[c], result[c], now + 1)
    <3>1. FrameOK(frame[c], now + 1)
      <4>1. /\ FrameOK(frame[c], now) /\ frame[c].at \in Nat /\ frame[c].leaseEnd \in Nat
        BY <1>0 DEF PathOK, Frame
      <4> QED BY <1>0, <4>1 DEF FrameOK
    <3> QED BY <1>0, <3>1 DEF PathOK
  <2> QED BY <1>26, <2>1 DEF Tick, Paths
<1>27. CASE UNCHANGED vars \/ \E r \in Request : Reprobe(r)
  BY <1>27 DEF vars, Reprobe, PathInv, Paths
<1> QED
  BY <1>1, <1>2, <1>3, <1>4, <1>5, <1>6, <1>7, <1>8, <1>11, <1>12, <1>13, <1>14, <1>15,
     <1>16, <1>17, <1>18, <1>19, <1>20, <1>21, <1>22, <1>23, <1>24, <1>25, <1>26, <1>27
  DEF Next, Advance

LEMMA PathAlways == Spec => []PathInv
BY PathInit, PathStep, PTL DEF Spec

\* A paid try is not erased from the receipt: whatever the store, the deadline
\* and the budgets do after it, a call reported as skipped sent nothing, unless
\* it is a batch that the deadline of its request stopped midway.
THEOREM PaidTryIsReported == Spec => []PaidTryReported
<1>1. PathInv => PaidTryReported
  BY DEF PathInv, Paths, PathOK, PaidAt, Stopped, PaidTryReported
<1> QED BY <1>1, PathAlways, PTL

-----------------------------------------------------------------------------
(***************************************************************************)
(* What a step does to one call.                                           *)
(***************************************************************************)

\* The times and the lease are those of g.
Same(f, g) ==
  /\ f.lease = g.lease /\ f.leaseEnd = g.leaseEnd
  /\ f.at = g.at /\ f.probed = g.probed

\* The call has not been admitted, or is done.
Before(c) == \/ pc[c] \in {"idle", "expire", "record"}
             \/ pc[c] = "admit" /\ frame[c].lease = None

Stays(c) == pc'[c] = pc[c] /\ frame'[c] = frame[c]

Begins(c) == /\ pc[c] = "idle" /\ result[c] \in {"fresh", "circuit_open"}
             /\ pc'[c] = "admit" \/ (LastResort /\ pc'[c] = "expire")
             /\ frame'[c].lease = None

\* It moves on in execute, with the lease it holds or without one.
Goes(c) == /\ pc[c] # "idle" /\ pc'[c] \notin {"idle", "claim"}
           /\ frame'[c].lease = frame[c].lease /\ frame'[c].leaseEnd = frame[c].leaseEnd
           /\ frame'[c].at = frame[c].at
           /\ Probing(c)' => Probing(c)
           /\ Before(c) => Before(c)'
           /\ pc'[c] = "expire" => pc[c] = "expire"

\* It passes the circuit rows: none is active, unless the store has failed.
Admitted(c) == /\ pc[c] = "admit" /\ pc'[c] \in {"claim", "reserve"}
               /\ frame[c].lease = None /\ frame'[c].lease = None /\ frame'[c].at = now
               /\ UNCHANGED <<circuit, now>>
               /\ (faults = 0 => \A r \in Request : Up(r)) /\ faults' = 0 =>
                    Active(RowsOf(c), now) = {}
               /\ pc'[c] = "claim" => /\ frame'[c].target = FirstOf(Expired(RowsOf(c), now))
                                      /\ Expired(RowsOf(c), now) # {}

Claimed(c) == LET e == frame[c].target
                  k == EndpointOf[c] IN
  /\ pc[c] = "claim" /\ pc'[c] = "reserve" /\ CanClaim(RowsOf(c), e, frame[c].at)
  /\ e \in HealthClass
  /\ frame[c].lease = None /\ frame'[c].lease = e
  /\ frame'[c].leaseEnd = frame[c].at + LeaseSeconds /\ frame'[c].at = frame[c].at
  /\ owner'[k][e] = c
  /\ circuit'[k][e].until = frame'[c].leaseEnd

Releases(c) == /\ pc[c] = "release" /\ pc'[c] \in {"idle", "record"} /\ frame'[c].lease = None
               /\ (faults = 0 => \A r \in Request : Up(r)) /\ faults' = 0
                  /\ RowsOf(c)[frame[c].lease].state = "half_open" =>
                    owner'[EndpointOf[c]][frame[c].lease] = None

Returns(c) == /\ pc[c] # "idle" /\ pc'[c] = "idle"
              /\ frame[c].lease # None => frame[c].probed
              /\ frame'[c].lease = None /\ frame'[c].probed = frame[c].probed

Resets(c) == /\ pc'[c] = "idle" /\ frame'[c].lease = None
             /\ \/ \A k \in Endpoint, e \in ErrorClass : owner'[k][e] # c
                \/ faults' # 0

Moves(c) == \/ Stays(c) \/ Begins(c) \/ Goes(c) \/ Admitted(c)
            \/ Claimed(c) \/ Releases(c) \/ Returns(c) \/ Resets(c)

OthersStay(c) == \A o \in Call \ {c} : Stays(o)

LEMMA GotoMove ==
  ASSUME PathInv, NEW c \in Call, NEW step, NEW f, Goto(c, step, f)
  PROVE  OthersStay(c) /\ pc'[c] = step /\ frame'[c] = f
BY DEF PathInv, TypeInv, CallsOK, Goto, OthersStay, Stays

LEMMA ReturnMove ==
  ASSUME PathInv, NEW c \in Call, NEW f \in Frame, NEW end, Return(c, f, end)
  PROVE  /\ OthersStay(c) /\ pc'[c] = "idle"
         /\ frame'[c].lease = None /\ frame'[c].probed = f.probed
BY DEF PathInv, TypeInv, CallsOK, Return, OthersStay, Stays, NoFrame, Frame

LEMMA LeaveMove ==
  ASSUME PathInv, NEW c \in Call, NEW f \in Frame, NEW end, Leave(c, f, end)
  PROVE  /\ OthersStay(c)
         /\ \/ pc'[c] = "record" /\ frame'[c] = f
            \/ pc'[c] = "idle" /\ frame'[c].lease = None /\ frame'[c].probed = f.probed
BY GotoMove, ReturnMove DEF Leave

LEMMA GiveBackMove ==
  ASSUME PathInv, NEW c \in Call, NEW f \in Frame, NEW end, GiveBackAndLeave(c, f, end),
         Same(f, frame[c]), pc[c] \in ProbeSteps \ {"admit"}
  PROVE  OthersStay(c) /\ (Goes(c) \/ Returns(c))
<1>1. CASE f.lease = None
  <2>1. /\ OthersStay(c)
        /\ \/ pc'[c] = "record" /\ frame'[c] = f
           \/ pc'[c] = "idle" /\ frame'[c].lease = None /\ frame'[c].probed = f.probed
    BY <1>1, LeaveMove DEF GiveBackAndLeave
  <2> QED BY <1>1, <2>1 DEF Same, Goes, Returns, Before, Probing, ProbeSteps
<1>2. CASE f.lease # None
  <2> DEFINE g == [f EXCEPT !.verdict = end]
  <2>1. OthersStay(c) /\ pc'[c] = "release" /\ frame'[c] = g
    BY <1>2, GotoMove DEF GiveBackAndLeave
  <2>2. g.lease = f.lease /\ g.leaseEnd = f.leaseEnd /\ g.at = f.at
    BY DEF Frame
  <2> QED BY <1>2, <2>1, <2>2 DEF Same, Goes, Before, Probing, ProbeSteps
<1> QED BY <1>1, <1>2

LEMMA SettleMove ==
  ASSUME PathInv, NEW c \in Call, NEW f \in Frame, Settled(f), Settle(c, f),
         Same(f, frame[c]), pc[c] \in {"call", "inflight", "commitDaily"},
         PathOK(c, "commitDaily", f, result[c], now)
  PROVE  OthersStay(c) /\ (Goes(c) \/ Returns(c))
<1>0. pc[c] \in ProbeSteps \ {"admit"}
  BY DEF ProbeSteps
<1>1. CASE f.verdict \in {"success", "retry"}
  <2>1. OthersStay(c) /\ pc'[c] \in {"succeed", "sleep"} /\ frame'[c] = f
    BY <1>1, GotoMove DEF Settle
  <2> QED BY <1>0, <2>1 DEF Same, Goes, Before, Probing, ProbeSteps
<1>2. CASE \E end : GiveBackAndLeave(c, f, end)
  BY <1>0, <1>2, GiveBackMove
<1>3. CASE f.verdict = "failed" /\ f.error.class \in HealthClass
  <2>1. /\ OthersStay(c)
        /\ \/ pc'[c] = "record" /\ frame'[c] = f
           \/ pc'[c] = "idle" /\ frame'[c].lease = None /\ frame'[c].probed = f.probed
    BY <1>3, LeaveMove DEF Settle
  <2>2. f.lease # None => f.probed
    BY <1>3 DEF PathOK, LeaseAt
  <2> QED BY <1>0, <2>1, <2>2 DEF Same, Goes, Returns, Before, Probing, ProbeSteps
<1> QED BY <1>1, <1>2, <1>3 DEF Settle, Settled

\* The operation leaves the lease and the times alone.
LEMMA OutcomesSame ==
  ASSUME PathInv, NEW c \in Call, NEW f \in Outcomes(c)
  PROVE  Same(f, frame[c])
<1>1. frame[c] \in Frame
  BY DEF PathInv, TypeInv, CallsOK
<1>2. \/ \E v : f = [frame[c] EXCEPT !.verdict = v]
      \/ \E x, v : f = WithFailure(frame[c], x, v)
  BY DEF Outcomes
<1> QED BY <1>1, <1>2 DEF Same, Frame, WithFailure

\* Every step leaves each call alone or moves it in one of the ways above.
LEMMA CallMoves ==
  ASSUME PathInv, [Next]_vars, NEW o \in Call
  PROVE  Moves(o)
<1> USE DEF Moves
<1>0. /\ now \in Nat
      /\ \A c \in Call : /\ frame[c] \in Frame /\ pc[c] \in Step
                         /\ AtStep(pc[c], frame[c])
                         /\ PathOK(c, pc[c], frame[c], result[c], now)
                         /\ EndpointOf[c] \in Endpoint /\ RequestOf[c] \in Request
  BY EngineAssumption DEF PathInv, TypeInv, TypeOK, CallsOK, Paths
<1>1. ASSUME NEW c \in Call, OthersStay(c), Moves(c) PROVE Moves(o)
  BY <1>1 DEF OthersStay
<1>2. ASSUME NEW c \in Call, Start(c) \/ LastResortProbe(c) PROVE Moves(o)
  <2>1. PICK step, f : /\ Goto(c, step, f) /\ f.lease = None
                       /\ step = "admit" \/ (LastResort /\ step = "expire")
    <3>1. CASE Start(c)
      BY <3>1 DEF Start, NoFrame
    <3>2. CASE LastResortProbe(c)
      BY <3>2 DEF LastResortProbe, NoFrame
    <3> QED BY <1>2, <3>1, <3>2
  <2>2. pc[c] = "idle" /\ result[c] \in {"fresh", "circuit_open"}
    BY <1>0, <1>2 DEF Start, LastResortProbe, CallsOf
  <2> QED BY <1>1, <2>1, <2>2, GotoMove DEF Begins
<1>3. ASSUME NEW c \in Call, Expire(c) PROVE Moves(o)
  <2>1. \/ Goto(c, "expire", [frame[c] EXCEPT !.target = "timeout"])
        \/ Goto(c, "admit", [frame[c] EXCEPT !.target = None])
    BY <1>3 DEF Expire
  <2>2. pc[c] = "expire" /\ frame[c].lease = None
    BY <1>0, <1>3 DEF Expire, PathOK, LeaseAt
  <2> QED BY <1>0, <1>1, <2>1, <2>2, GotoMove DEF Goes, Before, Probing, Frame
<1>4. ASSUME NEW c \in Call, StopAtDeadline(c) PROVE Moves(o)
  <2>1. Leave(c, frame[c], "deadline_exceeded") /\ pc[c] = "admit"
    BY <1>4 DEF StopAtDeadline
  <2>2. frame[c].lease # None => frame[c].probed
    BY <1>0, <2>1 DEF PathOK, LeaseAt
  <2> QED BY <1>0, <1>1, <2>1, <2>2, LeaveMove DEF Goes, Returns, Before, Probing
<1>5. ASSUME NEW c \in Call, KeepLease(c) PROVE Moves(o)
  <2>1. OthersStay(c) /\ pc'[c] = "reserve" /\ frame'[c] = frame[c] /\ pc[c] = "admit"
    BY <1>5, GotoMove DEF KeepLease
  <2>2. frame[c].lease # None
    BY <1>5 DEF KeepLease
  <2> QED BY <1>1, <2>1, <2>2 DEF Goes, Before, Probing
<1>6. ASSUME NEW c \in Call, Admit(c) PROVE Moves(o)
  <2> DEFINE f == frame[c]
             rows == RowsOf(c)
             active == Active(rows, now)
             due == Expired(rows, now)
             g1 == [f EXCEPT !.at = now]
             g2 == [f EXCEPT !.at = now, !.target = FirstOf(due), !.failing = Failing(rows)]
             g3 == [f EXCEPT !.at = now, !.seen = @ \cup Failing(rows)]
  <2>1. /\ f \in Frame /\ f.lease = None /\ pc[c] = "admit" /\ UNCHANGED <<circuit, now>>
        /\ RequestOf[c] \in Request
    BY <1>0, <1>6 DEF Admit, PathOK, LeaseAt, Frame
  <2>2. CASE Transaction(c, FALSE) /\ Goto(c, "reserve", g1)
    <3>1. OthersStay(c) /\ pc'[c] = "reserve" /\ frame'[c] = g1
      BY <2>2, GotoMove
    <3>2. g1.lease = None /\ g1.at = now
      BY <2>1 DEF Frame
    <3>3. ~ (faults = 0 => \A r \in Request : Up(r)) \/ faults' # 0
      BY <2>1, <2>2 DEF Transaction, PathInv, TypeInv, TypeOK
    <3> QED BY <1>1, <2>1, <3>1, <3>2, <3>3 DEF Admitted
  <2>3. CASE Leave(c, f, SkipReasonOf(FirstOf(active)))
    BY <1>1, <2>1, <2>3, LeaveMove DEF Goes, Returns, Before, Probing
  <2>4. CASE active = {} /\ due # {} /\ Goto(c, "claim", g2)
    <3>1. OthersStay(c) /\ pc'[c] = "claim" /\ frame'[c] = g2
      BY <2>4, GotoMove
    <3>2. g2.lease = None /\ g2.at = now /\ g2.target = FirstOf(due)
      BY <2>1 DEF Frame
    <3> QED BY <1>1, <2>1, <2>4, <3>1, <3>2 DEF Admitted
  <2>5. CASE active = {} /\ Goto(c, "reserve", g3)
    <3>1. OthersStay(c) /\ pc'[c] = "reserve" /\ frame'[c] = g3
      BY <2>5, GotoMove
    <3>2. g3.lease = None /\ g3.at = now
      BY <2>1 DEF Frame
    <3> QED BY <1>1, <2>1, <2>5, <3>1, <3>2 DEF Admitted
  <2> QED BY <1>6, <2>2, <2>3, <2>4, <2>5 DEF Admit
<1>7. ASSUME NEW c \in Call, Claim(c) PROVE Moves(o)
  <2> DEFINE f == frame[c]
             e == f.target
             k == EndpointOf[c]
             held == [f EXCEPT !.lease = e, !.leaseEnd = f.at + LeaseSeconds,
                               !.probed = FALSE, !.seen = @ \cup {e} \cup f.failing,
                               !.target = None, !.failing = {}]
             denied == [f EXCEPT !.target = None, !.failing = {}]
  <2>1. f \in Frame /\ f.lease = None /\ pc[c] = "claim" /\ e \in HealthClass
    BY <1>0, <1>7 DEF Claim, PathOK, LeaseAt, AtStep
  <2>2. CASE Goto(c, "reserve", denied) \/ Goto(c, "reread", f)
    <3>1. denied.lease = f.lease /\ denied.leaseEnd = f.leaseEnd /\ denied.at = f.at
      BY <2>1 DEF Frame
    <3>2. /\ OthersStay(c) /\ pc'[c] \in {"reserve", "reread"}
          /\ frame'[c].lease = None /\ frame'[c].leaseEnd = f.leaseEnd /\ frame'[c].at = f.at
      <4>1. CASE Goto(c, "reserve", denied)
        <5>1. OthersStay(c) /\ pc'[c] = "reserve" /\ frame'[c] = denied
          BY <4>1, GotoMove
        <5> QED BY <2>1, <3>1, <5>1
      <4>2. CASE Goto(c, "reread", f)
        BY <2>1, <4>2, GotoMove
      <4> QED BY <2>2, <4>1, <4>2
    <3>3. Goes(c)
      BY <2>1, <3>2 DEF Goes, Before, Probing
    <3> QED BY <1>1, <3>2, <3>3
  <2>3. CASE /\ CanClaim(RowsOf(c), e, f.at) /\ SetRows(c, ClaimHalfOpen(RowsOf(c), e, f.at))
             /\ SetOwner(c, e, c) /\ Goto(c, "reserve", held)
    <3>1. OthersStay(c) /\ pc'[c] = "reserve" /\ frame'[c] = held
      BY <2>3, GotoMove
    <3>2. held.lease = e /\ held.leaseEnd = f.at + LeaseSeconds /\ held.at = f.at
      BY <2>1 DEF Frame
    <3>3. e \in ErrorClass /\ k \in Endpoint
      BY <1>0, <2>1 DEF ErrorClass
    <3>4. owner'[k][e] = c
      BY <2>3, <3>3 DEF SetOwner, PathInv, TypeInv, TypeOK
    <3>5. circuit'[k] = ClaimHalfOpen(RowsOf(c), e, f.at)
      BY <2>3, <3>3 DEF SetRows, PathInv, TypeInv, TypeOK
    <3>6. RowsOf(c) \in Rows
      BY <3>3 DEF RowsOf, PathInv, TypeInv, TypeOK
    <3>7. circuit'[k][e].until = f.at + LeaseSeconds
      BY <3>3, <3>5, <3>6 DEF ClaimHalfOpen, Rows, Row
    <3> QED BY <1>1, <2>1, <2>3, <3>1, <3>2, <3>4, <3>7 DEF Claimed
  <2> QED BY <1>7, <2>2, <2>3 DEF Claim
<1>8. ASSUME NEW c \in Call, Reread(c) PROVE Moves(o)
  <2>1. Leave(c, frame[c], SkipReasonOf(frame[c].target)) /\ pc[c] = "reread"
    BY <1>8 DEF Reread
  <2>2. frame[c].lease = None
    BY <1>0, <2>1 DEF PathOK, LeaseAt
  <2> QED BY <1>0, <1>1, <2>1, <2>2, LeaveMove DEF Goes, Returns, Before, Probing
<1>9. ASSUME NEW c \in Call, NEW end, GiveBackAndLeave(c, frame[c], end),
             pc[c] \in ProbeSteps \ {"admit"}
      PROVE  Moves(o)
  <2>1. Same(frame[c], frame[c])
    BY DEF Same
  <2> QED BY <1>0, <1>1, <1>9, <2>1, GiveBackMove
<1>10. ASSUME NEW c \in Call, NEW step \in ProbeSteps \cup {"broken"}, Goto(c, step, frame[c]),
              pc[c] \in ProbeSteps \ {"admit"}
       PROVE  Moves(o)
  BY <1>1, <1>10, GotoMove DEF Goes, Before, Probing, ProbeSteps
<1>11. ASSUME NEW c \in Call, Reserve(c) \/ ReserveDaily(c) \/ Unreserve(c) PROVE Moves(o)
  <2>1. pc[c] \in ProbeSteps \ {"admit"}
    BY <1>11 DEF Reserve, ReserveDaily, Unreserve, ProbeSteps
  <2>2. {"call", "reserveDaily", "unreserve"} \subseteq ProbeSteps
    BY DEF ProbeSteps
  <2>3. CASE Reserve(c)
    BY <1>9, <1>10, <2>1, <2>2, <2>3 DEF Reserve
  <2>4. CASE ReserveDaily(c)
    BY <1>10, <2>1, <2>2, <2>4 DEF ReserveDaily
  <2>5. CASE Unreserve(c)
    BY <1>9, <1>10, <2>1, <2>5 DEF Unreserve, Broken
  <2> QED BY <1>11, <2>3, <2>4, <2>5
<1>12. ASSUME NEW c \in Call, Send(c) PROVE Moves(o)
  <2> DEFINE f == [frame[c] EXCEPT !.probed = TRUE, !.paid = TRUE]
  <2>1. OthersStay(c) /\ pc[c] = "call" /\ pc'[c] = "inflight" /\ frame'[c] = f
    BY <1>12, GotoMove DEF Send
  <2>2. f.lease = frame[c].lease /\ f.leaseEnd = frame[c].leaseEnd /\ f.at = frame[c].at
    BY <1>0 DEF Frame
  <2> QED BY <1>1, <2>1, <2>2 DEF Goes, Before, Probing
<1>13. ASSUME NEW c \in Call, RefuseAtDeadline(c) \/ RefundDaily(c) PROVE Moves(o)
  <2>1. pc[c] \in ProbeSteps \ {"admit"} /\ "refundDaily" \in ProbeSteps
    BY <1>13 DEF RefuseAtDeadline, RefundDaily, ProbeSteps
  <2> QED BY <1>9, <1>10, <1>13, <2>1 DEF RefuseAtDeadline, RefundDaily, Broken
<1>14. ASSUME NEW c \in Call, Finish(c) PROVE Moves(o)
  <2>1. pc[c] \in {"call", "inflight"} /\ pc[c] \in ProbeSteps \ {"admit"}
    BY <1>14 DEF Finish, ProbeSteps
  <2>2. ASSUME NEW f \in Outcomes(c), Settle(c, f) \/ Goto(c, "commitDaily", f)
        PROVE  Moves(o)
    <3>1. f \in Frame /\ Settled(f)
      BY <1>0, OutcomesType
    <3>2. Same(f, frame[c]) /\ PathOK(c, "commitDaily", f, result[c], now)
      BY <2>1, OutcomesSame, OutcomesPath
    <3>3. CASE Settle(c, f)
      BY <1>1, <2>1, <3>1, <3>2, <3>3, SettleMove
    <3>4. CASE Goto(c, "commitDaily", f)
      BY <1>1, <2>1, <3>2, <3>4, GotoMove DEF Same, Goes, Before, Probing
    <3> QED BY <2>2, <3>3, <3>4
  <2> QED BY <1>10, <1>14, <2>1, <2>2 DEF Finish, Broken
<1>15. ASSUME NEW c \in Call, CommitDaily(c) PROVE Moves(o)
  <2>1. /\ pc[c] = "commitDaily" /\ Settled(frame[c]) /\ Same(frame[c], frame[c])
        /\ PathOK(c, "commitDaily", frame[c], result[c], now)
    BY <1>0, <1>15 DEF CommitDaily, AtStep, Same
  <2>2. CASE Settle(c, frame[c])
    BY <1>0, <1>1, <2>1, <2>2, SettleMove
  <2> QED BY <1>10, <1>15, <2>1, <2>2 DEF CommitDaily, Broken, ProbeSteps
<1>16. ASSUME NEW c \in Call, Release(c) PROVE Moves(o)
  <2> DEFINE f == frame[c]
             g == [f EXCEPT !.lease = None]
             k == EndpointOf[c]
  <2>1. pc[c] = "release" /\ Leave(c, g, f.verdict) /\ f \in Frame /\ f.lease \in ErrorClass
    BY <1>0, <1>16 DEF Release, AtStep, Frame
  <2>2. g \in Frame /\ g.lease = None
    BY <2>1 DEF Frame
  <2>3. OthersStay(c) /\ pc'[c] \in {"idle", "record"} /\ frame'[c].lease = None
    BY <2>1, <2>2, LeaveMove
  <2>4. ASSUME faults = 0 => \A r \in Request : Up(r), faults' = 0,
               RowsOf(c)[f.lease].state = "half_open"
        PROVE  owner'[k][f.lease] = None
    <3>1. ~ Transaction(c, FALSE)
      BY <1>0, <2>4 DEF Transaction, PathInv, TypeInv, TypeOK
    <3>2. SetOwner(c, f.lease, None)
      BY <1>16, <2>4, <3>1 DEF Release
    <3> QED BY <1>0, <2>1, <3>2 DEF SetOwner, PathInv, TypeInv, TypeOK
  <2> QED BY <1>1, <2>1, <2>3, <2>4 DEF Releases
<1>17. ASSUME NEW c \in Call, Wake(c) PROVE Moves(o)
  <2> DEFINE f == [frame[c] EXCEPT !.index = @ + 1, !.verdict = "pending"]
  <2>1. OthersStay(c) /\ pc[c] = "sleep" /\ pc'[c] = "admit" /\ frame'[c] = f
    BY <1>17, GotoMove DEF Wake
  <2>2. f.lease = frame[c].lease /\ f.leaseEnd = frame[c].leaseEnd /\ f.at = frame[c].at
    BY <1>0 DEF Frame
  <2> QED BY <1>1, <2>1, <2>2 DEF Goes, Before, Probing
<1>18. ASSUME NEW c \in Call, Interrupt(c) PROVE Moves(o)
  BY <1>9, <1>18 DEF Interrupt, ProbeSteps
<1>19. ASSUME NEW c \in Call, Record(c) \/ Succeed(c) PROVE Moves(o)
  <2>1. /\ pc[c] \in {"record", "succeed"} /\ \E end : Return(c, frame[c], end)
    BY <1>19 DEF Record, Succeed
  <2>2. frame[c].lease # None => frame[c].probed
    BY <1>0, <2>1 DEF PathOK, LeaseAt
  <2> QED BY <1>0, <1>1, <2>1, <2>2, ReturnMove DEF Returns
<1>20. ASSUME NEW c \in Call, Clear(c) PROVE Moves(o)
  <2>1. PICK e : Goto(c, "succeed", [frame[c] EXCEPT !.seen = @ \ {e}])
    BY <1>20 DEF Clear
  <2> DEFINE f == [frame[c] EXCEPT !.seen = @ \ {e}]
  <2>2. OthersStay(c) /\ pc[c] = "succeed" /\ pc'[c] = "succeed" /\ frame'[c] = f
    BY <1>20, <2>1, GotoMove DEF Clear
  <2>3. f.lease = frame[c].lease /\ f.leaseEnd = frame[c].leaseEnd /\ f.at = frame[c].at
    BY <1>0 DEF Frame
  <2> QED BY <1>1, <2>2, <2>3 DEF Goes, Before, Probing
<1>21. ASSUME NEW r \in Request, NewRequest(r) PROVE Moves(o)
  <2>1. CASE o \in CallsOf(r)
    <3>1. pc'[o] = "idle" /\ frame'[o].lease = None
      BY <1>21, <2>1 DEF NewRequest, NoFrame, PathInv, TypeInv, CallsOK
    <3>2. \A k \in Endpoint, e \in ErrorClass : owner'[k][e] # o
      BY <1>21, <2>1, EngineAssumption DEF NewRequest
    <3> QED BY <3>1, <3>2 DEF Resets
  <2>2. CASE o \notin CallsOf(r)
    BY <1>21, <2>2 DEF NewRequest, Stays
  <2> QED BY <2>1, <2>2
<1>22. ASSUME NEW r \in Request, Crash(r) PROVE Moves(o)
  <2>1. CASE o \in CallsOf(r)
    <3>1. pc'[o] = "idle" /\ frame'[o].lease = None /\ faults' # 0
      BY <1>22, <2>1 DEF Crash, NoFrame, PathInv, TypeInv, TypeOK, CallsOK
    <3> QED BY <3>1 DEF Resets
  <2>2. CASE o \notin CallsOf(r)
    BY <1>22, <2>2 DEF Crash, Stays
  <2> QED BY <2>1, <2>2
<1>23. CASE Tick \/ UNCHANGED vars \/ \E r \in Request : Reprobe(r)
  BY <1>23 DEF Tick, vars, Reprobe, Stays
<1> QED
  BY <1>2, <1>3, <1>4, <1>5, <1>6, <1>7, <1>8, <1>11, <1>12, <1>13, <1>14, <1>15, <1>16,
     <1>17, <1>18, <1>19, <1>20, <1>21, <1>22, <1>23
  DEF Next, Advance

-----------------------------------------------------------------------------
(***************************************************************************)
(* What a step does to one circuit row, and to the owner of its probe.     *)
(***************************************************************************)
RowStays(k, e) == /\ circuit'[k][e] = circuit[k][e]
                  /\ owner'[k][e] \in {owner[k][e], None}

RowClaimed(k, e) == \E c \in Call :
  /\ pc[c] = "claim" /\ EndpointOf[c] = k /\ frame[c].target = e
  /\ CanClaim(circuit[k], e, frame[c].at)
  /\ circuit'[k][e].state = "half_open" /\ circuit'[k][e].count = circuit[k][e].count
  /\ owner'[k][e] = c /\ pc'[c] = "reserve" /\ frame'[c].lease = e

RowRecorded(k, e) == \E c \in Call, wait \in RetryAfters :
  /\ Record(c) /\ EndpointOf[c] = k
  /\ frame[c].error.class = e /\ frame[c].error.retryAfter = wait
  /\ e # "rate_limit" => wait = None
  /\ circuit'[k][e].state = StateFor(e)
  /\ circuit'[k][e].count = AtMost(circuit[k][e].count + 1, FailuresToOpen)
  /\ circuit'[k][e].until = now + OpenWindow(e, wait)
  /\ owner'[k][e] = None

RowCleared(k, e) == circuit'[k][e] = NoRow /\ owner'[k][e] = None

RowReleased(k, e) == \E c \in Call :
  /\ Release(c) /\ pc[c] = "release" /\ EndpointOf[c] = k /\ frame[c].lease = e
  /\ pc'[c] \in {"idle", "record"} /\ frame'[c].lease = None
  /\ circuit[k][e].state = "half_open" /\ circuit'[k][e].state = "half_open"
  /\ circuit'[k][e].count = circuit[k][e].count
  /\ owner'[k][e] = None

RowExpired(k, e) == \E c \in Call :
  /\ Expire(c) /\ EndpointOf[c] = k /\ frame[c].target = e
  /\ pc[c] = "expire" /\ circuit[k][e].state = "open" /\ circuit'[k][e].state = "open"
  /\ owner'[k][e] = owner[k][e]

RowMove(k, e) == \/ RowStays(k, e) \/ RowClaimed(k, e) \/ RowRecorded(k, e)
                 \/ RowCleared(k, e) \/ RowReleased(k, e) \/ RowExpired(k, e)

\* One endpoint gets new rows.
LEMMA SetRowsMove ==
  ASSUME PathInv, NEW c \in Call, NEW rows, SetRows(c, rows), NEW k \in Endpoint
  PROVE  circuit'[k] = IF k = EndpointOf[c] THEN rows ELSE circuit[k]
BY EngineAssumption DEF SetRows, PathInv, TypeInv, TypeOK

LEMMA OtherRowStays ==
  ASSUME PathInv, NEW c \in Call, NEW rows, SetRows(c, rows), NEW k \in Endpoint, NEW e,
         k = EndpointOf[c] => rows[e] = circuit[k][e]
  PROVE  circuit'[k][e] = circuit[k][e]
BY SetRowsMove

LEMMA SetOwnerMove ==
  ASSUME PathInv, NEW c \in Call, NEW d \in ErrorClass, NEW o, SetOwner(c, d, o),
         NEW k \in Endpoint, NEW e \in ErrorClass
  PROVE  owner'[k][e] = IF k = EndpointOf[c] /\ e = d THEN o ELSE owner[k][e]
BY EngineAssumption DEF SetOwner, PathInv, TypeInv, TypeOK

\* Every step leaves each row alone or moves it in one of the ways above.
LEMMA RowMoves ==
  ASSUME PathInv, [Next]_vars, NEW k \in Endpoint, NEW e \in ErrorClass
  PROVE  RowMove(k, e)
<1> USE DEF RowMove
<1>0. /\ now \in Nat
      /\ \A c \in Call : /\ frame[c] \in Frame
                         /\ AtStep(pc[c], frame[c])
                         /\ PathOK(c, pc[c], frame[c], result[c], now)
                         /\ EndpointOf[c] \in Endpoint /\ RequestOf[c] \in Request
                         /\ RowsOf(c) \in Rows
      /\ circuit[k] \in Rows
  BY EngineAssumption DEF PathInv, TypeInv, TypeOK, CallsOK, Paths, RowsOf
<1>1. ASSUME UNCHANGED <<circuit, owner>> PROVE RowMove(k, e)
  BY <1>1 DEF RowStays
<1>2. ASSUME NEW c \in Call, Expire(c) PROVE RowMove(k, e)
  <2> DEFINE f == frame[c]
  <2>1. PICK ok \in BOOLEAN :
          SetRows(c, IF ok THEN ExpireCircuit(RowsOf(c), f.target, f.at) ELSE RowsOf(c))
    BY <1>2 DEF Expire
  <2>2. pc[c] = "expire" /\ owner' = owner
    BY <1>2 DEF Expire, history
  <2>3. \/ circuit'[k][e] = circuit[k][e]
        \/ /\ circuit[k][e].state = "open" /\ circuit'[k][e].state = "open"
           /\ EndpointOf[c] = k /\ f.target = e
    <3>1. \/ circuit'[k] = circuit[k]
          \/ /\ circuit'[k] = ExpireCircuit(circuit[k], f.target, f.at)
             /\ EndpointOf[c] = k
      BY <2>1, SetRowsMove DEF RowsOf
    <3>2. circuit[k] \in [ErrorClass -> Row]
      BY <1>0 DEF Rows
    <3> HIDE DEF f
    <3>3. ASSUME circuit'[k] = ExpireCircuit(circuit[k], f.target, f.at), circuit'[k][e] # circuit[k][e]
          PROVE  circuit[k][e].state = "open" /\ circuit'[k][e].state = "open" /\ f.target = e
      <4> DEFINE t == f.target
                 moved == [circuit[k] EXCEPT ![t].until = f.at]
      <4>1. circuit[k][t].state = "open" /\ circuit'[k] = moved
        BY <3>3 DEF ExpireCircuit
      <4>2. e = t
        BY ONLY <3>2, <3>3, <4>1, e \in ErrorClass
      <4>3. moved[e].state = circuit[k][e].state
        BY ONLY <3>2, <4>2, e \in ErrorClass DEF Row
      <4> QED BY <4>1, <4>2, <4>3
    <3> QED BY <3>1, <3>3
  <2> QED BY <1>2, <2>2, <2>3 DEF RowStays, RowExpired
<1>3. ASSUME NEW c \in Call, Claim(c) PROVE RowMove(k, e)
  <2> DEFINE f == frame[c]
             d == f.target
  <2>1. pc[c] = "claim" /\ d \in HealthClass /\ d \in ErrorClass /\ f \in Frame
    BY <1>0, <1>3 DEF Claim, AtStep, ErrorClass
  <2>2. CASE UNCHANGED <<circuit, owner>>
    BY <1>1, <2>2
  <2>3. CASE /\ CanClaim(RowsOf(c), d, f.at) /\ SetRows(c, ClaimHalfOpen(RowsOf(c), d, f.at))
             /\ SetOwner(c, d, c) /\ ~ UNCHANGED <<circuit, owner>>
    <3>1. CASE k = EndpointOf[c] /\ e = d
      <4>1. circuit'[k] = ClaimHalfOpen(circuit[k], e, f.at) /\ owner'[k][e] = c
        BY <2>1, <2>3, <3>1, SetRowsMove, SetOwnerMove DEF RowsOf
      <4>2. circuit'[k][e].state = "half_open" /\ circuit'[k][e].count = circuit[k][e].count
        BY <1>0, <4>1 DEF ClaimHalfOpen, Rows, Row
      <4>3. PICK g : Goto(c, "reserve", g) /\ g.lease = d
        <5> DEFINE held == [f EXCEPT !.lease = d, !.leaseEnd = f.at + LeaseSeconds,
                               !.probed = FALSE, !.seen = @ \cup {d} \cup f.failing,
                               !.target = None, !.failing = {}]
        <5>1. held.lease = d
          BY <2>1 DEF Frame
        <5>2. Goto(c, "reserve", held)
          BY <1>3, <2>3 DEF Claim
        <5> QED BY <5>1, <5>2
      <4>4. pc'[c] = "reserve" /\ frame'[c].lease = e
        BY <3>1, <4>3, GotoMove
      <4> QED BY <2>1, <2>3, <3>1, <4>1, <4>2, <4>4 DEF RowClaimed, RowsOf
    <3>2. CASE ~ (k = EndpointOf[c] /\ e = d)
      <4>1. circuit'[k][e] = circuit[k][e]
        <5>1. ASSUME k = EndpointOf[c] PROVE ClaimHalfOpen(RowsOf(c), d, f.at)[e] = circuit[k][e]
          <6>1. RowsOf(c) = circuit[k] /\ circuit[k] \in Rows
            BY <1>0, <5>1 DEF RowsOf
          <6>2. e # d
            BY <3>2, <5>1
          <6>3. DOMAIN circuit[k] = ErrorClass /\ e \in ErrorClass
            BY <6>1 DEF Rows
          <6> HIDE DEF d
          <6> QED BY ONLY <6>1, <6>2, <6>3 DEF ClaimHalfOpen
        <5> QED BY <1>0, <2>3, <5>1, OtherRowStays
      <4>2. owner'[k][e] = owner[k][e]
        BY <2>1, <2>3, <3>2, SetOwnerMove
      <4> QED BY <4>1, <4>2 DEF RowStays
    <3> QED BY <3>1, <3>2
  <2> QED BY <1>3, <2>2, <2>3 DEF Claim
<1>4. ASSUME NEW c \in Call, Release(c) PROVE RowMove(k, e)
  <2> DEFINE f == frame[c]
             d == f.lease
             g == [f EXCEPT !.lease = None]
  <2>1. pc[c] = "release" /\ d \in ErrorClass /\ f \in Frame /\ Leave(c, g, f.verdict)
    BY <1>0, <1>4 DEF Release, AtStep, Frame
  <2>2. g \in Frame /\ g.lease = None
    BY <2>1 DEF Frame
  <2>3. pc'[c] \in {"idle", "record"} /\ frame'[c].lease = None
    BY <2>1, <2>2, LeaveMove
  <2>4. CASE UNCHANGED <<circuit, owner>>
    BY <1>1, <2>4
  <2>5. CASE /\ SetRows(c, ReleaseHalfOpen(RowsOf(c), d, now))
             /\ IF RowsOf(c)[d].state = "half_open"
                THEN SetOwner(c, d, None) ELSE UNCHANGED owner
    <3>1. CASE k = EndpointOf[c] /\ e = d /\ circuit[k][e].state = "half_open"
      <4>1. circuit'[k] = ReleaseHalfOpen(circuit[k], e, now) /\ owner'[k][e] = None
        BY <2>1, <2>5, <3>1, SetRowsMove, SetOwnerMove DEF RowsOf
      <4>2. circuit'[k][e].state = "half_open" /\ circuit'[k][e].count = circuit[k][e].count
        BY <1>0, <3>1, <4>1 DEF ReleaseHalfOpen, Rows, Row
      <4> QED BY <1>4, <2>1, <2>3, <3>1, <4>1, <4>2 DEF RowReleased
    <3>2. CASE ~ (k = EndpointOf[c] /\ e = d /\ circuit[k][e].state = "half_open")
      <4>1. circuit'[k][e] = circuit[k][e]
        <5>1. ASSUME k = EndpointOf[c] PROVE ReleaseHalfOpen(RowsOf(c), d, now)[e] = circuit[k][e]
          <6>1. RowsOf(c) = circuit[k] /\ circuit[k] \in Rows
            BY <1>0, <5>1 DEF RowsOf
          <6>2. e # d \/ circuit[k][e].state # "half_open"
            BY <3>2, <5>1
          <6>3. DOMAIN circuit[k] = ErrorClass /\ e \in ErrorClass
            BY <6>1 DEF Rows
          <6> HIDE DEF d
          <6> QED BY ONLY <6>1, <6>2, <6>3 DEF ReleaseHalfOpen
        <5> QED BY <1>0, <2>5, <5>1, OtherRowStays
      <4>2. owner'[k][e] = owner[k][e]
        BY <2>1, <2>5, <3>2, SetOwnerMove DEF RowsOf
      <4> QED BY <4>1, <4>2 DEF RowStays
    <3> QED BY <3>1, <3>2
  <2> QED BY <1>4, <2>4, <2>5 DEF Release
<1>5. ASSUME NEW c \in Call, Record(c) PROVE RowMove(k, e)
  <2> DEFINE f == frame[c]
             d == f.error.class
             wait == f.error.retryAfter
  <2>1. f.error \in Failure /\ f.error # None
    BY <1>0, <1>5 DEF Record, AtStep, Frame
  <2>2. d \in ErrorClass /\ wait \in RetryAfters /\ (d # "rate_limit" => wait = None)
    BY <1>0, <2>1 DEF PathOK, FrameOK, Failure
  <2>3. CASE UNCHANGED <<circuit, owner>>
    BY <1>1, <2>3
  <2>4. CASE SetRows(c, RecordFailure(RowsOf(c), d, wait, now)) /\ SetOwner(c, d, None)
    <3>1. CASE k = EndpointOf[c] /\ e = d
      <4>1. circuit'[k] = RecordFailure(circuit[k], e, wait, now) /\ owner'[k][e] = None
        BY <2>2, <2>4, <3>1, SetRowsMove, SetOwnerMove DEF RowsOf
      <4>2. circuit'[k][e] = [state |-> StateFor(e),
                              count |-> AtMost(circuit[k][e].count + 1, FailuresToOpen),
                              until |-> now + OpenWindow(e, wait)]
        BY <1>0, <4>1 DEF RecordFailure, Rows
      <4> DEFINE new == circuit'[k][e]
      <4>3. /\ new.state = StateFor(e) /\ new.until = now + OpenWindow(e, wait)
            /\ new.count = AtMost(circuit[k][e].count + 1, FailuresToOpen)
        BY <4>2
      <4> HIDE DEF new
      <4>4. owner'[k][e] = None /\ wait \in RetryAfters /\ (e # "rate_limit" => wait = None)
        BY <2>2, <3>1, <4>1
      <4>5. Record(c) /\ EndpointOf[c] = k /\ d = e
        BY <1>5, <3>1
      <4> QED BY ONLY <4>3, <4>4, <4>5 DEF RowRecorded, new
    <3>2. CASE ~ (k = EndpointOf[c] /\ e = d)
      <4>1. circuit'[k][e] = circuit[k][e]
        <5>1. ASSUME k = EndpointOf[c] PROVE RecordFailure(RowsOf(c), d, wait, now)[e] = circuit[k][e]
          <6>1. RowsOf(c) = circuit[k] /\ circuit[k] \in Rows
            BY <1>0, <5>1 DEF RowsOf
          <6>2. e # d
            BY <3>2, <5>1
          <6>3. DOMAIN circuit[k] = ErrorClass /\ e \in ErrorClass
            BY <6>1 DEF Rows
          <6> HIDE DEF d
          <6> QED BY ONLY <6>1, <6>2, <6>3 DEF RecordFailure
        <5> QED BY <1>0, <2>4, <5>1, OtherRowStays
      <4>2. owner'[k][e] = owner[k][e]
        BY <2>2, <2>4, <3>2, SetOwnerMove
      <4> QED BY <4>1, <4>2 DEF RowStays
    <3> QED BY <3>1, <3>2
  <2> QED BY <1>5, <2>3, <2>4 DEF Record
<1>6. ASSUME NEW c \in Call, Clear(c) PROVE RowMove(k, e)
  <2>1. PICK d \in frame[c].seen :
          \/ SetRows(c, RecordSuccess(RowsOf(c), d)) /\ SetOwner(c, d, None)
          \/ UNCHANGED <<circuit, owner>>
    BY <1>6 DEF Clear
  <2>2. d \in ErrorClass
    BY <1>0 DEF Frame
  <2>3. CASE SetRows(c, RecordSuccess(RowsOf(c), d)) /\ SetOwner(c, d, None)
    <3>1. CASE k = EndpointOf[c] /\ e = d
      <4>1. circuit'[k][e] = NoRow /\ owner'[k][e] = None
        BY <1>0, <2>2, <2>3, <3>1, SetRowsMove, SetOwnerMove DEF RecordSuccess, RowsOf, Rows
      <4> QED BY <4>1 DEF RowCleared
    <3>2. CASE ~ (k = EndpointOf[c] /\ e = d)
      <4>1. circuit'[k][e] = circuit[k][e]
        BY <1>0, <2>2, <2>3, <3>2, SetRowsMove DEF RecordSuccess, RowsOf, Rows
      <4>2. owner'[k][e] = owner[k][e]
        BY <2>2, <2>3, <3>2, SetOwnerMove
      <4> QED BY <4>1, <4>2 DEF RowStays
    <3> QED BY <3>1, <3>2
  <2> QED BY <1>1, <2>1, <2>3
<1>7. ASSUME NEW r \in Request, NewRequest(r) PROVE RowMove(k, e)
  BY <1>7 DEF NewRequest, RowStays
<1>8. ASSUME NEW c \in Call,
             \/ Start(c) \/ LastResortProbe(c) \/ StopAtDeadline(c) \/ KeepLease(c)
             \/ Admit(c) \/ Reread(c) \/ Reserve(c) \/ ReserveDaily(c) \/ Unreserve(c)
             \/ Send(c) \/ RefuseAtDeadline(c) \/ RefundDaily(c) \/ Finish(c)
             \/ CommitDaily(c) \/ Wake(c) \/ Interrupt(c) \/ Succeed(c)
      PROVE  RowMove(k, e)
  <2>1. UNCHANGED <<circuit, owner>>
    BY <1>8 DEF Start, LastResortProbe, StopAtDeadline, KeepLease, Admit, Reread, Reserve,
       ReserveDaily, Unreserve, Send, RefuseAtDeadline, RefundDaily, Finish, CommitDaily,
       Wake, Interrupt, Succeed, stores, history
  <2> QED BY <1>1, <2>1
<1>9. CASE \/ Tick \/ UNCHANGED vars \/ \E r \in Request : Reprobe(r) \/ Crash(r)
  BY <1>1, <1>9 DEF Tick, vars, stores, history, Reprobe, Crash
<1> QED
  BY <1>2, <1>3, <1>4, <1>5, <1>6, <1>7, <1>8, <1>9 DEF Next, Advance

-----------------------------------------------------------------------------
(***************************************************************************)
(* Probe leases and hard blocks.                                           *)
(***************************************************************************)

\* A store that is down has met a fault.
StoresUp == faults = 0 => \A r \in Request : Up(r)

\* A row is closed, probed, or in the blocked state of its class.
RowStates == \A k \in Endpoint, e \in ErrorClass :
               circuit[k][e].state \in {"closed", "half_open", StateFor(e)}

\* The owner of a probe claimed a row that is half open since; as long as the
\* stores work, it holds the lease until it gives it back or has used it.
OwnerInv == \A k \in Endpoint, e \in ErrorClass :
  LET c == owner[k][e] IN
  c # None => /\ EndpointOf[c] = k
              /\ circuit[k][e].state = "half_open"
              /\ faults = 0 => IF pc[c] = "idle" THEN frame[c].probed ELSE frame[c].lease = e

\* A call that has passed the circuit rows found every hard block expired; one
\* that stands now was written since.
HardInv == faults = 0 =>
  \A c \in Call, e \in {"auth", "quota"} :
    ~ Before(c) /\ RowsOf(c)[e].state = StateFor(e) =>
      \/ RowsOf(c)[e].until <= frame[c].at
      \/ frame[c].at <= RowsOf(c)[e].until - OpenSeconds[e]

CircuitInv == PathInv /\ StoresUp /\ RowStates /\ OwnerInv /\ HardInv

\* Faults are counted, and a store goes down by one.
LEMMA FaultsMove ==
  ASSUME PathInv, [Next]_vars
  PROVE  /\ faults' = 0 => faults = 0
         /\ StoresUp => StoresUp'
<1>0. faults \in Nat /\ downSince \in [Request -> Nat \cup {None}]
  BY DEF PathInv, TypeInv, TypeOK
<1>1. ASSUME NEW c \in Call, NEW ok, Transaction(c, ok)
      PROVE  (faults' = 0 => faults = 0) /\ (StoresUp => StoresUp')
  BY <1>0, <1>1 DEF Transaction, StoresUp, Up
<1>2. ASSUME UNCHANGED <<faults, downSince>>
      PROVE  (faults' = 0 => faults = 0) /\ (StoresUp => StoresUp')
  BY <1>2 DEF StoresUp, Up
<1>3. ASSUME NEW c \in Call,
             \/ Start(c) \/ LastResortProbe(c) \/ StopAtDeadline(c) \/ KeepLease(c)
             \/ Reserve(c) \/ Unreserve(c) \/ Send(c) \/ RefuseAtDeadline(c) \/ Finish(c)
             \/ Wake(c) \/ Interrupt(c) \/ Succeed(c)
      PROVE  UNCHANGED <<faults, downSince>>
  BY <1>3 DEF Start, LastResortProbe, StopAtDeadline, KeepLease, Reserve, Unreserve, Send,
     RefuseAtDeadline, Finish, Wake, Interrupt, Succeed, stores
<1>4. ASSUME NEW c \in Call,
             \/ Expire(c) \/ Admit(c) \/ Claim(c) \/ Reread(c) \/ ReserveDaily(c)
             \/ RefundDaily(c) \/ CommitDaily(c) \/ Release(c) \/ Record(c) \/ Clear(c)
      PROVE  \E ok : Transaction(c, ok)
  BY <1>4 DEF Expire, Admit, Claim, Reread, ReserveDaily, RefundDaily, CommitDaily, Release,
     Record, Clear
<1>5. ASSUME NEW r \in Request, NewRequest(r) \/ Reprobe(r) \/ Crash(r)
      PROVE  (faults' = 0 => faults = 0) /\ (StoresUp => StoresUp')
  BY <1>0, <1>5 DEF NewRequest, Reprobe, Crash, StoresUp, Up
<1>6. CASE Tick \/ UNCHANGED vars
  BY <1>2, <1>6 DEF Tick, vars, stores
<1> QED BY <1>1, <1>2, <1>3, <1>4, <1>5, <1>6 DEF Next, Advance

LEMMA RowStatesStep ==
  ASSUME PathInv, RowStates, [Next]_vars
  PROVE  RowStates'
<1>1. ASSUME NEW k \in Endpoint, NEW e \in ErrorClass
      PROVE  circuit'[k][e].state \in {"closed", "half_open", StateFor(e)}
  <2>1. RowMove(k, e)
    BY RowMoves
  <2>2. circuit[k][e].state \in {"closed", "half_open", StateFor(e)}
    BY DEF RowStates
  <2> QED
    BY <2>1, <2>2
    DEF RowMove, RowStays, RowClaimed, RowRecorded, RowCleared, RowReleased, RowExpired, NoRow
<1> QED BY <1>1 DEF RowStates

LEMMA OwnerStep ==
  ASSUME CircuitInv, [Next]_vars
  PROVE  OwnerInv'
<1>0. PathInv
  BY DEF CircuitInv
<1>1. SUFFICES ASSUME NEW k \in Endpoint, NEW e \in ErrorClass, NEW c, c = owner'[k][e], c # None
               PROVE  /\ EndpointOf[c] = k
                      /\ circuit'[k][e].state = "half_open"
                      /\ faults' = 0 => IF pc'[c] = "idle" THEN frame'[c].probed
                                                          ELSE frame'[c].lease = e
  BY DEF OwnerInv
<1>2. RowMove(k, e)
  BY <1>0, RowMoves
<1>3. CASE RowClaimed(k, e)
  BY <1>1, <1>3 DEF RowClaimed
<1>4. CASE RowRecorded(k, e) \/ RowCleared(k, e) \/ RowReleased(k, e)
  BY <1>1, <1>4 DEF RowRecorded, RowCleared, RowReleased
<1>5. CASE RowExpired(k, e)
  BY <1>1, <1>5 DEF RowExpired, CircuitInv, OwnerInv
<1>6. CASE RowStays(k, e)
  <2>1. /\ owner[k][e] = c /\ c \in Call /\ EndpointOf[c] = k
        /\ circuit[k][e].state = "half_open" /\ circuit'[k][e].state = "half_open"
    BY <1>1, <1>6 DEF RowStays, CircuitInv, OwnerInv, PathInv, TypeInv, TypeOK
  <2>2. ASSUME faults' = 0
        PROVE  IF pc'[c] = "idle" THEN frame'[c].probed ELSE frame'[c].lease = e
    <3>1. IF pc[c] = "idle" THEN frame[c].probed ELSE frame[c].lease = e
      BY <1>0, <1>1, <2>1, <2>2, FaultsMove DEF CircuitInv, OwnerInv
    <3>2. e # None
      BY StoreAssumption
    <3>3. PathOK(c, pc[c], frame[c], result[c], now) /\ StoresUp
      BY <1>0, <2>1 DEF CircuitInv, PathInv, Paths
    <3>4. Moves(c)
      BY <1>0, <2>1, CallMoves
    <3>5. CASE Begins(c)
      BY <3>1, <3>3, <3>5 DEF Begins, PathOK, FrameOK, PaidAt, Stopped, Skips, CircuitSkips
    <3>6. CASE Releases(c)
      BY <1>1, <2>1, <2>2, <3>1, <3>3, <3>6 DEF Releases, StoresUp, RowsOf
    <3>7. CASE Resets(c)
      BY <1>1, <2>2, <3>7 DEF Resets
    <3>8. CASE Stays(c) \/ Goes(c) \/ Admitted(c) \/ Claimed(c) \/ Returns(c)
      BY <3>1, <3>2, <3>8 DEF Stays, Goes, Admitted, Claimed, Returns
    <3> QED BY <3>4, <3>5, <3>6, <3>7, <3>8 DEF Moves
  <2> QED BY <2>1, <2>2
<1> QED BY <1>2, <1>3, <1>4, <1>5, <1>6 DEF RowMove

\* The window of a failure without a Retry-After is that of its class.
LEMMA OpenWindowBounds ==
  ASSUME NEW e \in ErrorClass, NEW wait \in Nat \cup {None}
  PROVE  /\ OpenWindow(e, wait) \in Nat \ {0}
         /\ wait = None => OpenWindow(e, wait) = OpenSeconds[e]
BY StoreAssumption DEF OpenWindow, AtMost, AtLeast

LEMMA HardStep ==
  ASSUME CircuitInv, [Next]_vars
  PROVE  HardInv'
<1>0. PathInv /\ now \in Nat
  BY DEF CircuitInv, PathInv, TypeInv, TypeOK
<1>1. SUFFICES ASSUME faults' = 0, NEW c \in Call, NEW e \in {"auth", "quota"},
                      ~ Before(c)', circuit'[EndpointOf[c]][e].state = StateFor(e)
               PROVE  \/ circuit'[EndpointOf[c]][e].until <= frame'[c].at
                      \/ frame'[c].at <= circuit'[EndpointOf[c]][e].until - OpenSeconds[e]
  BY DEF HardInv, RowsOf
<1> DEFINE k == EndpointOf[c]
<1>2. k \in Endpoint /\ e \in ErrorClass /\ frame[c].at \in Nat
  BY <1>0, EngineAssumption DEF ErrorClass, HealthClass, PathInv, TypeInv, CallsOK, Frame
<1>3. Moves(c) /\ RowMove(k, e) /\ faults = 0
  BY <1>0, <1>1, <1>2, CallMoves, RowMoves, FaultsMove
<1>4. CASE Admitted(c)
  <2>1. /\ circuit'[k][e] = circuit[k][e] /\ frame'[c].at = now
        /\ Active(RowsOf(c), now) = {}
    BY <1>1, <1>4 DEF Admitted, CircuitInv, StoresUp
  <2>2. e \in Opened(RowsOf(c))
    BY <1>1, <2>1 DEF Opened, RowsOf, StateFor, HealthClass
  <2>3. ~ (circuit[k][e].until > now)
    BY <2>1, <2>2 DEF Active, RowsOf
  <2>4. circuit[k][e].until \in Nat
    BY <1>0, <1>2 DEF PathInv, TypeInv, TypeOK, Rows, Row
  <2> QED BY <1>0, <2>1, <2>3, <2>4
<1>5. CASE ~ Before(c) /\ frame'[c].at = frame[c].at
  <2>1. CASE RowStays(k, e)
    BY <1>1, <1>3, <1>5, <2>1 DEF RowStays, CircuitInv, HardInv, RowsOf
  <2>2. CASE RowRecorded(k, e)
    <3>1. circuit'[k][e].until = now + OpenSeconds[e]
      BY <1>2, <2>2, OpenWindowBounds DEF RowRecorded
    <3>2. frame[c].at <= now
      BY <1>0 DEF PathInv, Paths, PathOK, FrameOK
    <3>3. OpenSeconds[e] \in Nat
      BY <1>2, StoreAssumption
    <3> QED BY <1>0, <1>2, <1>5, <3>1, <3>2, <3>3
  <2>3. CASE RowClaimed(k, e) \/ RowCleared(k, e) \/ RowReleased(k, e)
    BY <1>1, <2>3 DEF RowClaimed, RowCleared, RowReleased, NoRow, StateFor
  <2>4. CASE RowExpired(k, e)
    BY <1>1, <2>4 DEF RowExpired, StateFor
  <2> QED BY <1>3, <2>1, <2>2, <2>3, <2>4 DEF RowMove
<1>6. CASE Stays(c) \/ Goes(c) \/ Claimed(c)
  BY <1>1, <1>5, <1>6 DEF Stays, Goes, Claimed, Before
<1>7. CASE Begins(c) \/ Releases(c) \/ Returns(c) \/ Resets(c)
  BY <1>1, <1>7 DEF Begins, Releases, Returns, Resets, Before
<1> QED BY <1>3, <1>4, <1>6, <1>7 DEF Moves

LEMMA CircuitStep == CircuitInv /\ [Next]_vars => CircuitInv'
<1> SUFFICES ASSUME CircuitInv, [Next]_vars PROVE CircuitInv'
  OBVIOUS
<1>1. PathInv' /\ StoresUp' /\ RowStates'
  BY PathStep, FaultsMove, RowStatesStep DEF CircuitInv
<1> QED BY <1>1, OwnerStep, HardStep DEF CircuitInv

LEMMA CircuitInit == Init => CircuitInv
<1> SUFFICES ASSUME Init PROVE CircuitInv
  OBVIOUS
<1>1. StoresUp /\ RowStates /\ OwnerInv
  BY DEF Init, StoresUp, Up, RowStates, NoRow, OwnerInv
<1>2. HardInv
  BY DEF Init, HardInv, Before
<1> QED BY <1>1, <1>2, PathInit DEF CircuitInv

LEMMA CircuitAlways == Spec => []CircuitInv
BY CircuitInit, CircuitStep, PTL DEF Spec

\* A probe lease that was claimed but never used comes back before its call
\* ends, on every way out of execute, as long as the store can be written.
THEOREM UnusedLeasesReturn == Spec => []UnusedLeaseReturned
<1>1. CircuitInv => UnusedLeaseReturned
  BY DEF CircuitInv, OwnerInv, UnusedLeaseReturned
<1> QED BY <1>1, CircuitAlways, PTL

\* While an account is blocked, only calls admitted no later than the block
\* was written may still send, the last-resort probe included.
THEOREM HardBlocksHold == Spec => []HardBlockHolds
<1>1. CircuitInv => HardBlockHolds
  <2> SUFFICES ASSUME CircuitInv, NEW c \in MaySend, NEW e \in {"auth", "quota"}, faults = 0,
                      RowsOf(c)[e].state = StateFor(e), RowsOf(c)[e].until > now
               PROVE  frame[c].at <= RowsOf(c)[e].until - OpenSeconds[e]
    BY DEF HardBlockHolds
  <2>1. c \in Call /\ ~ Before(c)
    BY DEF MaySend, Before
  <2>2. frame[c].at <= now /\ frame[c].at \in Nat /\ now \in Nat
    BY <2>1 DEF CircuitInv, PathInv, Paths, PathOK, FrameOK, TypeInv, TypeOK, Frame
  <2>3. RowsOf(c)[e].until \in Nat
    BY <2>1, EngineAssumption
    DEF CircuitInv, PathInv, TypeInv, TypeOK, RowsOf, Rows, Row, ErrorClass, HealthClass
  <2>4. \/ RowsOf(c)[e].until <= frame[c].at
        \/ frame[c].at <= RowsOf(c)[e].until - OpenSeconds[e]
    BY <2>1 DEF CircuitInv, HardInv
  <2> QED BY <2>2, <2>3, <2>4
<1> QED BY <1>1, CircuitAlways, PTL

-----------------------------------------------------------------------------
(***************************************************************************)
(* Probation.  Requests that make no last-resort probe never end an open   *)
(* window early; then a blip bucket is claimed only after it had opened:   *)
(* between the admission that saw it open and the claim, it may be cleared *)
(* and start again, but its new window has not expired.                    *)
(***************************************************************************)
ClaimsOpened ==
  \A c \in Call :
    pc[c] = "claim" /\ frame[c].target \in BlipClass =>
      LET row == RowsOf(c)[frame[c].target] IN
      row.state = "closed" \/ row.count = FailuresToOpen \/ row.until > frame[c].at

BlipInv ==
  /\ CircuitInv
  /\ \A c \in Call : pc[c] # "expire"
  /\ NoProbationForABlip
  /\ ClaimsOpened

LEMMA BlipStep == ~LastResort /\ BlipInv /\ [Next]_vars => BlipInv'
<1> SUFFICES ASSUME ~LastResort, BlipInv, [Next]_vars PROVE BlipInv'
  OBVIOUS
<1>0. CircuitInv /\ PathInv /\ now \in Nat /\ BlipClass \subseteq ErrorClass
  BY DEF BlipInv, CircuitInv, PathInv, TypeInv, TypeOK, BlipClass, ErrorClass, HealthClass
<1>1. CircuitInv'
  BY <1>0, CircuitStep
<1>2. ASSUME NEW c \in Call PROVE pc'[c] # "expire"
  <2>1. Moves(c)
    BY <1>0, CallMoves
  <2> QED
    BY <2>1 DEF BlipInv, Moves, Stays, Begins, Goes, Admitted, Claimed, Releases, Returns, Resets
<1>3. ASSUME NEW c \in Call, pc[c] = "claim", frame[c].target \in BlipClass,
             CanClaim(RowsOf(c), frame[c].target, frame[c].at)
      PROVE  RowsOf(c)[frame[c].target].count = FailuresToOpen
  <2>1. RowsOf(c) \in Rows /\ frame[c].at \in Nat
    BY <1>0, EngineAssumption DEF PathInv, TypeInv, TypeOK, CallsOK, RowsOf, Frame
  <2>2. RowsOf(c)[frame[c].target].until \in Nat
    BY <1>0, <1>3, <2>1 DEF Rows, Row
  <2> QED BY <1>3, <2>1, <2>2 DEF BlipInv, ClaimsOpened, CanClaim
<1>4. ASSUME NEW k \in Endpoint, NEW e \in BlipClass, circuit'[k][e].state = "half_open"
      PROVE  circuit'[k][e].count = FailuresToOpen
  <2>1. RowMove(k, e)
    BY <1>0, RowMoves
  <2>2. circuit[k][e].state = "half_open" => circuit[k][e].count = FailuresToOpen
    BY DEF BlipInv, NoProbationForABlip
  <2>3. CASE RowClaimed(k, e)
    BY <1>3, <2>3 DEF RowClaimed, RowsOf
  <2>4. CASE RowRecorded(k, e) \/ RowCleared(k, e)
    BY <1>4, <2>4 DEF RowRecorded, RowCleared, StateFor, NoRow
  <2>5. CASE RowStays(k, e) \/ RowReleased(k, e) \/ RowExpired(k, e)
    BY <1>4, <2>2, <2>5 DEF RowStays, RowReleased, RowExpired
  <2> QED BY <2>1, <2>3, <2>4, <2>5 DEF RowMove
<1>5. ASSUME NEW c \in Call, pc'[c] = "claim", frame'[c].target \in BlipClass
      PROVE  LET row == circuit'[EndpointOf[c]][frame'[c].target] IN
             row.state = "closed" \/ row.count = FailuresToOpen \/ row.until > frame'[c].at
  <2> DEFINE k == EndpointOf[c]
             e == frame'[c].target
  <2>1. k \in Endpoint /\ e \in ErrorClass /\ circuit[k][e] \in Row
    BY <1>0, <1>5, EngineAssumption DEF CircuitInv, PathInv, TypeInv, TypeOK, Rows
  <2>2. Moves(c) /\ RowMove(k, e)
    BY <1>0, <2>1, CallMoves, RowMoves
  <2>3. Stays(c) \/ Admitted(c)
    BY <1>5, <2>2 DEF Moves, Begins, Goes, Claimed, Releases, Returns, Resets
  <2>4. CASE Admitted(c)
    <3>1. Expired(RowsOf(c), now) \subseteq HealthClass
      BY DEF Expired, Opened
    <3>2. e \in Expired(RowsOf(c), now)
      BY <1>5, <2>4, <3>1, FirstOfType DEF Admitted
    <3>3. /\ circuit[k][e].state # "closed"
          /\ circuit[k][e].state = "open" => ~ (circuit[k][e].count < FailuresToOpen)
      BY <1>5, <3>2 DEF Expired, Opened, Threshold, RowsOf
    <3>4. circuit[k][e].count \in 0 .. FailuresToOpen /\ FailuresToOpen \in Nat
      BY <2>1, StoreAssumption DEF Row
    <3>5. circuit[k][e].state \in {"closed", "half_open", "open"}
      BY <1>0, <1>5, <2>1 DEF CircuitInv, RowStates, StateFor, BlipClass
    <3>6. circuit[k][e].state = "half_open" => circuit[k][e].count = FailuresToOpen
      BY <1>5, <2>1 DEF BlipInv, NoProbationForABlip
    <3>7. circuit'[k][e] = circuit[k][e]
      BY <2>4 DEF Admitted
    <3> QED BY <3>3, <3>4, <3>5, <3>6, <3>7
  <2>5. CASE Stays(c)
    <3>1. /\ pc[c] = "claim" /\ frame[c].target = e /\ frame'[c].at = frame[c].at
          /\ \/ circuit[k][e].state = "closed" \/ circuit[k][e].count = FailuresToOpen
             \/ circuit[k][e].until > frame[c].at
      BY <1>5, <2>5 DEF Stays, BlipInv, ClaimsOpened, RowsOf
    <3>2. CASE RowClaimed(k, e)
      BY <1>3, <1>5, <3>2 DEF RowClaimed, RowsOf
    <3>3. CASE RowRecorded(k, e)
      <4>1. PICK wait \in Nat \cup {None} : circuit'[k][e].until = now + OpenWindow(e, wait)
        BY <3>3, EngineAssumption DEF RowRecorded
      <4>2. OpenWindow(e, wait) \in Nat \ {0}
        BY <2>1, OpenWindowBounds
      <4>3. frame[c].at <= now /\ frame[c].at \in Nat
        BY <1>0 DEF PathInv, Paths, PathOK, FrameOK, TypeInv, CallsOK, Frame
      <4> QED BY <1>0, <3>1, <4>1, <4>2, <4>3
    <3>4. CASE RowReleased(k, e)
      BY <1>5, <2>1, <3>4 DEF RowReleased, BlipInv, NoProbationForABlip
    <3>5. CASE RowCleared(k, e)
      BY <3>5 DEF RowCleared, NoRow
    <3>6. CASE RowStays(k, e)
      BY <3>1, <3>6 DEF RowStays
    <3>7. CASE RowExpired(k, e)
      BY <3>7 DEF RowExpired, BlipInv
    <3> QED BY <2>2, <3>2, <3>3, <3>4, <3>5, <3>6, <3>7 DEF RowMove
  <2> QED BY <2>3, <2>4, <2>5
<1>6. NoProbationForABlip'
  BY <1>4 DEF NoProbationForABlip
<1>7. ClaimsOpened'
  BY <1>5 DEF ClaimsOpened, RowsOf
<1> QED BY <1>1, <1>2, <1>6, <1>7 DEF BlipInv

\* Single blips never put a provider on probation, as long as requests make no
\* last-resort probes: whatever is cleared and recorded between an admission
\* and its claim, the bucket that is claimed had opened.
THEOREM NoProbation == ASSUME ~LastResort PROVE Spec => []NoProbationForABlip
<1>1. Init => BlipInv
  BY CircuitInit DEF BlipInv, NoProbationForABlip, ClaimsOpened, Init, NoRow, BlipClass,
     ErrorClass, HealthClass
<1>2. BlipInv /\ [Next]_vars => BlipInv'
  BY BlipStep
<1>3. BlipInv => NoProbationForABlip
  BY DEF BlipInv
<1> QED BY <1>1, <1>2, <1>3, PTL DEF Spec

-----------------------------------------------------------------------------
(***************************************************************************)
(* One prober.  While the lease of a prober has neither run out nor been   *)
(* undercut, its row is closed by a success of another call, or stays      *)
(* blocked at least as long as the lease.                                  *)
(***************************************************************************)
ProbeInv ==
  /\ PathInv
  /\ OneProber
  /\ \A c \in Call \ exposed : Probing(c) =>
       LET row == RowsOf(c)[frame[c].lease] IN
       /\ now < frame[c].leaseEnd
       /\ row.state = "closed" \/ row.until >= frame[c].leaseEnd

LEMMA ProbeStep ==
  ASSUME ProbeInv, Next, Watch
  PROVE  ProbeInv'
<1>0. PathInv /\ PathInv' /\ now \in Nat /\ now' \in Nat /\ [Next]_vars
  BY PathStep DEF ProbeInv, PathInv, TypeInv, TypeOK
<1>1. ASSUME NEW c \in Call
      PROVE  /\ EndpointOf[c] \in Endpoint /\ RowsOf(c) \in Rows
             /\ frame[c] \in Frame /\ frame'[c] \in Frame
             /\ PathOK(c, pc[c], frame[c], result[c], now) /\ Moves(c)
  BY <1>0, CallMoves, EngineAssumption DEF PathInv, TypeInv, TypeOK, CallsOK, Paths, RowsOf
\* A call that probes after the step has claimed its lease in it, or held it before.
<1>2. ASSUME NEW c \in Call, Probing(c)'
      PROVE  \/ Claimed(c)
             \/ /\ Probing(c) /\ frame'[c].lease = frame[c].lease
                /\ frame'[c].leaseEnd = frame[c].leaseEnd
  BY <1>1, <1>2
  DEF Moves, Stays, Begins, Goes, Admitted, Releases, Returns, Resets, Probing
\* One that is not exposed after the step was not before it, and the step has
\* neither ended nor undercut its lease.
<1>3. ASSUME NEW c \in Call \ exposed', Probing(c)'
      PROVE  /\ now' < frame'[c].leaseEnd
             /\ ~ Undercut(c)
             /\ Probing(c) => c \notin exposed
  <2>1. frame'[c].leaseEnd \in Nat
    BY <1>1 DEF Frame
  <2>2. ~ (now' >= frame'[c].leaseEnd) /\ ~ Undercut(c) /\ ~ (c \in exposed /\ Probing(c))
    BY <1>3 DEF Watch
  <2> QED BY <1>0, <2>1, <2>2
\* Nobody claims the bucket of a prober that is not exposed.
<1>4. ASSUME NEW c \in Call \ exposed, NEW o \in Call, Probing(c), pc[o] = "claim",
             EndpointOf[o] = EndpointOf[c], frame[o].target = frame[c].lease,
             CanClaim(RowsOf(o), frame[o].target, frame[o].at)
      PROVE  FALSE
  <2>1. now < frame[c].leaseEnd /\ frame[c].leaseEnd \in Nat /\ frame[c].lease \in ErrorClass
    BY <1>1, <1>4 DEF ProbeInv, Probing, Frame
  <2>2. RowsOf(c)[frame[c].lease].until \in Nat
    BY <1>1, <2>1 DEF Rows, Row
  <2>3. \/ RowsOf(c)[frame[c].lease].state = "closed"
        \/ RowsOf(c)[frame[c].lease].until >= frame[c].leaseEnd
    BY <1>4 DEF ProbeInv
  <2>4. frame[o].at <= now /\ frame[o].at \in Nat
    BY <1>1 DEF PathOK, FrameOK, Frame
  <2> QED BY <1>0, <1>4, <2>1, <2>2, <2>3, <2>4 DEF CanClaim, RowsOf
<1>5. ASSUME NEW c \in Call \ exposed', NEW o \in Call \ exposed', Probing(c)', Probing(o)',
             EndpointOf[c] = EndpointOf[o], frame'[c].lease = frame'[o].lease
      PROVE  c = o
  <2>1. CASE Claimed(c) /\ Claimed(o)
    BY <1>5, <2>1 DEF Claimed
  <2>2. CASE Claimed(c) /\ ~ Claimed(o)
    <3>1. Probing(o) /\ o \notin exposed /\ frame[o].lease = frame'[o].lease
      BY <1>2, <1>3, <1>5, <2>2
    <3> QED BY <1>4, <1>5, <2>2, <3>1 DEF Claimed
  <2>3. CASE ~ Claimed(c) /\ Claimed(o)
    <3>1. Probing(c) /\ c \notin exposed /\ frame[c].lease = frame'[c].lease
      BY <1>2, <1>3, <1>5, <2>3
    <3> QED BY <1>4, <1>5, <2>3, <3>1 DEF Claimed
  <2>4. CASE ~ Claimed(c) /\ ~ Claimed(o)
    <3>1. /\ Probing(c) /\ c \notin exposed /\ frame[c].lease = frame'[c].lease
          /\ Probing(o) /\ o \notin exposed /\ frame[o].lease = frame'[o].lease
      BY <1>2, <1>3, <1>5, <2>4
    <3> QED BY <1>5, <3>1 DEF ProbeInv, OneProber
  <2> QED BY <2>1, <2>2, <2>3, <2>4
<1>6. ASSUME NEW c \in Call \ exposed', Probing(c)'
      PROVE  LET row == circuit'[EndpointOf[c]][frame'[c].lease] IN
             row.state = "closed" \/ row.until >= frame'[c].leaseEnd
  <2> DEFINE k == EndpointOf[c]
             e == frame[c].lease
  <2>1. CASE Claimed(c)
    <3>1. circuit'[k][frame'[c].lease].until = frame'[c].leaseEnd
      BY <2>1 DEF Claimed
    <3>2. frame'[c].leaseEnd \in Nat
      BY <1>1 DEF Frame
    <3> QED BY <3>1, <3>2
  <2>2. CASE ~ Claimed(c)
    <3>1. /\ Probing(c) /\ c \notin exposed
          /\ frame'[c].lease = e /\ frame'[c].leaseEnd = frame[c].leaseEnd
          /\ e \in ErrorClass /\ frame[c].leaseEnd \in Nat
      BY <1>1, <1>2, <1>3, <1>6, <2>2 DEF Probing, Frame
    <3>2. RowMove(k, e)
      BY <1>0, <1>1, <3>1, RowMoves
    <3>3. circuit[k][e].state = "closed" \/ circuit[k][e].until >= frame[c].leaseEnd
      BY <3>1 DEF ProbeInv, RowsOf
    <3>4. CASE RowClaimed(k, e)
      BY <1>4, <3>1, <3>4 DEF RowClaimed, RowsOf
    <3>5. CASE RowRecorded(k, e)
      <4>1. PICK o \in Call :
              /\ Record(o) /\ EndpointOf[o] = k /\ frame[o].error.class = e
              /\ frame[o].error.retryAfter \in RetryAfters
              /\ circuit'[k][e].until = now + OpenWindow(e, frame[o].error.retryAfter)
        BY <3>5 DEF RowRecorded
      <4>2. o # c
        BY <3>1, <4>1 DEF Record, Probing
      <4>3. ~ (now + OpenWindow(e, frame[o].error.retryAfter) < frame[c].leaseEnd)
        BY <1>3, <1>6, <4>1, <4>2 DEF Undercut
      <4>4. OpenWindow(e, frame[o].error.retryAfter) \in Nat
        BY <3>1, <4>1, EngineAssumption, OpenWindowType
      <4> QED BY <1>0, <3>1, <4>1, <4>3, <4>4
    <3>6. CASE RowReleased(k, e)
      <4>1. PICK o \in Call : /\ Release(o) /\ pc[o] = "release" /\ EndpointOf[o] = k
                              /\ frame[o].lease = e /\ pc'[o] \in {"idle", "record"}
        BY <3>6 DEF RowReleased
      <4>2. o # c
        BY <1>6, <4>1 DEF Probing
      <4>3. o \in exposed
        <5>1. Probing(o)
          BY <3>1, <4>1 DEF Probing
        <5> QED BY <3>1, <4>1, <4>2, <5>1 DEF ProbeInv, OneProber
      <4> QED BY <1>3, <1>6, <4>1, <4>2, <4>3 DEF Undercut
    <3>7. CASE RowExpired(k, e)
      <4>1. PICK o \in Call : /\ Expire(o) /\ pc[o] = "expire" /\ EndpointOf[o] = k
                              /\ frame[o].target = e /\ circuit[k][e].state = "open"
        BY <3>7 DEF RowExpired
      <4>2. o # c
        BY <3>1, <4>1 DEF Probing
      <4> QED BY <1>3, <1>6, <4>1, <4>2 DEF Undercut, RowsOf
    <3>8. CASE RowStays(k, e) \/ RowCleared(k, e)
      BY <3>1, <3>3, <3>8 DEF RowStays, RowCleared, NoRow
    <3> QED BY <3>1, <3>2, <3>4, <3>5, <3>6, <3>7, <3>8 DEF RowMove
  <2> QED BY <2>1, <2>2
<1>7. OneProber'
  BY <1>5 DEF OneProber
<1> QED BY <1>0, <1>3, <1>6, <1>7 DEF ProbeInv, RowsOf

\* At most one call at a time probes a bucket of an endpoint, as long as the
\* lease of the first has neither run out nor been undercut, by whatever calls,
\* crashes and failing stores: the claim in one transaction after the admission
\* in another is enough for that, and it is all the code does.
THEOREM OneProberHolds == WatchSpec => []OneProber
<1>1. Init /\ exposed = {} => ProbeInv
  BY PathInit DEF ProbeInv, OneProber, Init, Probing, NoFrame
<1>2. ProbeInv /\ [Next /\ Watch]_<<vars, exposed>> => ProbeInv'
  <2>1. ASSUME ProbeInv, UNCHANGED <<vars, exposed>> PROVE ProbeInv'
    <3>1. PathInv'
      BY <2>1, PathStep DEF ProbeInv
    <3> QED BY <2>1, <3>1 DEF ProbeInv, OneProber, Probing, RowsOf, vars, stores
  <2> QED BY <2>1, ProbeStep
<1>3. ProbeInv => OneProber
  BY DEF ProbeInv
<1> QED BY <1>1, <1>2, <1>3, PTL DEF WatchSpec

-----------------------------------------------------------------------------
(***************************************************************************)
(* The budgets of AttemptEngine hold for any number of calls, requests and *)
(* endpoints, any limits, any number of faults and any interleaving.       *)
(*                                                                         *)
(* Whether a limit holds depends on how many calls stand at which step, so *)
(* the inductive invariant compares the ledgers with such counts: what is  *)
(* sent or may still be sent on a reservation never exceeds the units used *)
(* or reserved, and those never exceed the limit.  The units of batches    *)
(* that were refused at the deadline are the exception: the request's own  *)
(* deadline keeps it from sending on one, and those of the day are counted *)
(* in lapsed.                                                              *)
(***************************************************************************)
\* The calls of D that stand at one of the steps S.
CountAt(p, S, D) == Cardinality({c \in D : p[c] \in S})

\* Steps at which a call holds a unit of its request, and of the day; those
\* from which it may still send on it, or still gives it back.
Holding    == {"reserveDaily", "unreserve", "call", "inflight"}
Unsent     == {"reserveDaily", "unreserve", "call"}
HoldingDay == IF DailyLimit = None THEN {}
              ELSE {"call", "inflight", "refundDaily", "commitDaily"}
UnsentDay  == {"call", "refundDaily"}
DaySteps   == {"reserveDaily", "unreserve", "refundDaily", "commitDaily"}
Outside    == Step \ (Holding \cup DaySteps \cup {"broken"})

RequestInv ==
  \A r \in Request :
    /\ budget[r].reserved = CountAt(pc, Holding, CallsOf(r))
    /\ ~Late(r) =>
         sent[r] + CountAt(pc, Unsent, CallsOf(r)) <= budget[r].used + budget[r].reserved
    /\ sent[r] <= RequestLimit
    /\ budget[r].used + budget[r].reserved <= RequestLimit

DayInv ==
  /\ CountAt(pc, HoldingDay, Call) <= daily.reserved
  /\ faults = 0 => /\ daily.reserved = CountAt(pc, HoldingDay, Call)
                   /\ \A r \in Request : Up(r)
  /\ DailyLimit # None =>
       /\ sentToday + CountAt(pc, UnsentDay, Call)
            <= daily.used + daily.reserved + lapsed
       /\ daily.used + daily.reserved <= DailyLimit

PlaceInv ==
  \A c \in Call : /\ pc[c] # "broken"
                  /\ pc[c] \in DaySteps => DailyLimit # None

BudgetInv == TypeInv /\ RequestInv /\ DayInv /\ PlaceInv
-----------------------------------------------------------------------------
(***************************************************************************)
(* Counting.                                                               *)
(***************************************************************************)

LEMMA CountType ==
  ASSUME NEW p, NEW S, NEW D \in SUBSET Call
  PROVE  CountAt(p, S, D) \in Nat
<1>1. IsFiniteSet({d \in D : p[d] \in S})
  BY EngineAssumption, FS_Subset
<1> QED BY <1>1, FS_CardinalityType DEF CountAt

\* When one call moves, the count at some steps changes by at most that call.
LEMMA CountSame ==
  ASSUME NEW p \in [Call -> Step], NEW S, NEW D \in SUBSET Call, NEW c \in Call, NEW step,
         p[c] \in S <=> step \in S
  PROVE  CountAt([p EXCEPT ![c] = step], S, D) = CountAt(p, S, D)
<1>1. {d \in D : [p EXCEPT ![c] = step][d] \in S} = {d \in D : p[d] \in S}
  OBVIOUS
<1> QED BY <1>1 DEF CountAt

LEMMA CountElsewhere ==
  ASSUME NEW p \in [Call -> Step], NEW S, NEW D \in SUBSET Call, NEW c \in Call, NEW step,
         c \notin D
  PROVE  CountAt([p EXCEPT ![c] = step], S, D) = CountAt(p, S, D)
<1>1. {d \in D : [p EXCEPT ![c] = step][d] \in S} = {d \in D : p[d] \in S}
  OBVIOUS
<1> QED BY <1>1 DEF CountAt

LEMMA CountDown ==
  ASSUME NEW p \in [Call -> Step], NEW S, NEW D \in SUBSET Call, NEW c \in D, NEW step,
         p[c] \in S, step \notin S
  PROVE  CountAt([p EXCEPT ![c] = step], S, D) = CountAt(p, S, D) - 1
<1> DEFINE P == {d \in D : p[d] \in S}
<1>1. {d \in D : [p EXCEPT ![c] = step][d] \in S} = P \ {c} /\ c \in P
  OBVIOUS
<1>2. IsFiniteSet(P)
  BY EngineAssumption, FS_Subset
<1>3. Cardinality(P \ {c}) = Cardinality(P) - 1
  BY <1>1, <1>2, FS_RemoveElement
<1>4. CountAt([p EXCEPT ![c] = step], S, D) = Cardinality(P \ {c})
  BY <1>1 DEF CountAt
<1> QED BY <1>3, <1>4 DEF CountAt

LEMMA CountUp ==
  ASSUME NEW p \in [Call -> Step], NEW S, NEW D \in SUBSET Call, NEW c \in D, NEW step,
         p[c] \notin S, step \in S
  PROVE  CountAt([p EXCEPT ![c] = step], S, D) = CountAt(p, S, D) + 1
<1> DEFINE P == {d \in D : p[d] \in S}
<1>1. {d \in D : [p EXCEPT ![c] = step][d] \in S} = P \cup {c} /\ c \notin P
  OBVIOUS
<1>2. IsFiniteSet(P)
  BY EngineAssumption, FS_Subset
<1> QED BY <1>1, <1>2, FS_AddElement DEF CountAt

\* A call that stands at one of the steps is counted.
LEMMA CountPositive ==
  ASSUME NEW p \in [Call -> Step], NEW S, NEW D \in SUBSET Call, NEW c \in D, p[c] \in S
  PROVE  CountAt(p, S, D) >= 1
<1> DEFINE P == {d \in D : p[d] \in S}
<1>1. IsFiniteSet(P) /\ c \in P
  BY EngineAssumption, FS_Subset
<1>2. Cardinality(P) \in Nat /\ Cardinality(P) # 0
  BY <1>1, FS_EmptySet, FS_CardinalityType
<1> QED BY <1>2 DEF CountAt

\* When some calls fall idle, no count at other steps grows.
LEMMA CountFall ==
  ASSUME NEW p \in [Call -> Step], NEW S, NEW D \in SUBSET Call, NEW fallen \in SUBSET Call,
         "idle" \notin S
  PROVE  CountAt([c \in Call |-> IF c \in fallen THEN "idle" ELSE p[c]], S, D)
           <= CountAt(p, S, D)
<1> DEFINE q == [c \in Call |-> IF c \in fallen THEN "idle" ELSE p[c]]
           P == {d \in D : p[d] \in S}
           Q == {d \in D : q[d] \in S}
<1>1. Q \subseteq P
  OBVIOUS
<1>2. IsFiniteSet(P)
  BY EngineAssumption, FS_Subset
<1>3. Cardinality(Q) <= Cardinality(P)
  BY <1>1, <1>2, FS_Subset
<1> QED BY <1>3 DEF CountAt

LEMMA CountFallen ==
  ASSUME NEW p \in [Call -> Step], NEW S, NEW D \in SUBSET Call, NEW fallen \in SUBSET Call,
         "idle" \notin S, D \subseteq fallen
  PROVE  CountAt([c \in Call |-> IF c \in fallen THEN "idle" ELSE p[c]], S, D) = 0
<1> DEFINE q == [c \in Call |-> IF c \in fallen THEN "idle" ELSE p[c]]
<1>1. {d \in D : q[d] \in S} = {}
  OBVIOUS
<1> QED BY <1>1, FS_EmptySet DEF CountAt

LEMMA CountUnfallen ==
  ASSUME NEW p \in [Call -> Step], NEW S, NEW D \in SUBSET Call, NEW fallen \in SUBSET Call,
         D \cap fallen = {}
  PROVE  CountAt([c \in Call |-> IF c \in fallen THEN "idle" ELSE p[c]], S, D)
           = CountAt(p, S, D)
<1> DEFINE q == [c \in Call |-> IF c \in fallen THEN "idle" ELSE p[c]]
<1>1. {d \in D : q[d] \in S} = {d \in D : p[d] \in S}
  OBVIOUS
<1> QED BY <1>1 DEF CountAt

-----------------------------------------------------------------------------
(***************************************************************************)
(* Where the building blocks take a call, and what a transaction costs.    *)
(***************************************************************************)
LEMMA LeaveMoves ==
  ASSUME NEW c \in Call, NEW f, NEW end, Leave(c, f, end)
  PROVE  \E step \in Outside : pc' = [pc EXCEPT ![c] = step]
<1>1. "record" \in Outside /\ "idle" \in Outside
  BY DEF Outside, Step, Holding, DaySteps
<1> QED BY <1>1 DEF Leave, Goto, Return

LEMMA GiveBackMoves ==
  ASSUME NEW c \in Call, NEW f, NEW end, GiveBackAndLeave(c, f, end)
  PROVE  \E step \in Outside : pc' = [pc EXCEPT ![c] = step]
<1>1. "release" \in Outside
  BY DEF Outside, Step, Holding, DaySteps
<1> QED BY <1>1, LeaveMoves DEF GiveBackAndLeave, Goto

LEMMA SettleMoves ==
  ASSUME NEW c \in Call, NEW f, Settled(f), Settle(c, f)
  PROVE  \E step \in Outside : pc' = [pc EXCEPT ![c] = step]
<1>1. "succeed" \in Outside /\ "sleep" \in Outside
  BY DEF Outside, Step, Holding, DaySteps
<1>2. CASE f.verdict = "success"
  BY <1>1, <1>2 DEF Settle, Goto
<1>3. CASE f.verdict \in {"raised", "cancelled"}
  BY <1>3, GiveBackMoves DEF Settle
<1>4. CASE f.verdict = "retry"
  BY <1>1, <1>4 DEF Settle, Goto
<1>5. CASE f.verdict = "failed"
  BY <1>5, LeaveMoves, GiveBackMoves DEF Settle
<1> QED BY <1>2, <1>3, <1>4, <1>5 DEF Settled

\* While no fault has happened every transaction runs and every store is up.
LEMMA TransactionFaults ==
  ASSUME BudgetInv, NEW c \in Call, NEW ok \in BOOLEAN, Transaction(c, ok)
  PROVE  faults' = 0 => ok /\ faults = 0 /\ downSince' = downSince
<1>1. faults \in Nat /\ RequestOf[c] \in Request
  BY EngineAssumption DEF BudgetInv, TypeInv, TypeOK
<1>2. faults = 0 => Up(RequestOf[c])
  BY <1>1 DEF BudgetInv, DayInv
<1> QED BY <1>1, <1>2 DEF Transaction

\* A step between two places where no unit is held, with no ledger touched.
LEMMA QuietStep ==
  ASSUME BudgetInv, NEW c \in Call, pc[c] \in Outside,
         NEW step \in Outside, pc' = [pc EXCEPT ![c] = step],
         UNCHANGED <<now, deadline, daily, budget, sent, sentToday, lapsed>>,
         faults' = 0 => faults = 0 /\ downSince' = downSince
  PROVE  RequestInv' /\ DayInv' /\ PlaceInv'
<1> USE DEF BudgetInv
<1>1. pc \in [Call -> Step]
  BY DEF TypeInv, TypeOK
<1>2. /\ \A S \in {Holding, Unsent, HoldingDay, UnsentDay} : pc[c] \notin S /\ step \notin S
      /\ step # "broken" /\ step \notin DaySteps
  BY DEF Outside, Holding, Unsent, HoldingDay, UnsentDay, DaySteps
<1>3. \A S \in {Holding, Unsent, HoldingDay, UnsentDay}, D \in SUBSET Call :
        CountAt(pc', S, D) = CountAt(pc, S, D)
  <2> TAKE S \in {Holding, Unsent, HoldingDay, UnsentDay}, D \in SUBSET Call
  <2>1. pc[c] \in S <=> step \in S
    BY <1>2
  <2> QED BY <1>1, <2>1, CountSame, ZenonT(40)
<1>4. \A r \in Request : CallsOf(r) \in SUBSET Call
  BY DEF CallsOf
<1>5. RequestInv'
  BY <1>3, <1>4 DEF RequestInv, Late
<1>6. DayInv'
  BY <1>3 DEF DayInv, Up
<1>7. PlaceInv'
  BY <1>1, <1>2 DEF PlaceInv
<1> QED BY <1>5, <1>6, <1>7

\* What a call at a step adds to the count at some steps.
Unit(step, S) == IF step \in S THEN 1 ELSE 0

LEMMA CountMove ==
  ASSUME NEW p \in [Call -> Step], NEW S, NEW D \in SUBSET Call, NEW c \in D, NEW step
  PROVE  CountAt([p EXCEPT ![c] = step], S, D)
           = CountAt(p, S, D) - Unit(p[c], S) + Unit(step, S)
<1>1. CountAt(p, S, D) \in Nat
  BY CountType
<1>2. CASE p[c] \in S <=> step \in S
  <2>1. CountAt([p EXCEPT ![c] = step], S, D) = CountAt(p, S, D)
    BY <1>2, CountSame, ZenonT(40)
  <2> QED BY <1>1, <1>2, <2>1 DEF Unit
<1>3. CASE p[c] \in S /\ step \notin S
  <2>1. CountAt([p EXCEPT ![c] = step], S, D) = CountAt(p, S, D) - 1
    BY <1>3, CountDown
  <2> QED BY <1>1, <1>3, <2>1 DEF Unit
<1>4. CASE p[c] \notin S /\ step \in S
  <2>1. CountAt([p EXCEPT ![c] = step], S, D) = CountAt(p, S, D) + 1
    BY <1>4, CountUp
  <2> QED BY <1>1, <1>4, <2>1 DEF Unit
<1> QED BY <1>2, <1>3, <1>4

\* What a move of one call must do to its request's ledger.
LEMMA RequestMoves ==
  ASSUME BudgetInv, NEW c \in Call, NEW step, pc' = [pc EXCEPT ![c] = step],
         UNCHANGED <<now, deadline>>,
         NEW ledger \in Ledger, NEW n \in Nat,
         budget' = [budget EXCEPT ![RequestOf[c]] = ledger],
         sent' = [sent EXCEPT ![RequestOf[c]] = n],
         ledger.reserved = budget[RequestOf[c]].reserved - Unit(pc[c], Holding)
                             + Unit(step, Holding),
         Late(RequestOf[c]) => n = sent[RequestOf[c]],
         ~Late(RequestOf[c]) =>
           n - sent[RequestOf[c]] + Unit(step, Unsent) - Unit(pc[c], Unsent)
             <= (ledger.used + ledger.reserved)
                  - (budget[RequestOf[c]].used + budget[RequestOf[c]].reserved),
         ledger.used + ledger.reserved <= RequestLimit
  PROVE  RequestInv'
<1> USE DEF BudgetInv
<1>1. /\ pc \in [Call -> Step] /\ budget \in [Request -> Ledger] /\ sent \in [Request -> Nat]
      /\ RequestOf[c] \in Request
  BY EngineAssumption DEF TypeInv, TypeOK
<1>2. \A r \in Request : CallsOf(r) \in SUBSET Call /\ (c \in CallsOf(r) <=> r = RequestOf[c])
  BY DEF CallsOf
<1> SUFFICES ASSUME NEW r \in Request
             PROVE  /\ budget'[r].reserved = CountAt(pc', Holding, CallsOf(r))
                    /\ ~Late(r)' => sent'[r] + CountAt(pc', Unsent, CallsOf(r))
                                      <= budget'[r].used + budget'[r].reserved
                    /\ sent'[r] <= RequestLimit
                    /\ budget'[r].used + budget'[r].reserved <= RequestLimit
  BY DEF RequestInv, CallsOf
<1>3. CountAt(pc, Holding, CallsOf(r)) \in Nat /\ CountAt(pc, Unsent, CallsOf(r)) \in Nat
  BY <1>2, CountType
<1>7. Late(r)' <=> Late(r)
  BY DEF Late
<1>4. /\ budget[r].reserved = CountAt(pc, Holding, CallsOf(r))
      /\ ~Late(r) =>
           sent[r] + CountAt(pc, Unsent, CallsOf(r)) <= budget[r].used + budget[r].reserved
      /\ sent[r] <= RequestLimit
      /\ budget[r].used + budget[r].reserved <= RequestLimit
      /\ budget[r] \in Ledger /\ sent[r] \in Nat
  BY <1>1 DEF RequestInv
<1>5. CASE r = RequestOf[c]
  <2>1. c \in CallsOf(r) /\ budget'[r] = ledger /\ sent'[r] = n
    BY <1>1, <1>2, <1>5
  <2>2. ASSUME NEW S
        PROVE  CountAt(pc', S, CallsOf(r))
                 = CountAt(pc, S, CallsOf(r)) - Unit(pc[c], S) + Unit(step, S)
    <3> DEFINE D == CallsOf(r)
    <3>1. pc \in [Call -> Step] /\ D \in SUBSET Call /\ c \in D
      BY <1>1, <1>2, <2>1
    <3>2. CountAt([pc EXCEPT ![c] = step], S, D)
            = CountAt(pc, S, D) - Unit(pc[c], S) + Unit(step, S)
      <4> HIDE DEF D
      <4> QED BY <3>1, CountMove
    <3> QED BY <3>2
  <2>3. ASSUME NEW x, NEW S PROVE Unit(x, S) \in Int
    BY DEF Unit
  <2>4. /\ budget[r].used \in Nat /\ budget[r].reserved \in Nat
        /\ ledger.used \in Nat /\ ledger.reserved \in Nat
    BY <1>4 DEF Ledger
  <2>5. budget'[r].reserved = CountAt(pc', Holding, CallsOf(r))
    <3>1. CountAt(pc', Holding, CallsOf(r))
            = CountAt(pc, Holding, CallsOf(r)) - Unit(pc[c], Holding) + Unit(step, Holding)
      BY <2>2
    <3> QED BY <1>4, <1>5, <2>1, <3>1
  <2>6. ~Late(r)' => sent'[r] + CountAt(pc', Unsent, CallsOf(r))
                       <= budget'[r].used + budget'[r].reserved
    <3>1. CountAt(pc', Unsent, CallsOf(r))
            = CountAt(pc, Unsent, CallsOf(r)) - Unit(pc[c], Unsent) + Unit(step, Unsent)
      BY <2>2
    <3>2. Unit(pc[c], Unsent) \in Int /\ Unit(step, Unsent) \in Int
      BY <2>3
    <3> QED BY <1>3, <1>4, <1>5, <1>7, <2>1, <2>4, <3>1, <3>2
  <2>7. sent'[r] <= RequestLimit
    <3>1. CountAt(pc', Unsent, CallsOf(r)) \in Nat
      BY <1>2, CountType
    <3> QED BY <1>4, <1>5, <1>7, <2>1, <2>4, <2>6, <3>1, EngineAssumption
  <2> QED BY <1>5, <2>1, <2>5, <2>6, <2>7
<1>6. CASE r # RequestOf[c]
  <2>1. c \notin CallsOf(r) /\ budget'[r] = budget[r] /\ sent'[r] = sent[r]
    BY <1>1, <1>2, <1>6
  <2>2. ASSUME NEW S PROVE CountAt(pc', S, CallsOf(r)) = CountAt(pc, S, CallsOf(r))
    <3> DEFINE D == CallsOf(r)
    <3>1. pc \in [Call -> Step] /\ D \in SUBSET Call /\ c \in Call /\ c \notin D
      BY <1>1, <1>2, <2>1
    <3>2. {d \in D : [pc EXCEPT ![c] = step][d] \in S} = {d \in D : pc[d] \in S}
      <4> HIDE DEF D
      <4> HIDE DEF BudgetInv
      <4> QED BY ONLY <3>1
    <3> QED BY <3>2 DEF CountAt
  <2> QED BY <1>4, <1>7, <2>1, <2>2
<1> QED BY <1>5, <1>6

\* The same of the day's ledger.
LEMMA DayMoves ==
  ASSUME BudgetInv, NEW c \in Call, NEW step, pc' = [pc EXCEPT ![c] = step],
         daily' \in Ledger, sentToday' \in Nat, lapsed' \in Nat,
         faults' = 0 => faults = 0 /\ downSince' = downSince,
         Unit(step, HoldingDay) - Unit(pc[c], HoldingDay)
           <= daily'.reserved - daily.reserved,
         faults' = 0 => Unit(step, HoldingDay) - Unit(pc[c], HoldingDay)
                          = daily'.reserved - daily.reserved,
         DailyLimit # None =>
           /\ sentToday' - sentToday + Unit(step, UnsentDay) - Unit(pc[c], UnsentDay)
                <= (daily'.used + daily'.reserved) - (daily.used + daily.reserved)
                     + (lapsed' - lapsed)
           /\ daily'.used + daily'.reserved <= DailyLimit
  PROVE  DayInv'
<1> USE DEF BudgetInv
<1>1. /\ pc \in [Call -> Step] /\ daily \in Ledger /\ sentToday \in Nat /\ lapsed \in Nat
      /\ daily.used \in Nat /\ daily.reserved \in Nat
      /\ daily'.used \in Nat /\ daily'.reserved \in Nat
  BY DEF TypeInv, TypeOK, Ledger
<1>2. /\ CountAt(pc', HoldingDay, Call)
           = CountAt(pc, HoldingDay, Call) - Unit(pc[c], HoldingDay)
               + Unit(step, HoldingDay)
      /\ CountAt(pc', UnsentDay, Call)
           = CountAt(pc, UnsentDay, Call) - Unit(pc[c], UnsentDay) + Unit(step, UnsentDay)
  <2>1. ASSUME NEW S
        PROVE  CountAt(pc', S, Call) = CountAt(pc, S, Call) - Unit(pc[c], S) + Unit(step, S)
    <3>1. pc \in [Call -> Step] /\ Call \in SUBSET Call
      BY <1>1
    <3>2. CountAt([pc EXCEPT ![c] = step], S, Call)
            = CountAt(pc, S, Call) - Unit(pc[c], S) + Unit(step, S)
      BY <3>1, CountMove
    <3> QED BY <3>2
  <2> QED BY <2>1
<1>3. CountAt(pc, HoldingDay, Call) \in Nat /\ CountAt(pc, UnsentDay, Call) \in Nat
  BY CountType
<1>4. ASSUME NEW x, NEW S PROVE Unit(x, S) \in Int
  BY DEF Unit
<1>5. CountAt(pc', HoldingDay, Call) <= daily'.reserved
  BY <1>1, <1>2, <1>3, <1>4 DEF DayInv
<1>6. ASSUME faults' = 0
      PROVE  daily'.reserved = CountAt(pc', HoldingDay, Call) /\ \A r \in Request : Up(r)'
  <2>1. daily.reserved = CountAt(pc, HoldingDay, Call) /\ \A r \in Request : Up(r)
    BY <1>6 DEF DayInv
  <2> QED BY <1>1, <1>2, <1>3, <1>4, <1>6, <2>1 DEF Up
<1>7. ASSUME DailyLimit # None
      PROVE  sentToday' + CountAt(pc', UnsentDay, Call)
               <= daily'.used + daily'.reserved + lapsed'
  <2>1. sentToday + CountAt(pc, UnsentDay, Call) <= daily.used + daily.reserved + lapsed
    BY <1>7 DEF DayInv
  <2> QED BY <1>1, <1>2, <1>3, <1>4, <1>7, <2>1
<1> QED BY <1>5, <1>6, <1>7 DEF DayInv

LEMMA PlaceMoves ==
  ASSUME BudgetInv, NEW c \in Call, NEW step, pc' = [pc EXCEPT ![c] = step],
         step # "broken", step \in DaySteps => DailyLimit # None
  PROVE  PlaceInv'
BY DEF BudgetInv, TypeInv, TypeOK, PlaceInv

\* The steps at which a call holds nothing.
LEMMA OutsideSteps ==
  Outside = {"idle", "expire", "admit", "claim", "reread", "reserve", "release", "sleep",
             "record", "succeed"}
BY DEF Outside, Step, Holding, DaySteps

-----------------------------------------------------------------------------
(***************************************************************************)
(* The invariant is inductive.                                             *)
(***************************************************************************)
LEMMA BudgetInit == Init => BudgetInv
<1> SUFFICES ASSUME Init PROVE BudgetInv
  OBVIOUS
<1>1. TypeInv
  BY TypeInit
<1>2. ASSUME NEW S, NEW D \in SUBSET Call, "idle" \notin S PROVE CountAt(pc, S, D) = 0
  <2>1. {c \in D : pc[c] \in S} = {}
    BY <1>2 DEF Init
  <2> QED BY <2>1, FS_EmptySet DEF CountAt
<1>3. "idle" \notin Holding /\ "idle" \notin Unsent /\ "idle" \notin HoldingDay
      /\ "idle" \notin UnsentDay
  BY DEF Holding, Unsent, HoldingDay, UnsentDay
<1>4. RequestInv
  <2> SUFFICES ASSUME NEW r \in Request
               PROVE  /\ budget[r].reserved = CountAt(pc, Holding, CallsOf(r))
                      /\ sent[r] + CountAt(pc, Unsent, CallsOf(r))
                           <= budget[r].used + budget[r].reserved
                      /\ sent[r] <= RequestLimit
                      /\ budget[r].used + budget[r].reserved <= RequestLimit
    BY DEF RequestInv
  <2>1. CallsOf(r) \in SUBSET Call
    BY DEF CallsOf
  <2>2. CountAt(pc, Holding, CallsOf(r)) = 0 /\ CountAt(pc, Unsent, CallsOf(r)) = 0
    BY <1>2, <1>3, <2>1
  <2>3. budget[r] = Empty /\ sent[r] = 0
    BY DEF Init
  <2> QED BY <2>2, <2>3, EngineAssumption DEF Empty
<1>5. DayInv
  <2>1. CountAt(pc, HoldingDay, Call) = 0 /\ CountAt(pc, UnsentDay, Call) = 0
    BY <1>2, <1>3
  <2>2. daily = Empty /\ sentToday = 0 /\ lapsed = 0 /\ \A r \in Request : Up(r)
    BY DEF Init, Up
  <2>3. DailyLimit # None => DailyLimit \in Nat
    BY EngineAssumption
  <2> QED BY <2>1, <2>2, <2>3 DEF DayInv, Empty
<1>6. PlaceInv
  BY DEF Init, PlaceInv, DaySteps
<1> QED BY <1>1, <1>4, <1>5, <1>6 DEF BudgetInv

\* What the invariant says of the ledgers of a call about to move.
LEMMA RequestFacts ==
  ASSUME BudgetInv, NEW c \in Call
  PROVE  /\ RequestOf[c] \in Request
         /\ budget[RequestOf[c]] \in Ledger
         /\ budget[RequestOf[c]].used \in Nat /\ budget[RequestOf[c]].reserved \in Nat
         /\ sent[RequestOf[c]] \in Nat
         /\ budget = [budget EXCEPT ![RequestOf[c]] = budget[RequestOf[c]]]
         /\ sent = [sent EXCEPT ![RequestOf[c]] = sent[RequestOf[c]]]
         /\ budget[RequestOf[c]].used + budget[RequestOf[c]].reserved <= RequestLimit
         /\ pc[c] \in Holding => budget[RequestOf[c]].reserved >= 1
<1> DEFINE r == RequestOf[c]
<1>1. /\ r \in Request /\ budget \in [Request -> Ledger] /\ sent \in [Request -> Nat]
      /\ pc \in [Call -> Step]
  BY EngineAssumption DEF BudgetInv, TypeInv, TypeOK
<1>2. budget[r].used \in Nat /\ budget[r].reserved \in Nat
  BY <1>1 DEF Ledger
<1>3. /\ budget[r].used + budget[r].reserved <= RequestLimit
      /\ budget[r].reserved = CountAt(pc, Holding, CallsOf(r))
  BY <1>1 DEF BudgetInv, RequestInv
<1>4. ASSUME pc[c] \in Holding PROVE budget[r].reserved >= 1
  <2>1. c \in CallsOf(r) /\ CallsOf(r) \in SUBSET Call
    BY DEF CallsOf
  <2> QED BY <1>1, <1>3, <1>4, <2>1, CountPositive
<1> QED BY <1>1, <1>2, <1>3, <1>4

LEMMA DayFacts ==
  ASSUME BudgetInv, NEW c \in Call
  PROVE  /\ daily \in Ledger /\ daily.used \in Nat /\ daily.reserved \in Nat
         /\ sentToday \in Nat /\ lapsed \in Nat
         /\ pc[c] \in HoldingDay => daily.reserved >= 1
         /\ DailyLimit # None => /\ DailyLimit \in Nat
                                 /\ daily.used + daily.reserved <= DailyLimit
<1>1. daily \in Ledger /\ sentToday \in Nat /\ lapsed \in Nat /\ pc \in [Call -> Step]
  BY DEF BudgetInv, TypeInv, TypeOK
<1>2. daily.used \in Nat /\ daily.reserved \in Nat
  BY <1>1 DEF Ledger
<1>3. ASSUME pc[c] \in HoldingDay PROVE daily.reserved >= 1
  <2>1. CountAt(pc, HoldingDay, Call) >= 1
    BY <1>1, <1>3, CountPositive
  <2>2. CountAt(pc, HoldingDay, Call) <= daily.reserved /\ CountAt(pc, HoldingDay, Call) \in Nat
    BY CountType DEF BudgetInv, DayInv
  <2> QED BY <1>2, <2>1, <2>2
<1>4. DailyLimit # None => DailyLimit \in Nat /\ daily.used + daily.reserved <= DailyLimit
  BY EngineAssumption DEF BudgetInv, DayInv
<1> QED BY <1>1, <1>2, <1>3, <1>4

\* What a call at each step holds.
LEMMA Units ==
  /\ \A step \in {"reserveDaily", "unreserve", "call"} :
       Unit(step, Holding) = 1 /\ Unit(step, Unsent) = 1
  /\ Unit("inflight", Holding) = 1 /\ Unit("inflight", Unsent) = 0
  /\ \A step \in {"refundDaily", "commitDaily", "reserve"} :
       Unit(step, Holding) = 0 /\ Unit(step, Unsent) = 0
  /\ \A step \in {"call", "refundDaily"} : Unit(step, UnsentDay) = 1
  /\ \A step \in {"reserveDaily", "unreserve", "inflight", "commitDaily", "reserve"} :
       Unit(step, UnsentDay) = 0
  /\ \A step \in {"call", "inflight", "refundDaily", "commitDaily"} :
       Unit(step, HoldingDay) = IF DailyLimit = None THEN 0 ELSE 1
  /\ \A step \in {"reserveDaily", "unreserve", "reserve"} : Unit(step, HoldingDay) = 0
BY DEF Unit, Holding, Unsent, HoldingDay, UnsentDay

LEMMA UnitsOutside ==
  ASSUME NEW step \in Outside
  PROVE  /\ Unit(step, Holding) = 0 /\ Unit(step, Unsent) = 0
         /\ Unit(step, HoldingDay) = 0 /\ Unit(step, UnsentDay) = 0
BY OutsideSteps DEF Unit, Holding, Unsent, HoldingDay, UnsentDay

\* A ledger operation, as numbers.
LEMMA LedgerMoves ==
  ASSUME NEW ledger \in Ledger
  PROVE  /\ Reserved(ledger) = [used |-> ledger.used, reserved |-> ledger.reserved + 1]
         /\ Returned(ledger) = [used |-> ledger.used, reserved |-> ledger.reserved - 1]
         /\ Charged(ledger) = [used |-> ledger.used + 1, reserved |-> ledger.reserved - 1]
BY DEF Ledger, Reserved, Returned, Charged

\* Moves that leave a ledger alone, and moves that settle a reservation.
LEMMA RequestKept ==
  ASSUME BudgetInv, NEW c \in Call, NEW step, pc' = [pc EXCEPT ![c] = step],
         UNCHANGED <<now, deadline, budget, sent>>,
         Unit(step, Holding) = Unit(pc[c], Holding), Unit(step, Unsent) = Unit(pc[c], Unsent)
  PROVE  RequestInv'
<1> DEFINE r == RequestOf[c]
           ledger == budget[r]
           n == sent[r]
<1>1. /\ budget' = [budget EXCEPT ![r] = ledger] /\ sent' = [sent EXCEPT ![r] = n]
      /\ ledger \in Ledger /\ n \in Nat
      /\ ledger.used + ledger.reserved <= RequestLimit
  BY RequestFacts
<1>2. Unit(pc[c], Holding) \in Int /\ Unit(pc[c], Unsent) \in Int
  BY DEF Unit
<1>3. /\ ledger.reserved = budget[r].reserved - Unit(pc[c], Holding) + Unit(step, Holding)
      /\ n = sent[r]
      /\ n - sent[r] + Unit(step, Unsent) - Unit(pc[c], Unsent)
           <= (ledger.used + ledger.reserved) - (budget[r].used + budget[r].reserved)
  BY <1>2, RequestFacts
<1> HIDE DEF ledger, n
<1> QED BY <1>1, <1>3, RequestMoves

LEMMA RequestSettled ==
  ASSUME BudgetInv, NEW c \in Call, NEW step, pc' = [pc EXCEPT ![c] = step],
         UNCHANGED <<now, deadline, sent>>,
         \/ /\ budget' = [budget EXCEPT ![RequestOf[c]] = Returned(@)]
            /\ Unit(pc[c], Unsent) = 1 \/ Late(RequestOf[c])
         \/ budget' = [budget EXCEPT ![RequestOf[c]] = Charged(@)],
         pc[c] \in Holding, Unit(step, Holding) = 0, Unit(step, Unsent) = 0
  PROVE  RequestInv'
<1> DEFINE r == RequestOf[c]
<1>1. /\ sent' = [sent EXCEPT ![r] = sent[r]]
      /\ budget[r] \in Ledger /\ sent[r] \in Nat /\ r \in Request
      /\ budget[r].used \in Nat /\ budget[r].reserved \in Nat /\ budget[r].reserved >= 1
      /\ budget[r].used + budget[r].reserved <= RequestLimit
  BY RequestFacts
<1>2. Unit(pc[c], Holding) = 1 /\ Unit(pc[c], Unsent) \in 0 .. 1
  BY DEF Unit
<1>3. CASE /\ budget' = [budget EXCEPT ![r] = Returned(@)]
           /\ Unit(pc[c], Unsent) = 1 \/ Late(r)
  <2> DEFINE ledger == Returned(budget[r])
  <2>1. ledger = [used |-> budget[r].used, reserved |-> budget[r].reserved - 1]
    BY <1>1, LedgerMoves
  <2>2. ledger \in Ledger /\ ledger.used = budget[r].used
        /\ ledger.reserved = budget[r].reserved - 1
    BY <1>1, <2>1 DEF Ledger
  <2>3. budget' = [budget EXCEPT ![r] = ledger]
    BY <1>1, <1>3, RequestFacts
  <2> HIDE DEF ledger
  <2>4. /\ ledger.reserved = budget[r].reserved - Unit(pc[c], Holding) + Unit(step, Holding)
        /\ ~Late(r) =>
             sent[r] - sent[r] + Unit(step, Unsent) - Unit(pc[c], Unsent)
               <= (ledger.used + ledger.reserved) - (budget[r].used + budget[r].reserved)
        /\ ledger.used + ledger.reserved <= RequestLimit
    BY <1>1, <1>2, <1>3, <2>2, EngineAssumption
  <2> QED BY <1>1, <2>2, <2>3, <2>4, RequestMoves
<1>4. CASE budget' = [budget EXCEPT ![r] = Charged(@)]
  <2> DEFINE ledger == Charged(budget[r])
  <2>1. ledger = [used |-> budget[r].used + 1, reserved |-> budget[r].reserved - 1]
    BY <1>1, LedgerMoves
  <2>2. ledger \in Ledger /\ ledger.used = budget[r].used + 1
        /\ ledger.reserved = budget[r].reserved - 1
    BY <1>1, <2>1 DEF Ledger
  <2>3. budget' = [budget EXCEPT ![r] = ledger]
    BY <1>1, <1>4, RequestFacts
  <2> HIDE DEF ledger
  <2>4. /\ ledger.reserved = budget[r].reserved - Unit(pc[c], Holding) + Unit(step, Holding)
        /\ sent[r] - sent[r] + Unit(step, Unsent) - Unit(pc[c], Unsent)
             <= (ledger.used + ledger.reserved) - (budget[r].used + budget[r].reserved)
        /\ ledger.used + ledger.reserved <= RequestLimit
    BY <1>1, <1>2, <2>2, EngineAssumption
  <2> QED BY <1>1, <2>2, <2>3, <2>4, RequestMoves
<1> QED BY <1>3, <1>4

\* A transaction that fails may leave a unit of the day behind: it stays charged.
\* The refusal of a batch takes one back, which is counted.
LEMMA DayKept ==
  ASSUME BudgetInv, NEW c \in Call, NEW step, pc' = [pc EXCEPT ![c] = step],
         UNCHANGED <<daily, sentToday>>, lapsed' \in {lapsed, lapsed + 1},
         faults' = 0 => faults = 0 /\ downSince' = downSince,
         Unit(step, HoldingDay) <= Unit(pc[c], HoldingDay),
         faults' = 0 => Unit(step, HoldingDay) = Unit(pc[c], HoldingDay),
         DailyLimit # None => Unit(step, UnsentDay) - Unit(pc[c], UnsentDay) <= lapsed' - lapsed
  PROVE  DayInv'
<1>1. ASSUME NEW x, NEW S PROVE Unit(x, S) \in Int
  BY DEF Unit
<1>2. /\ daily' \in Ledger /\ sentToday' \in Nat /\ lapsed' \in Nat
      /\ Unit(step, HoldingDay) - Unit(pc[c], HoldingDay) <= daily'.reserved - daily.reserved
      /\ faults' = 0 => Unit(step, HoldingDay) - Unit(pc[c], HoldingDay)
                          = daily'.reserved - daily.reserved
  <2>1. Unit(step, HoldingDay) \in Int /\ Unit(pc[c], HoldingDay) \in Int
    BY <1>1
  <2> QED BY <2>1, DayFacts
<1>3. DailyLimit # None =>
        /\ sentToday' - sentToday + Unit(step, UnsentDay) - Unit(pc[c], UnsentDay)
             <= (daily'.used + daily'.reserved) - (daily.used + daily.reserved)
                  + (lapsed' - lapsed)
        /\ daily'.used + daily'.reserved <= DailyLimit
  <2>1. Unit(step, UnsentDay) \in Int /\ Unit(pc[c], UnsentDay) \in Int
    BY <1>1
  <2> QED BY <2>1, DayFacts
<1> QED BY <1>2, <1>3, DayMoves

LEMMA DaySettled ==
  ASSUME BudgetInv, NEW c \in Call, NEW step, pc' = [pc EXCEPT ![c] = step],
         UNCHANGED <<sentToday, lapsed>>, DailyLimit # None,
         faults' = 0 => faults = 0 /\ downSince' = downSince,
         (daily' = Returned(daily) /\ Unit(pc[c], UnsentDay) = 1) \/ daily' = Charged(daily),
         pc[c] \in HoldingDay, Unit(step, HoldingDay) = 0, Unit(step, UnsentDay) = 0
  PROVE  DayInv'
<1>1. Unit(pc[c], HoldingDay) = 1 /\ Unit(pc[c], UnsentDay) \in 0 .. 1
  BY DEF Unit
<1>2. /\ daily' \in Ledger /\ sentToday' \in Nat /\ lapsed' \in Nat
      /\ daily'.reserved = daily.reserved - 1
      /\ daily'.used \in {daily.used, daily.used + 1}
      /\ daily'.used = daily.used => Unit(pc[c], UnsentDay) = 1
  BY DayFacts, LedgerMoves DEF Ledger
<1>3. /\ Unit(step, HoldingDay) - Unit(pc[c], HoldingDay) <= daily'.reserved - daily.reserved
      /\ Unit(step, HoldingDay) - Unit(pc[c], HoldingDay) = daily'.reserved - daily.reserved
  BY <1>1, <1>2, DayFacts
<1>4. /\ sentToday' - sentToday + Unit(step, UnsentDay) - Unit(pc[c], UnsentDay)
           <= (daily'.used + daily'.reserved) - (daily.used + daily.reserved)
                + (lapsed' - lapsed)
      /\ daily'.used + daily'.reserved <= DailyLimit
  BY <1>1, <1>2, DayFacts
<1> QED BY <1>2, <1>3, <1>4, DayMoves

\* Every step keeps the invariant.
LEMMA BudgetStep == BudgetInv /\ [Next]_vars => BudgetInv'
<1> SUFFICES ASSUME BudgetInv, [Next]_vars PROVE BudgetInv'
  OBVIOUS
<1> DEFINE Kept == RequestInv' /\ DayInv' /\ PlaceInv'
<1>1. TypeInv'
  BY TypeStep DEF BudgetInv
<1>2. TypeInv
  BY DEF BudgetInv
<1> DEFINE Quiet(c) == /\ \E step \in Outside : pc' = [pc EXCEPT ![c] = step]
                       /\ UNCHANGED <<now, deadline, daily, budget, sent, sentToday, lapsed>>
                       /\ faults' = 0 => faults = 0 /\ downSince' = downSince
<1>3. ASSUME NEW c \in Call, pc[c] \in Outside, Quiet(c) PROVE Kept
  BY <1>3, QuietStep
<1>4. ASSUME NEW c \in Call, Start(c) PROVE Kept
  <2>1. \E step \in Outside : pc' = [pc EXCEPT ![c] = step]
    BY <1>4, OutsideSteps DEF Start, Goto
  <2>2. /\ pc[c] \in Outside
        /\ UNCHANGED <<now, deadline, daily, budget, sent, sentToday, lapsed, faults, downSince>>
    BY <1>4, OutsideSteps DEF Start, stores, requests, history
  <2> QED BY <1>3, <2>1, <2>2
<1>5. ASSUME NEW c \in Call, LastResortProbe(c) PROVE Kept
  <2>1. \E step \in Outside : pc' = [pc EXCEPT ![c] = step]
    BY <1>5, OutsideSteps DEF LastResortProbe, Goto
  <2>2. c \in CallsOf(RequestOf[c]) => pc[c] = "idle"
    BY <1>5 DEF LastResortProbe
  <2>3. /\ pc[c] \in Outside
        /\ UNCHANGED <<now, deadline, daily, budget, sent, sentToday, lapsed, faults, downSince>>
    BY <1>5, <2>2, OutsideSteps DEF LastResortProbe, CallsOf, stores, requests, history
  <2> QED BY <1>3, <2>1, <2>3
<1>6. ASSUME NEW c \in Call, Expire(c) PROVE Kept
  <2>1. \E step \in Outside : pc' = [pc EXCEPT ![c] = step]
    BY <1>6, OutsideSteps DEF Expire, Goto
  <2>2. PICK ok \in BOOLEAN : Transaction(c, ok)
    BY <1>6 DEF Expire
  <2>3. faults' = 0 => faults = 0 /\ downSince' = downSince
    BY <2>2, TransactionFaults
  <2>4. /\ pc[c] \in Outside
        /\ UNCHANGED <<now, deadline, daily, budget, sent, sentToday, lapsed>>
    BY <1>6, OutsideSteps DEF Expire, stores, requests, history
  <2> QED BY <1>3, <2>1, <2>3, <2>4
<1>7. ASSUME NEW c \in Call, StopAtDeadline(c) PROVE Kept
  <2>1. \E step \in Outside : pc' = [pc EXCEPT ![c] = step]
    BY <1>7, LeaveMoves DEF StopAtDeadline
  <2>2. /\ pc[c] \in Outside
        /\ UNCHANGED <<now, deadline, daily, budget, sent, sentToday, lapsed, faults, downSince>>
    BY <1>7, OutsideSteps DEF StopAtDeadline, stores, requests, history
  <2> QED BY <1>3, <2>1, <2>2
<1>8. ASSUME NEW c \in Call, KeepLease(c) PROVE Kept
  <2>1. \E step \in Outside : pc' = [pc EXCEPT ![c] = step]
    BY <1>8, OutsideSteps DEF KeepLease, Goto
  <2>2. /\ pc[c] \in Outside
        /\ UNCHANGED <<now, deadline, daily, budget, sent, sentToday, lapsed, faults, downSince>>
    BY <1>8, OutsideSteps DEF KeepLease, stores, requests, history
  <2> QED BY <1>3, <2>1, <2>2
<1>9. ASSUME NEW c \in Call, Admit(c) PROVE Kept
  <2>1. \E step \in Outside : pc' = [pc EXCEPT ![c] = step]
    BY <1>9, OutsideSteps, LeaveMoves DEF Admit, Goto
  <2>2. PICK ok \in BOOLEAN : Transaction(c, ok)
    BY <1>9 DEF Admit
  <2>3. faults' = 0 => faults = 0 /\ downSince' = downSince
    BY <2>2, TransactionFaults
  <2>4. /\ pc[c] \in Outside
        /\ UNCHANGED <<now, deadline, daily, budget, sent, sentToday, lapsed>>
    BY <1>9, OutsideSteps DEF Admit, stores, requests, history
  <2> QED BY <1>3, <2>1, <2>3, <2>4
<1>10. ASSUME NEW c \in Call, Claim(c) PROVE Kept
  <2>1. \E step \in Outside : pc' = [pc EXCEPT ![c] = step]
    BY <1>10, OutsideSteps DEF Claim, Goto
  <2>2. PICK ok \in BOOLEAN : Transaction(c, ok)
    BY <1>10 DEF Claim
  <2>3. faults' = 0 => faults = 0 /\ downSince' = downSince
    BY <2>2, TransactionFaults
  <2>4. /\ pc[c] \in Outside
        /\ UNCHANGED <<now, deadline, daily, budget, sent, sentToday, lapsed>>
    BY <1>10, OutsideSteps DEF Claim, stores, requests, history
  <2> QED BY <1>3, <2>1, <2>3, <2>4
<1>11. ASSUME NEW c \in Call, Reread(c) PROVE Kept
  <2>1. \E step \in Outside : pc' = [pc EXCEPT ![c] = step]
    BY <1>11, LeaveMoves DEF Reread
  <2>2. PICK ok \in BOOLEAN : Transaction(c, ok)
    BY <1>11 DEF Reread
  <2>3. faults' = 0 => faults = 0 /\ downSince' = downSince
    BY <2>2, TransactionFaults
  <2>4. /\ pc[c] \in Outside
        /\ UNCHANGED <<now, deadline, daily, budget, sent, sentToday, lapsed>>
    BY <1>11, OutsideSteps DEF Reread, stores, requests, history
  <2> QED BY <1>3, <2>1, <2>3, <2>4
<1>12. ASSUME NEW c \in Call, Release(c) PROVE Kept
  <2>1. \E step \in Outside : pc' = [pc EXCEPT ![c] = step]
    BY <1>12, LeaveMoves DEF Release
  <2>2. PICK ok \in BOOLEAN : Transaction(c, ok)
    BY <1>12 DEF Release
  <2>3. faults' = 0 => faults = 0 /\ downSince' = downSince
    BY <2>2, TransactionFaults
  <2>4. /\ pc[c] \in Outside
        /\ UNCHANGED <<now, deadline, daily, budget, sent, sentToday, lapsed>>
    BY <1>12, OutsideSteps DEF Release, stores, requests, history
  <2> QED BY <1>3, <2>1, <2>3, <2>4
<1>13. ASSUME NEW c \in Call, Wake(c) PROVE Kept
  <2>1. \E step \in Outside : pc' = [pc EXCEPT ![c] = step]
    BY <1>13, OutsideSteps DEF Wake, Goto
  <2>2. /\ pc[c] \in Outside
        /\ UNCHANGED <<now, deadline, daily, budget, sent, sentToday, lapsed, faults, downSince>>
    BY <1>13, OutsideSteps DEF Wake, stores, requests, history
  <2> QED BY <1>3, <2>1, <2>2
<1>14. ASSUME NEW c \in Call, Interrupt(c) PROVE Kept
  <2>1. \E step \in Outside : pc' = [pc EXCEPT ![c] = step]
    BY <1>14, GiveBackMoves DEF Interrupt
  <2>2. /\ pc[c] \in Outside
        /\ UNCHANGED <<now, deadline, daily, budget, sent, sentToday, lapsed, faults, downSince>>
    BY <1>14, OutsideSteps DEF Interrupt, stores, requests, history
  <2> QED BY <1>3, <2>1, <2>2
<1>15. ASSUME NEW c \in Call, Record(c) PROVE Kept
  <2>1. \E step \in Outside : pc' = [pc EXCEPT ![c] = step]
    BY <1>15, OutsideSteps DEF Record, Return
  <2>2. PICK ok \in BOOLEAN : Transaction(c, ok)
    BY <1>15 DEF Record
  <2>3. faults' = 0 => faults = 0 /\ downSince' = downSince
    BY <2>2, TransactionFaults
  <2>4. /\ pc[c] \in Outside
        /\ UNCHANGED <<now, deadline, daily, budget, sent, sentToday, lapsed>>
    BY <1>15, OutsideSteps DEF Record, stores, requests, history
  <2> QED BY <1>3, <2>1, <2>3, <2>4
<1>16. ASSUME NEW c \in Call, Clear(c) PROVE Kept
  <2>1. \E step \in Outside : pc' = [pc EXCEPT ![c] = step]
    BY <1>16, OutsideSteps DEF Clear, Goto
  <2>2. PICK ok \in BOOLEAN : Transaction(c, ok)
    BY <1>16 DEF Clear
  <2>3. faults' = 0 => faults = 0 /\ downSince' = downSince
    BY <2>2, TransactionFaults
  <2>4. /\ pc[c] \in Outside
        /\ UNCHANGED <<now, deadline, daily, budget, sent, sentToday, lapsed>>
    BY <1>16, OutsideSteps DEF Clear, stores, requests, history
  <2> QED BY <1>3, <2>1, <2>3, <2>4
<1>17. ASSUME NEW c \in Call, Succeed(c) PROVE Kept
  <2>1. \E step \in Outside : pc' = [pc EXCEPT ![c] = step]
    BY <1>17, OutsideSteps DEF Succeed, Return
  <2>2. /\ pc[c] \in Outside
        /\ UNCHANGED <<now, deadline, daily, budget, sent, sentToday, lapsed, faults, downSince>>
    BY <1>17, OutsideSteps DEF Succeed, stores, requests, history
  <2> QED BY <1>3, <2>1, <2>2
<1>18. ASSUME NEW c \in Call, Reserve(c) PROVE Kept
  <2> DEFINE r == RequestOf[c]
             step == IF DailyLimit = None THEN "call" ELSE "reserveDaily"
  <2>1. /\ pc[c] = "reserve" /\ pc[c] \in Outside
        /\ UNCHANGED <<now, deadline, daily, sent, sentToday, lapsed, faults, downSince>>
    BY <1>18, OutsideSteps DEF Reserve, requests, history
  <2>2. CASE Fits(budget[r], RequestLimit)
    <3> DEFINE ledger == Reserved(budget[r])
    <3>1. budget' = [budget EXCEPT ![r] = ledger] /\ pc' = [pc EXCEPT ![c] = step]
      BY <1>18, <2>2, RequestFacts DEF Reserve, Goto
    <3>2. /\ ledger \in Ledger /\ ledger.used = budget[r].used
          /\ ledger.reserved = budget[r].reserved + 1
          /\ ledger.used + ledger.reserved <= RequestLimit
      BY <2>2, RequestFacts, LedgerMoves DEF Fits, Ledger
    <3>3. /\ Unit(pc[c], Holding) = 0 /\ Unit(step, Holding) = 1
          /\ Unit(pc[c], Unsent) = 0 /\ Unit(step, Unsent) = 1
          /\ Unit(step, HoldingDay) = Unit(pc[c], HoldingDay)
          /\ Unit(step, HoldingDay) <= Unit(pc[c], HoldingDay)
          /\ DailyLimit # None => Unit(step, UnsentDay) - Unit(pc[c], UnsentDay) <= 0
      BY <2>1, Units
    <3>4. step # "broken" /\ (step \in DaySteps => DailyLimit # None)
      BY DEF DaySteps
    <3> HIDE DEF ledger, step
    <3>5. RequestInv'
      <4> DEFINE n == sent[r]
      <4>1. sent' = [sent EXCEPT ![r] = n] /\ UNCHANGED <<now, deadline>>
        BY <2>1, RequestFacts
      <4>2. /\ ledger.reserved = budget[r].reserved - Unit(pc[c], Holding) + Unit(step, Holding)
            /\ n - sent[r] + Unit(step, Unsent) - Unit(pc[c], Unsent)
                 <= (ledger.used + ledger.reserved) - (budget[r].used + budget[r].reserved)
            /\ n \in Nat /\ n = sent[r]
        BY <3>2, <3>3, RequestFacts
      <4> HIDE DEF n
      <4> QED BY <3>1, <3>2, <4>1, <4>2, RequestMoves
    <3>6. DayInv'
      <4>1. lapsed' - lapsed = 0
        BY <2>1, DayFacts
      <4> QED BY <2>1, <3>1, <3>3, <4>1, DayKept
    <3>7. PlaceInv'
      BY <3>1, <3>4, PlaceMoves
    <3> QED BY <3>5, <3>6, <3>7
  <2>3. CASE ~Fits(budget[r], RequestLimit)
    <3>1. GiveBackAndLeave(c, frame[c], "budget_blocked") /\ UNCHANGED budget
      BY <1>18, <2>3 DEF Reserve
    <3>2. \E s \in Outside : pc' = [pc EXCEPT ![c] = s]
      BY <3>1, GiveBackMoves
    <3> QED BY <1>3, <2>1, <3>1, <3>2
  <2> QED BY <2>2, <2>3
<1>19. ASSUME NEW c \in Call, ReserveDaily(c) PROVE Kept
  <2>1. PICK ok \in BOOLEAN : Transaction(c, ok)
    BY <1>19 DEF ReserveDaily
  <2>2. /\ pc[c] = "reserveDaily" /\ DailyLimit # None
        /\ UNCHANGED <<now, deadline, budget, sent, sentToday, lapsed>>
    BY <1>19 DEF ReserveDaily, requests, history, BudgetInv, PlaceInv, DaySteps
  <2>3. faults' = 0 => faults = 0 /\ downSince' = downSince
    BY <2>1, TransactionFaults
  <2>4. CASE daily' = Reserved(daily) /\ Fits(daily, DailyLimit) /\ Goto(c, "call", frame[c])
    <3>1. pc' = [pc EXCEPT ![c] = "call"]
      BY <2>4 DEF Goto
    <3>2. /\ Unit("call", Holding) = Unit(pc[c], Holding)
          /\ Unit("call", Unsent) = Unit(pc[c], Unsent)
          /\ Unit("call", HoldingDay) = 1 /\ Unit(pc[c], HoldingDay) = 0
          /\ Unit("call", UnsentDay) = 1 /\ Unit(pc[c], UnsentDay) = 0
      BY <2>2, Units
    <3>3. RequestInv'
      BY <2>2, <3>1, <3>2, RequestKept
    <3>4. DayInv'
      <4>1. /\ daily' \in Ledger /\ sentToday' \in Nat /\ lapsed' \in Nat
            /\ daily'.used = daily.used /\ daily'.reserved = daily.reserved + 1
            /\ daily'.used + daily'.reserved <= DailyLimit
        BY <2>2, <2>4, DayFacts, LedgerMoves DEF Fits, Ledger
      <4>2. /\ Unit("call", HoldingDay) - Unit(pc[c], HoldingDay) = daily'.reserved - daily.reserved
            /\ Unit("call", HoldingDay) - Unit(pc[c], HoldingDay) <= daily'.reserved - daily.reserved
            /\ sentToday' - sentToday + Unit("call", UnsentDay) - Unit(pc[c], UnsentDay)
                 <= (daily'.used + daily'.reserved) - (daily.used + daily.reserved)
                      + (lapsed' - lapsed)
        BY <2>2, <3>2, <4>1, DayFacts
      <4> QED BY <2>3, <3>1, <4>1, <4>2, DayMoves
    <3>5. PlaceInv'
      BY <2>2, <3>1, PlaceMoves
    <3> QED BY <3>3, <3>4, <3>5
  <2>5. CASE UNCHANGED daily /\ Goto(c, "unreserve", frame[c])
    <3>1. pc' = [pc EXCEPT ![c] = "unreserve"]
      BY <2>5 DEF Goto
    <3>2. /\ Unit("unreserve", Holding) = Unit(pc[c], Holding)
          /\ Unit("unreserve", Unsent) = Unit(pc[c], Unsent)
          /\ Unit("unreserve", HoldingDay) = Unit(pc[c], HoldingDay)
          /\ Unit("unreserve", HoldingDay) <= Unit(pc[c], HoldingDay)
          /\ Unit("unreserve", UnsentDay) - Unit(pc[c], UnsentDay) <= lapsed' - lapsed
      BY <2>2, Units, DayFacts
    <3>3. RequestInv'
      BY <2>2, <3>1, <3>2, RequestKept
    <3>4. DayInv'
      BY <2>2, <2>3, <2>5, <3>1, <3>2, DayKept
    <3>5. PlaceInv'
      BY <2>2, <3>1, PlaceMoves
    <3> QED BY <3>3, <3>4, <3>5
  <2> QED BY <1>19, <2>4, <2>5 DEF ReserveDaily
<1>20. ASSUME NEW c \in Call, Unreserve(c) PROVE Kept
  <2>1. /\ pc[c] = "unreserve" /\ pc[c] \in Holding
        /\ UNCHANGED <<now, deadline, daily, sent, sentToday, lapsed, faults, downSince>>
    BY <1>20 DEF Unreserve, requests, history, Holding
  <2>2. /\ budget' = [budget EXCEPT ![RequestOf[c]] = Returned(@)]
        /\ GiveBackAndLeave(c, frame[c], "budget_blocked")
    BY <1>20, <2>1, RequestFacts DEF Unreserve
  <2>3. PICK step \in Outside : pc' = [pc EXCEPT ![c] = step]
    BY <2>2, GiveBackMoves
  <2>4. /\ Unit(step, Holding) = 0 /\ Unit(pc[c], Unsent) = 1 /\ Unit(step, Unsent) = 0
        /\ Unit(step, HoldingDay) = Unit(pc[c], HoldingDay)
        /\ Unit(step, HoldingDay) <= Unit(pc[c], HoldingDay)
        /\ Unit(step, UnsentDay) - Unit(pc[c], UnsentDay) <= lapsed' - lapsed
    <3>1. /\ Unit(pc[c], Unsent) = 1 /\ Unit(pc[c], HoldingDay) = 0
          /\ Unit(pc[c], UnsentDay) = 0
      BY <2>1, Units
    <3> QED BY <2>1, <3>1, UnitsOutside, DayFacts
  <2>5. RequestInv'
    BY <2>1, <2>2, <2>3, <2>4, RequestSettled
  <2>6. DayInv'
    BY <2>1, <2>3, <2>4, DayKept
  <2>7. PlaceInv'
    BY <2>3, OutsideSteps, PlaceMoves DEF DaySteps
  <2> QED BY <2>5, <2>6, <2>7
<1>21. ASSUME NEW c \in Call, Send(c) PROVE Kept
  <2> DEFINE r == RequestOf[c]
  <2>1. /\ pc[c] = "call" /\ pc' = [pc EXCEPT ![c] = "inflight"]
        /\ UNCHANGED <<now, deadline, daily, budget, lapsed, faults, downSince>>
        /\ ~Late(r)
    BY <1>21 DEF Send, stores, requests, Goto, PastDeadline
  <2>2. /\ sent' = [sent EXCEPT ![r] = sent[r] + 1]
        /\ sentToday' = IF DailyLimit = None THEN sentToday ELSE sentToday + 1
    BY <1>21, RequestFacts DEF Send
  <2>3. /\ Unit("inflight", Holding) = 1 /\ Unit(pc[c], Holding) = 1
        /\ Unit("inflight", Unsent) = 0 /\ Unit(pc[c], Unsent) = 1
        /\ Unit("inflight", HoldingDay) = Unit(pc[c], HoldingDay)
        /\ Unit("inflight", HoldingDay) \in Int
        /\ Unit("inflight", UnsentDay) = 0 /\ Unit(pc[c], UnsentDay) = 1
    BY <2>1, Units
  <2>4. RequestInv'
    <3> DEFINE ledger == budget[r]
               n == sent[r] + 1
    <3>1. /\ budget' = [budget EXCEPT ![r] = ledger] /\ sent' = [sent EXCEPT ![r] = n]
          /\ ledger \in Ledger /\ n \in Nat
          /\ ledger.used + ledger.reserved <= RequestLimit
          /\ ledger.reserved = budget[r].reserved - Unit(pc[c], Holding)
                                  + Unit("inflight", Holding)
          /\ n - sent[r] + Unit("inflight", Unsent) - Unit(pc[c], Unsent)
               <= (ledger.used + ledger.reserved) - (budget[r].used + budget[r].reserved)
      BY <2>1, <2>2, <2>3, RequestFacts
    <3> HIDE DEF ledger, n
    <3> QED BY <2>1, <3>1, RequestMoves
  <2>5. DayInv'
    <3>1. /\ daily' \in Ledger /\ sentToday' \in Nat /\ lapsed' \in Nat
          /\ Unit("inflight", HoldingDay) - Unit(pc[c], HoldingDay)
               = daily'.reserved - daily.reserved
          /\ Unit("inflight", HoldingDay) - Unit(pc[c], HoldingDay)
               <= daily'.reserved - daily.reserved
      BY <2>1, <2>2, <2>3, DayFacts
    <3>2. DailyLimit # None =>
            /\ sentToday' - sentToday + Unit("inflight", UnsentDay) - Unit(pc[c], UnsentDay)
                 <= (daily'.used + daily'.reserved) - (daily.used + daily.reserved)
                      + (lapsed' - lapsed)
            /\ daily'.used + daily'.reserved <= DailyLimit
      BY <2>1, <2>2, <2>3, DayFacts
    <3> QED BY <2>1, <3>1, <3>2, DayMoves
  <2>6. PlaceInv'
    BY <2>1, PlaceMoves DEF DaySteps
  <2> QED BY <2>4, <2>5, <2>6
<1>22. ASSUME NEW c \in Call, RefuseAtDeadline(c) PROVE Kept
  <2>1. /\ pc[c] \in {"call", "inflight"} /\ pc[c] \in Holding /\ Late(RequestOf[c])
        /\ UNCHANGED <<now, deadline, daily, sent, sentToday, faults, downSince>>
        /\ lapsed' = IF DailyLimit # None /\ pc[c] = "inflight" THEN lapsed + 1 ELSE lapsed
    BY <1>22 DEF RefuseAtDeadline, requests, Holding, PastDeadline
  <2>2. /\ budget' = [budget EXCEPT ![RequestOf[c]] = Returned(@)]
        /\ IF DailyLimit = None
           THEN GiveBackAndLeave(c, frame[c], "deadline_exceeded")
           ELSE Goto(c, "refundDaily", frame[c])
    BY <1>22, <2>1, RequestFacts DEF RefuseAtDeadline
  <2>3. lapsed' \in {lapsed, lapsed + 1}
    BY <2>1
  <2>4. CASE DailyLimit = None
    <3>1. PICK step \in Outside : pc' = [pc EXCEPT ![c] = step]
      BY <2>2, <2>4, GiveBackMoves
    <3>2. /\ Unit(step, Holding) = 0 /\ Unit(step, Unsent) = 0
          /\ Unit(step, HoldingDay) = Unit(pc[c], HoldingDay)
          /\ Unit(step, HoldingDay) <= Unit(pc[c], HoldingDay)
      <4>1. Unit(pc[c], HoldingDay) = 0
        BY <2>1, <2>4, Units
      <4> QED BY <4>1, UnitsOutside
    <3>3. RequestInv'
      BY <2>1, <2>2, <3>1, <3>2, RequestSettled
    <3>4. DayInv'
      BY <2>1, <2>3, <2>4, <3>1, <3>2, DayKept
    <3>5. PlaceInv'
      BY <3>1, OutsideSteps, PlaceMoves DEF DaySteps
    <3> QED BY <3>3, <3>4, <3>5
  <2>5. CASE DailyLimit # None
    <3>1. pc' = [pc EXCEPT ![c] = "refundDaily"]
      BY <2>2, <2>5 DEF Goto
    <3>2. /\ Unit("refundDaily", Holding) = 0 /\ Unit("refundDaily", Unsent) = 0
          /\ Unit("refundDaily", HoldingDay) = Unit(pc[c], HoldingDay)
          /\ Unit("refundDaily", HoldingDay) <= Unit(pc[c], HoldingDay)
      BY <2>1, <2>5, Units
    <3>3. Unit("refundDaily", UnsentDay) - Unit(pc[c], UnsentDay) <= lapsed' - lapsed
      <4>1. CASE pc[c] = "call"
        BY <2>1, <4>1, Units, DayFacts
      <4>2. CASE pc[c] = "inflight"
        BY <2>1, <2>5, <4>2, Units, DayFacts
      <4> QED BY <2>1, <4>1, <4>2
    <3>4. RequestInv'
      BY <2>1, <2>2, <3>1, <3>2, RequestSettled
    <3>5. DayInv'
      BY <2>1, <2>3, <3>1, <3>2, <3>3, DayKept
    <3>6. PlaceInv'
      BY <2>5, <3>1, PlaceMoves
    <3> QED BY <3>4, <3>5, <3>6
  <2> QED BY <2>4, <2>5
<1>23. ASSUME NEW c \in Call, RefundDaily(c) PROVE Kept
  <2>1. PICK ok \in BOOLEAN : Transaction(c, ok) /\ (ok => daily' = Returned(daily))
                            /\ (~ok => UNCHANGED daily)
    <3>1. DailyLimit # None
      BY <1>23 DEF RefundDaily, BudgetInv, PlaceInv, DaySteps
    <3>2. pc[c] \in HoldingDay
      BY <1>23, <3>1 DEF RefundDaily, HoldingDay
    <3>3. daily.reserved >= 1
      BY <3>2, DayFacts
    <3> QED BY <1>23, <3>3 DEF RefundDaily
  <2>2. /\ pc[c] = "refundDaily" /\ DailyLimit # None /\ pc[c] \in HoldingDay
        /\ UNCHANGED <<now, deadline, budget, sent, sentToday, lapsed>>
    BY <1>23 DEF RefundDaily, requests, history, BudgetInv, PlaceInv, DaySteps, HoldingDay
  <2>3. faults' = 0 => ok /\ faults = 0 /\ downSince' = downSince
    BY <2>1, TransactionFaults
  <2>4. GiveBackAndLeave(c, frame[c], "deadline_exceeded")
    BY <1>23, <2>2, DayFacts DEF RefundDaily
  <2>5. PICK step \in Outside : pc' = [pc EXCEPT ![c] = step]
    BY <2>4, GiveBackMoves
  <2>6. /\ Unit(pc[c], Holding) = 0 /\ Unit(pc[c], Unsent) = 0
        /\ Unit(pc[c], HoldingDay) = 1 /\ Unit(pc[c], UnsentDay) = 1
    BY <2>2, Units
  <2>7. /\ Unit(step, Holding) = 0 /\ Unit(step, Unsent) = 0
        /\ Unit(step, HoldingDay) = 0 /\ Unit(step, UnsentDay) = 0
    BY UnitsOutside
  <2>8. RequestInv'
    BY <2>2, <2>5, <2>6, <2>7, RequestKept
  <2>9. DayInv'
    <3>1. CASE ok
      BY <2>1, <2>2, <2>3, <2>5, <2>6, <2>7, <3>1, DaySettled
    <3>2. CASE ~ok
      <4>1. /\ Unit(step, HoldingDay) <= Unit(pc[c], HoldingDay)
            /\ Unit(step, UnsentDay) - Unit(pc[c], UnsentDay) <= lapsed' - lapsed
            /\ faults' # 0 /\ UNCHANGED daily
        BY <2>1, <2>2, <2>3, <2>6, <2>7, <3>2, DayFacts
      <4> QED BY <2>2, <2>5, <4>1, DayKept
    <3> QED BY <3>1, <3>2
  <2>10. PlaceInv'
    BY <2>5, OutsideSteps, PlaceMoves DEF DaySteps
  <2> QED BY <2>8, <2>9, <2>10
<1>24. ASSUME NEW c \in Call, Finish(c) PROVE Kept
  <2>1. /\ pc[c] \in {"call", "inflight"} /\ pc[c] \in Holding
        /\ UNCHANGED <<now, deadline, daily, sent, sentToday, lapsed, faults, downSince>>
    BY <1>24 DEF Finish, requests, history, Holding
  <2>2. PICK f \in Outcomes(c) :
          IF DailyLimit = None THEN Settle(c, f) ELSE Goto(c, "commitDaily", f)
    BY <1>24, <2>1, RequestFacts DEF Finish
  <2>3. budget' = [budget EXCEPT ![RequestOf[c]] = Charged(@)]
    BY <1>24, <2>1, RequestFacts DEF Finish
  <2>4. CASE DailyLimit = None
    <3>1. Settled(f)
      <4>1. frame[c] \in Frame
        BY <1>2 DEF TypeInv, TypeOK
      <4> QED BY <2>2, <4>1, OutcomesType
    <3>2. PICK step \in Outside : pc' = [pc EXCEPT ![c] = step]
      BY <2>2, <2>4, <3>1, SettleMoves
    <3>3. /\ Unit(step, Holding) = 0 /\ Unit(step, Unsent) = 0
          /\ Unit(step, HoldingDay) = Unit(pc[c], HoldingDay)
          /\ Unit(step, HoldingDay) <= Unit(pc[c], HoldingDay)
      <4>1. Unit(pc[c], HoldingDay) = 0
        BY <2>1, <2>4, Units
      <4> QED BY <4>1, UnitsOutside
    <3>4. RequestInv'
      BY <2>1, <2>3, <3>2, <3>3, RequestSettled
    <3>5. DayInv'
      BY <2>1, <2>4, <3>2, <3>3, DayKept
    <3>6. PlaceInv'
      BY <3>2, OutsideSteps, PlaceMoves DEF DaySteps
    <3> QED BY <3>4, <3>5, <3>6
  <2>5. CASE DailyLimit # None
    <3>1. pc' = [pc EXCEPT ![c] = "commitDaily"]
      BY <2>2, <2>5 DEF Goto
    <3>2. /\ Unit("commitDaily", Holding) = 0 /\ Unit("commitDaily", Unsent) = 0
          /\ Unit("commitDaily", HoldingDay) = Unit(pc[c], HoldingDay)
          /\ Unit("commitDaily", HoldingDay) <= Unit(pc[c], HoldingDay)
          /\ Unit("commitDaily", UnsentDay) - Unit(pc[c], UnsentDay) <= lapsed' - lapsed
      BY <2>1, <2>5, Units, DayFacts
    <3>3. RequestInv'
      BY <2>1, <2>3, <3>1, <3>2, RequestSettled
    <3>4. DayInv'
      BY <2>1, <3>1, <3>2, DayKept
    <3>5. PlaceInv'
      BY <2>5, <3>1, PlaceMoves
    <3> QED BY <3>3, <3>4, <3>5
  <2> QED BY <2>4, <2>5
<1>25. ASSUME NEW c \in Call, CommitDaily(c) PROVE Kept
  <2>1. PICK ok \in BOOLEAN : Transaction(c, ok) /\ (ok => daily' = Charged(daily))
                            /\ (~ok => UNCHANGED daily)
    <3>1. DailyLimit # None
      BY <1>25 DEF CommitDaily, BudgetInv, PlaceInv, DaySteps
    <3>2. pc[c] \in HoldingDay
      BY <1>25, <3>1 DEF CommitDaily, HoldingDay
    <3>3. daily.reserved >= 1
      BY <3>2, DayFacts
    <3> QED BY <1>25, <3>3 DEF CommitDaily
  <2>2. /\ pc[c] = "commitDaily" /\ DailyLimit # None /\ pc[c] \in HoldingDay
        /\ UNCHANGED <<now, deadline, budget, sent, sentToday, lapsed>>
    BY <1>25 DEF CommitDaily, requests, history, BudgetInv, PlaceInv, DaySteps, HoldingDay
  <2>3. faults' = 0 => ok /\ faults = 0 /\ downSince' = downSince
    BY <2>1, TransactionFaults
  <2>4. Settle(c, frame[c]) /\ Settled(frame[c])
    <3>1. Settle(c, frame[c])
      BY <1>25, <2>2, DayFacts DEF CommitDaily
    <3>2. Settled(frame[c])
      BY <2>2 DEF BudgetInv, TypeInv, CallsOK, AtStep
    <3> QED BY <3>1, <3>2
  <2>5. PICK step \in Outside : pc' = [pc EXCEPT ![c] = step]
    BY <2>4, SettleMoves
  <2>6. /\ Unit(pc[c], Holding) = 0 /\ Unit(pc[c], Unsent) = 0
        /\ Unit(pc[c], HoldingDay) = 1 /\ Unit(pc[c], UnsentDay) = 0
    BY <2>2, Units
  <2>7. /\ Unit(step, Holding) = 0 /\ Unit(step, Unsent) = 0
        /\ Unit(step, HoldingDay) = 0 /\ Unit(step, UnsentDay) = 0
    BY UnitsOutside
  <2>8. RequestInv'
    BY <2>2, <2>5, <2>6, <2>7, RequestKept
  <2>9. DayInv'
    <3>1. CASE ok
      BY <2>1, <2>2, <2>3, <2>5, <2>6, <2>7, <3>1, DaySettled
    <3>2. CASE ~ok
      <4>1. /\ Unit(step, HoldingDay) <= Unit(pc[c], HoldingDay)
            /\ Unit(step, UnsentDay) - Unit(pc[c], UnsentDay) <= lapsed' - lapsed
            /\ faults' # 0 /\ UNCHANGED daily
        BY <2>1, <2>2, <2>3, <2>6, <2>7, <3>2, DayFacts
      <4> QED BY <2>2, <2>5, <4>1, DayKept
    <3> QED BY <3>1, <3>2
  <2>10. PlaceInv'
    BY <2>5, OutsideSteps, PlaceMoves DEF DaySteps
  <2> QED BY <2>8, <2>9, <2>10
<1>26. ASSUME NEW r \in Request, NewRequest(r) PROVE Kept
  <2>1. /\ UNCHANGED <<now, pc, daily, faults, sentToday, lapsed>>
        /\ \E t \in Deadlines : deadline' = [deadline EXCEPT ![r] = t]
        /\ budget' = [budget EXCEPT ![r] = Empty] /\ sent' = [sent EXCEPT ![r] = 0]
        /\ downSince' = [downSince EXCEPT ![r] = None]
        /\ \A c \in CallsOf(r) : pc[c] = "idle"
    BY <1>26 DEF NewRequest
  <2>2. /\ budget \in [Request -> Ledger] /\ sent \in [Request -> Nat]
        /\ downSince \in [Request -> Nat \cup {None}]
        /\ deadline \in [Request -> Nat \cup {None}]
    BY <1>2 DEF TypeInv, TypeOK
  <2>3. RequestInv'
    <3> SUFFICES ASSUME NEW q \in Request
                 PROVE  /\ budget'[q].reserved = CountAt(pc', Holding, CallsOf(q))
                        /\ ~Late(q)' => sent'[q] + CountAt(pc', Unsent, CallsOf(q))
                                          <= budget'[q].used + budget'[q].reserved
                        /\ sent'[q] <= RequestLimit
                        /\ budget'[q].used + budget'[q].reserved <= RequestLimit
      BY DEF RequestInv, CallsOf
    <3>1. CASE q = r
      <4>1. ASSUME NEW S, "idle" \notin S PROVE CountAt(pc', S, CallsOf(q)) = 0
        <5>1. {c \in CallsOf(q) : pc'[c] \in S} = {}
          BY <2>1, <3>1, <4>1
        <5> QED BY <5>1, FS_EmptySet DEF CountAt
      <4>2. /\ CountAt(pc', Holding, CallsOf(q)) = 0
            /\ CountAt(pc', Unsent, CallsOf(q)) = 0
        BY <4>1 DEF Holding, Unsent
      <4>3. budget'[q] = Empty /\ sent'[q] = 0
        BY <2>1, <2>2, <3>1
      <4> QED BY <4>2, <4>3, EngineAssumption DEF Empty
    <3>2. CASE q # r
      <4>1. budget'[q] = budget[q] /\ sent'[q] = sent[q] /\ pc' = pc
        BY <2>1, <2>2, <3>2
      <4>3. Late(q)' <=> Late(q)
        BY <2>1, <2>2, <3>2 DEF Late
      <4>2. /\ budget[q].reserved = CountAt(pc, Holding, CallsOf(q))
            /\ ~Late(q) =>
                 sent[q] + CountAt(pc, Unsent, CallsOf(q)) <= budget[q].used + budget[q].reserved
            /\ sent[q] <= RequestLimit
            /\ budget[q].used + budget[q].reserved <= RequestLimit
        BY DEF BudgetInv, RequestInv
      <4> QED BY <4>1, <4>2, <4>3
    <3> QED BY <3>1, <3>2
  <2>4. DayInv'
    BY <2>1, <2>2 DEF BudgetInv, DayInv, Up
  <2>5. PlaceInv'
    BY <2>1 DEF BudgetInv, PlaceInv
  <2> QED BY <2>3, <2>4, <2>5
<1>27. ASSUME NEW r \in Request, Reprobe(r) PROVE Kept
  <2>1. UNCHANGED <<now, deadline, pc, daily, sentToday, lapsed, budget, sent>>
    BY <1>27 DEF Reprobe, requests, history
  <2>2. RequestInv' /\ PlaceInv'
    BY <2>1 DEF BudgetInv, RequestInv, PlaceInv, Late
  <2>3. faults' # 0
    BY <1>27, <1>2 DEF Reprobe, BudgetInv, DayInv, TypeInv, TypeOK
  <2>4. DayInv'
    BY <2>1, <2>3 DEF BudgetInv, DayInv
  <2> QED BY <2>2, <2>4
<1>28. ASSUME NEW r \in Request, Crash(r) PROVE Kept
  <2> DEFINE fallen == CallsOf(r)
             q == [c \in Call |-> IF c \in fallen THEN "idle" ELSE pc[c]]
  <2>1. /\ UNCHANGED <<now, deadline, daily, sentToday, lapsed>> /\ pc' = q
        /\ budget' = [budget EXCEPT ![r] = Empty] /\ sent' = [sent EXCEPT ![r] = 0]
    BY <1>28 DEF Crash, requests
  <2>2. /\ budget \in [Request -> Ledger] /\ sent \in [Request -> Nat]
        /\ pc \in [Call -> Step] /\ daily \in Ledger /\ sentToday \in Nat /\ lapsed \in Nat
        /\ fallen \in SUBSET Call
    BY <1>2 DEF TypeInv, TypeOK, CallsOf
  <2>3. faults' # 0
    BY <1>28, <1>2 DEF Crash, TypeInv, TypeOK
  <2>4. RequestInv'
    <3> SUFFICES ASSUME NEW s \in Request
                 PROVE  /\ budget'[s].reserved = CountAt(pc', Holding, CallsOf(s))
                        /\ ~Late(s)' => sent'[s] + CountAt(pc', Unsent, CallsOf(s))
                                          <= budget'[s].used + budget'[s].reserved
                        /\ sent'[s] <= RequestLimit
                        /\ budget'[s].used + budget'[s].reserved <= RequestLimit
      BY DEF RequestInv, CallsOf
    <3>1. CallsOf(s) \in SUBSET Call
      BY DEF CallsOf
    <3>2. CASE s = r
      <4>1. CountAt(q, Holding, CallsOf(s)) = 0
        BY <2>2, <3>1, <3>2, CountFallen, SMTT(40) DEF Holding
      <4>2. CountAt(q, Unsent, CallsOf(s)) = 0
        BY <2>2, <3>1, <3>2, CountFallen, SMTT(40) DEF Unsent
      <4>3. budget'[s] = Empty /\ sent'[s] = 0
        BY <2>1, <2>2, <3>2
      <4> QED BY <2>1, <4>1, <4>2, <4>3, EngineAssumption DEF Empty
    <3>3. CASE s # r
      <4>1. CallsOf(s) \cap fallen = {}
        BY <3>3 DEF CallsOf
      <4>2. ASSUME NEW S PROVE CountAt(q, S, CallsOf(s)) = CountAt(pc, S, CallsOf(s))
        BY <2>2, <3>1, <4>1, CountUnfallen
      <4>3. budget'[s] = budget[s] /\ sent'[s] = sent[s]
        BY <2>1, <2>2, <3>3
      <4>4. /\ budget[s].reserved = CountAt(pc, Holding, CallsOf(s))
            /\ ~Late(s) =>
                 sent[s] + CountAt(pc, Unsent, CallsOf(s)) <= budget[s].used + budget[s].reserved
            /\ sent[s] <= RequestLimit
            /\ budget[s].used + budget[s].reserved <= RequestLimit
        BY DEF BudgetInv, RequestInv
      <4>5. Late(s)' <=> Late(s)
        BY <2>1 DEF Late
      <4> QED BY <2>1, <4>2, <4>3, <4>4, <4>5
    <3> QED BY <3>2, <3>3
  <2>5. DayInv'
    <3>1. CountAt(q, HoldingDay, Call) <= CountAt(pc, HoldingDay, Call)
      BY <2>2, CountFall DEF HoldingDay
    <3>2. CountAt(q, UnsentDay, Call) <= CountAt(pc, UnsentDay, Call)
      BY <2>2, CountFall DEF UnsentDay
    <3>3. /\ CountAt(q, HoldingDay, Call) \in Nat /\ CountAt(pc, HoldingDay, Call) \in Nat
          /\ CountAt(q, UnsentDay, Call) \in Nat /\ CountAt(pc, UnsentDay, Call) \in Nat
      BY CountType
    <3>4. daily.used \in Nat /\ daily.reserved \in Nat
      BY <2>2 DEF Ledger
    <3>5. CountAt(pc', HoldingDay, Call) <= daily'.reserved
      BY <2>1, <3>1, <3>3, <3>4 DEF BudgetInv, DayInv
    <3>6. DailyLimit # None =>
            /\ sentToday' + CountAt(pc', UnsentDay, Call)
                 <= daily'.used + daily'.reserved + lapsed'
            /\ daily'.used + daily'.reserved <= DailyLimit
      BY <2>1, <2>2, <3>2, <3>3, <3>4 DEF BudgetInv, DayInv
    <3> QED BY <2>3, <3>5, <3>6 DEF DayInv
  <2>6. PlaceInv'
    BY <2>1, <2>2 DEF BudgetInv, PlaceInv, DaySteps
  <2> QED BY <2>4, <2>5, <2>6
<1>29. ASSUME Tick \/ UNCHANGED vars PROVE Kept
  <2>1. UNCHANGED <<pc, deadline, daily, sentToday, lapsed, budget, sent, faults, downSince>>
    BY <1>29 DEF Tick, vars, stores, requests, history
  <2>2. now' \in {now, now + 1} /\ now \in Nat
    BY <1>2, <1>29 DEF Tick, vars, TypeInv, TypeOK
  <2>3. ASSUME NEW r \in Request, Late(r) PROVE Late(r)'
    <3>1. deadline[r] \in Nat \cup {None}
      BY <1>2 DEF TypeInv, TypeOK
    <3> QED BY <2>1, <2>2, <2>3, <3>1 DEF Late
  <2>4. RequestInv'
    BY <2>1, <2>3 DEF BudgetInv, RequestInv
  <2> QED BY <2>1, <2>4 DEF BudgetInv, DayInv, PlaceInv, Up
<1>30. Kept
  BY <1>4, <1>5, <1>6, <1>7, <1>8, <1>9, <1>10, <1>11, <1>12, <1>13, <1>14, <1>15, <1>16,
     <1>17, <1>18, <1>19, <1>20, <1>21, <1>22, <1>23, <1>24, <1>25, <1>26, <1>27, <1>28,
     <1>29 DEF Next, Advance
<1> QED BY <1>1, <1>30 DEF BudgetInv

-----------------------------------------------------------------------------
(***************************************************************************)
(* What it gives.                                                          *)
(***************************************************************************)

\* Fewer steps, fewer calls.
LEMMA CountSubset ==
  ASSUME NEW p, NEW S, NEW T, S \subseteq T, NEW D \in SUBSET Call
  PROVE  CountAt(p, S, D) <= CountAt(p, T, D)
<1>1. IsFiniteSet({c \in D : p[c] \in T})
  BY EngineAssumption, FS_Subset
<1>2. {c \in D : p[c] \in S} \subseteq {c \in D : p[c] \in T}
  OBVIOUS
<1>3. Cardinality({c \in D : p[c] \in S}) <= Cardinality({c \in D : p[c] \in T})
  BY <1>1, <1>2, FS_Subset
<1> QED BY <1>3 DEF CountAt

LEMMA BudgetAlways == Spec => []BudgetInv
BY BudgetInit, BudgetStep, PTL DEF Spec

\* The tries of a request that were sent, and those it is cleared to send, stay
\* within max_provider_attempts, for any number of racing calls and retries.
THEOREM RequestBudgetHolds == Spec => []RequestBudgetKept
<1>1. BudgetInv => RequestBudgetKept
  <2> SUFFICES ASSUME BudgetInv, NEW r \in Request
               PROVE  sent[r] + Cardinality(MaySend \cap CallsOf(r)) <= RequestLimit
    BY DEF RequestBudgetKept
  <2>1. /\ CallsOf(r) \in SUBSET Call /\ {"call"} \subseteq Unsent
        /\ \A c \in CallsOf(r) : RequestOf[c] = r
    BY DEF CallsOf, Unsent
  <2>2. sent[r] \in Nat /\ sent[r] <= RequestLimit
    BY DEF BudgetInv, RequestInv, TypeInv, TypeOK
  <2>3. CASE Late(r)
    <3>1. MaySend \cap CallsOf(r) = {}
      BY <2>1, <2>3 DEF MaySend, PastDeadline
    <3> QED BY <2>2, <3>1, FS_EmptySet
  <2>4. CASE ~Late(r)
    <3>1. MaySend \cap CallsOf(r) = {c \in CallsOf(r) : pc[c] \in {"call"}}
      BY <2>1, <2>4 DEF MaySend, PastDeadline, CallsOf
    <3>2. Cardinality(MaySend \cap CallsOf(r)) = CountAt(pc, {"call"}, CallsOf(r))
      BY <3>1 DEF CountAt
    <3>3. CountAt(pc, {"call"}, CallsOf(r)) <= CountAt(pc, Unsent, CallsOf(r))
      BY <2>1, CountSubset
    <3>4. /\ CountAt(pc, {"call"}, CallsOf(r)) \in Nat /\ CountAt(pc, Unsent, CallsOf(r)) \in Nat
          /\ budget[r].used \in Nat /\ budget[r].reserved \in Nat
      BY <2>1, CountType DEF BudgetInv, TypeInv, TypeOK, Ledger
    <3> QED BY <2>2, <2>4, <3>2, <3>3, <3>4, EngineAssumption DEF BudgetInv, RequestInv
  <2> QED BY <2>3, <2>4
<1> QED BY <1>1, BudgetAlways, PTL

\* The same of the daily limit: with store failures and process crashes in any
\* number, no more provider tries are made in a day than configured, but for
\* those whose unit was asked back when the deadline ended a batch midway.
THEOREM DailyBudgetHolds == Spec => []DailyBudgetKept
<1>1. BudgetInv => DailyBudgetKept
  <2> SUFFICES ASSUME BudgetInv, DailyLimit # None
               PROVE  sentToday + Cardinality(MaySend) <= DailyLimit + lapsed
    BY DEF DailyBudgetKept
  <2> DEFINE P == {c \in Call : pc[c] \in {"call"}}
  <2>1. MaySend \subseteq P /\ IsFiniteSet(P)
    BY EngineAssumption, FS_Subset DEF MaySend
  <2>2. /\ Cardinality(MaySend) <= Cardinality(P)
        /\ Cardinality(MaySend) \in Nat /\ Cardinality(P) = CountAt(pc, {"call"}, Call)
    BY <2>1, FS_Subset, FS_CardinalityType DEF CountAt
  <2>3. CountAt(pc, {"call"}, Call) <= CountAt(pc, UnsentDay, Call)
    BY CountSubset DEF UnsentDay
  <2>4. /\ CountAt(pc, {"call"}, Call) \in Nat /\ CountAt(pc, UnsentDay, Call) \in Nat
        /\ sentToday \in Nat /\ lapsed \in Nat /\ daily.used \in Nat /\ daily.reserved \in Nat
        /\ DailyLimit \in Nat
    BY CountType, EngineAssumption DEF BudgetInv, TypeInv, TypeOK, Ledger
  <2> QED BY <2>2, <2>3, <2>4 DEF BudgetInv, DayInv
<1> QED BY <1>1, BudgetAlways, PTL

\* No way out of execute loses a reservation or leaves one behind, so a
\* reconciliation never misses its reservation.
THEOREM ReservationsHold == Spec => []ReservationsMatch
<1>1. BudgetInv => ReservationsMatch
  <2> SUFFICES ASSUME BudgetInv PROVE ReservationsMatch
    OBVIOUS
  <2>1. ASSUME NEW r \in Request
        PROVE  budget[r].reserved = Cardinality(HoldsRequest \cap CallsOf(r))
    <3>1. HoldsRequest \cap CallsOf(r) = {c \in CallsOf(r) : pc[c] \in Holding}
      BY DEF HoldsRequest, CallsOf, Holding
    <3> QED BY <3>1 DEF BudgetInv, RequestInv, CountAt
  <2>2. Cardinality(HoldsDay) = CountAt(pc, HoldingDay, Call)
    <3>1. HoldsDay = {c \in Call : pc[c] \in HoldingDay}
      BY DEF HoldsDay, HoldingDay
    <3> QED BY <3>1 DEF CountAt
  <2>3. /\ Cardinality(HoldsDay) <= daily.reserved
        /\ faults = 0 => daily.reserved = Cardinality(HoldsDay)
    BY <2>2 DEF BudgetInv, DayInv
  <2>4. \A c \in Call : pc[c] # "broken"
    BY DEF BudgetInv, PlaceInv
  <2> QED BY <2>1, <2>3, <2>4 DEF ReservationsMatch
<1> QED BY <1>1, BudgetAlways, PTL
-----------------------------------------------------------------------------
(***************************************************************************)
(* The daily ledger implements CallAllowance.  A grant is out from the     *)
(* reservation of the day until the call sends, fails before it sends, or  *)
(* gives the unit back; every other unit of the ledger is charged.  Each   *)
(* step does one of six things to the grants, the units and the requests   *)
(* sent, and these are the abstract actions and the stuttering step.       *)
(***************************************************************************)
UnitsTaken == daily.used + daily.reserved

Unmoved  == /\ GrantsOut' = GrantsOut /\ UnitsTaken' = UnitsTaken
            /\ sentToday' = sentToday /\ lapsed' = lapsed
Granted  == \E c \in Call \ GrantsOut :
              /\ UnitsTaken + 1 <= DailyLimit
              /\ GrantsOut' = GrantsOut \cup {c} /\ UnitsTaken' = UnitsTaken + 1
              /\ sentToday' = sentToday /\ lapsed' = lapsed
Spent    == \E c \in GrantsOut :
              /\ GrantsOut' = GrantsOut \ {c} /\ UnitsTaken' = UnitsTaken
              /\ sentToday' = sentToday + 1 /\ lapsed' = lapsed
GivenUp  == \E c \in GrantsOut :
              /\ GrantsOut' = GrantsOut \ {c} /\ UnitsTaken' = UnitsTaken - 1
              /\ sentToday' = sentToday /\ lapsed' = lapsed
Lost     == \E lost \in SUBSET GrantsOut :
              /\ GrantsOut' = GrantsOut \ lost /\ UnitsTaken' = UnitsTaken
              /\ sentToday' = sentToday /\ lapsed' = lapsed
Lapsing  == \E c \in Call \ GrantsOut :
              /\ Cardinality(GrantsOut) + 1 <= UnitsTaken
              /\ GrantsOut' = GrantsOut \cup {c} /\ UnitsTaken' = UnitsTaken
              /\ sentToday' = sentToday /\ lapsed' = lapsed + 1

GrantStep == Unmoved \/ Granted \/ Spent \/ GivenUp \/ Lost \/ Lapsing

\* One call moves: the grants out change by at most that call.
LEMMA GrantsMove ==
  ASSUME BudgetInv, NEW c \in Call, NEW step, pc' = [pc EXCEPT ![c] = step]
  PROVE  GrantsOut' = IF step \in UnsentDay THEN GrantsOut \cup {c} ELSE GrantsOut \ {c}
<1>1. pc \in [Call -> Step]
  BY DEF BudgetInv, TypeInv, TypeOK
<1>2. /\ GrantsOut = {o \in Call : pc[o] \in UnsentDay}
      /\ GrantsOut' = {o \in Call : pc'[o] \in UnsentDay}
  BY DEF GrantsOut, UnsentDay
<1> QED BY <1>1, <1>2

LEMMA GrantSteps ==
  ASSUME BudgetInv, DailyLimit # None, [Next]_vars
  PROVE  GrantStep
<1> USE DEF GrantStep
<1>0. /\ pc \in [Call -> Step] /\ daily \in Ledger /\ sentToday \in Nat
      /\ daily.used \in Nat /\ daily.reserved \in Nat
      /\ GrantsOut = {o \in Call : pc[o] \in UnsentDay}
      /\ TypeInv
  BY DEF BudgetInv, TypeInv, TypeOK, Ledger, GrantsOut, UnsentDay
<1>1. ASSUME NEW c \in Call, NEW step, step \notin UnsentDay, pc' = [pc EXCEPT ![c] = step],
             daily' = daily, sentToday' = sentToday, lapsed' = lapsed
      PROVE  GrantStep
  <2>1. GrantsOut' = GrantsOut \ {c}
    BY <1>1, GrantsMove
  <2>2. UnitsTaken' = UnitsTaken
    BY <1>1 DEF UnitsTaken
  <2>3. CASE c \in GrantsOut
    BY <1>1, <2>1, <2>2, <2>3 DEF Lost
  <2>4. CASE c \notin GrantsOut
    BY <1>1, <2>1, <2>2, <2>4 DEF Unmoved
  <2> QED BY <2>3, <2>4
<1>2. \A step \in Outside \cup {"reserveDaily", "unreserve", "inflight", "commitDaily", "broken"} :
        step \notin UnsentDay
  BY OutsideSteps DEF UnsentDay
<1>3. ASSUME NEW c \in Call,
             \/ Start(c) \/ LastResortProbe(c) \/ Expire(c) \/ StopAtDeadline(c)
             \/ KeepLease(c) \/ Admit(c) \/ Claim(c) \/ Reread(c) \/ Unreserve(c)
             \/ Release(c) \/ Wake(c) \/ Interrupt(c) \/ Record(c) \/ Clear(c) \/ Succeed(c)
      PROVE  GrantStep
  <2>1. daily' = daily /\ sentToday' = sentToday /\ lapsed' = lapsed
    BY <1>3 DEF Start, LastResortProbe, Expire, StopAtDeadline, KeepLease, Admit, Claim, Reread,
       Unreserve, Release, Wake, Interrupt, Record, Clear, Succeed, stores, history
  <2>2. \E step \in Outside \cup {"broken"} : pc' = [pc EXCEPT ![c] = step]
    <3>1. CASE Start(c) \/ LastResortProbe(c) \/ Expire(c) \/ KeepLease(c) \/ Claim(c) \/ Wake(c)
      BY <3>1, OutsideSteps DEF Start, LastResortProbe, Expire, KeepLease, Claim, Wake, Goto
    <3>2. CASE StopAtDeadline(c) \/ Reread(c) \/ Release(c)
      BY <3>2, LeaveMoves DEF StopAtDeadline, Reread, Release
    <3>3. CASE Admit(c)
      BY <3>3, OutsideSteps, LeaveMoves DEF Admit, Goto
    <3>4. CASE Unreserve(c) \/ Interrupt(c)
      BY <3>4, GiveBackMoves DEF Unreserve, Interrupt, Broken, Goto
    <3>5. CASE Record(c) \/ Clear(c) \/ Succeed(c)
      BY <3>5, OutsideSteps DEF Record, Clear, Succeed, Return, Goto
    <3> QED BY <1>3, <3>1, <3>2, <3>3, <3>4, <3>5
  <2> QED BY <1>1, <1>2, <2>1, <2>2
<1>4. ASSUME NEW c \in Call, Reserve(c) PROVE GrantStep
  <2>1. daily' = daily /\ sentToday' = sentToday /\ lapsed' = lapsed
    BY <1>4 DEF Reserve, history
  <2>2. \E step \in Outside \cup {"reserveDaily"} : pc' = [pc EXCEPT ![c] = step]
    BY <1>4, GiveBackMoves DEF Reserve, Goto
  <2> QED BY <1>1, <1>2, <2>1, <2>2
<1>5. ASSUME NEW c \in Call, ReserveDaily(c) PROVE GrantStep
  <2>1. CASE Goto(c, "unreserve", frame[c]) /\ daily' = daily
    <3>1. pc' = [pc EXCEPT ![c] = "unreserve"] /\ sentToday' = sentToday /\ lapsed' = lapsed
      BY <1>5, <2>1 DEF ReserveDaily, Goto, history
    <3> QED BY <1>1, <1>2, <2>1, <3>1
  <2>2. CASE Fits(daily, DailyLimit) /\ daily' = Reserved(daily) /\ Goto(c, "call", frame[c])
    <3>1. /\ pc' = [pc EXCEPT ![c] = "call"] /\ sentToday' = sentToday /\ lapsed' = lapsed
          /\ pc[c] = "reserveDaily"
      BY <1>5, <2>2 DEF ReserveDaily, Goto, history
    <3>2. GrantsOut' = GrantsOut \cup {c} /\ c \notin GrantsOut
      BY <1>0, <3>1, GrantsMove DEF UnsentDay
    <3>3. UnitsTaken' = UnitsTaken + 1
      BY <1>0, <2>2, LedgerMoves DEF UnitsTaken
    <3>4. UnitsTaken + 1 <= DailyLimit
      BY <1>0, <2>2 DEF Fits, UnitsTaken
    <3> QED BY <3>1, <3>2, <3>3, <3>4 DEF Granted
  <2> QED BY <1>5, <2>1, <2>2 DEF ReserveDaily
<1>6. ASSUME NEW c \in Call, Send(c) PROVE GrantStep
  <2>1. /\ pc' = [pc EXCEPT ![c] = "inflight"] /\ pc[c] = "call"
        /\ daily' = daily /\ sentToday' = sentToday + 1 /\ lapsed' = lapsed
    BY <1>6 DEF Send, Goto, stores
  <2>2. GrantsOut' = GrantsOut \ {c} /\ c \in GrantsOut
    BY <1>0, <1>2, <2>1, GrantsMove DEF UnsentDay
  <2> QED BY <2>1, <2>2 DEF Spent, UnitsTaken
<1>7. ASSUME NEW c \in Call, RefuseAtDeadline(c) PROVE GrantStep
  <2>1. /\ pc[c] \in {"call", "inflight"} /\ daily' = daily /\ sentToday' = sentToday
        /\ lapsed' = IF pc[c] = "inflight" THEN lapsed + 1 ELSE lapsed
    BY <1>7 DEF RefuseAtDeadline
  <2>2. budget[RequestOf[c]].reserved >= 1
    BY <2>1, RequestFacts DEF Holding
  <2>3. pc' = [pc EXCEPT ![c] = "refundDaily"]
    BY <1>7, <2>2 DEF RefuseAtDeadline, Goto
  <2>4. GrantsOut' = GrantsOut \cup {c}
    BY <1>0, <2>3, GrantsMove DEF UnsentDay
  <2>5. UnitsTaken' = UnitsTaken
    BY <2>1 DEF UnitsTaken
  <2>6. CASE pc[c] = "call"
    <3>1. GrantsOut' = GrantsOut
      BY <1>0, <2>4, <2>6 DEF UnsentDay
    <3> QED BY <2>1, <2>5, <2>6, <3>1 DEF Unmoved
  <2>7. CASE pc[c] = "inflight"
    <3>1. c \notin GrantsOut
      BY <1>0, <2>7 DEF UnsentDay
    <3>2. Cardinality(GrantsOut) + 1 <= UnitsTaken
      <4> DEFINE H == {o \in Call : pc[o] \in HoldingDay}
      <4>1. GrantsOut \cup {c} \subseteq H
        BY <1>0, <2>7 DEF UnsentDay, HoldingDay
      <4>2. IsFiniteSet(H) /\ IsFiniteSet(GrantsOut)
        BY <1>0, EngineAssumption, FS_Subset
      <4>3. Cardinality(GrantsOut \cup {c}) <= Cardinality(H)
        BY <4>1, <4>2, FS_Subset
      <4>4. Cardinality(GrantsOut \cup {c}) = Cardinality(GrantsOut) + 1
        BY <3>1, <4>2, FS_AddElement
      <4>5. Cardinality(H) <= daily.reserved
        BY DEF BudgetInv, DayInv, CountAt
      <4>6. Cardinality(H) \in Nat /\ Cardinality(GrantsOut) \in Nat
        BY <4>2, FS_CardinalityType
      <4> QED BY <1>0, <4>3, <4>4, <4>5, <4>6 DEF UnitsTaken
    <3> QED BY <2>1, <2>4, <2>5, <2>7, <3>1, <3>2 DEF Lapsing
  <2> QED BY <2>1, <2>6, <2>7
<1>8. ASSUME NEW c \in Call, RefundDaily(c) PROVE GrantStep
  <2>1. pc[c] = "refundDaily" /\ sentToday' = sentToday /\ lapsed' = lapsed
    BY <1>8 DEF RefundDaily, history
  <2>2. daily.reserved >= 1
    BY <2>1, DayFacts DEF HoldingDay
  <2>3. /\ GiveBackAndLeave(c, frame[c], "deadline_exceeded")
        /\ daily' = daily \/ daily' = Returned(daily)
    BY <1>8, <2>2 DEF RefundDaily
  <2>4. PICK step \in Outside : pc' = [pc EXCEPT ![c] = step]
    BY <2>3, GiveBackMoves
  <2>5. CASE daily' = daily
    BY <1>1, <1>2, <2>1, <2>4, <2>5
  <2>6. CASE daily' = Returned(daily)
    <3>1. GrantsOut' = GrantsOut \ {c} /\ c \in GrantsOut
      BY <1>0, <1>2, <2>1, <2>4, GrantsMove DEF UnsentDay
    <3>2. UnitsTaken' = UnitsTaken - 1
      BY <1>0, <2>6, LedgerMoves DEF UnitsTaken
    <3> QED BY <2>1, <3>1, <3>2 DEF GivenUp
  <2> QED BY <2>3, <2>5, <2>6
<1>9. ASSUME NEW c \in Call, Finish(c) PROVE GrantStep
  <2>1. daily' = daily /\ sentToday' = sentToday /\ lapsed' = lapsed
    BY <1>9 DEF Finish, history
  <2>2. \E step \in {"commitDaily", "broken"} : pc' = [pc EXCEPT ![c] = step]
    BY <1>9 DEF Finish, Broken, Goto
  <2> QED BY <1>1, <1>2, <2>1, <2>2
<1>10. ASSUME NEW c \in Call, CommitDaily(c) PROVE GrantStep
  <2>1. pc[c] = "commitDaily" /\ sentToday' = sentToday /\ lapsed' = lapsed /\ Settled(frame[c])
    BY <1>0, <1>10 DEF CommitDaily, history, TypeInv, CallsOK, AtStep
  <2>2. daily.reserved >= 1
    BY <2>1, DayFacts DEF HoldingDay
  <2>3. Settle(c, frame[c]) /\ (daily' = daily \/ daily' = Charged(daily))
    BY <1>10, <2>2 DEF CommitDaily
  <2>4. PICK step \in Outside : pc' = [pc EXCEPT ![c] = step]
    BY <2>1, <2>3, SettleMoves
  <2>5. GrantsOut' = GrantsOut
    BY <1>0, <1>2, <2>1, <2>4, GrantsMove DEF UnsentDay
  <2>6. UnitsTaken' = UnitsTaken
    BY <1>0, <2>3, LedgerMoves DEF UnitsTaken
  <2> QED BY <2>1, <2>5, <2>6 DEF Unmoved
<1>11. ASSUME NEW r \in Request, Crash(r) PROVE GrantStep
  <2>1. /\ daily' = daily /\ sentToday' = sentToday /\ lapsed' = lapsed
        /\ pc' = [c \in Call |-> IF c \in CallsOf(r) THEN "idle" ELSE pc[c]]
    BY <1>11 DEF Crash
  <2>2. GrantsOut' = GrantsOut \ (GrantsOut \cap CallsOf(r))
    BY <1>0, <2>1 DEF GrantsOut
  <2> QED BY <2>1, <2>2 DEF Lost, UnitsTaken
<1>12. CASE Tick \/ UNCHANGED vars \/ \E r \in Request : NewRequest(r) \/ Reprobe(r)
  <2>1. pc' = pc /\ daily' = daily /\ sentToday' = sentToday /\ lapsed' = lapsed
    BY <1>12 DEF Tick, vars, stores, history, NewRequest, Reprobe
  <2> QED BY <2>1 DEF Unmoved, GrantsOut, UnitsTaken
<1> QED
  BY <1>3, <1>4, <1>5, <1>6, <1>7, <1>8, <1>9, <1>10, <1>11, <1>12 DEF Next, Advance

\* The instance has its own copy of Cardinality.
LEMMA SameCardinality == \A S : Allowance!Cardinality(S) = Cardinality(S)
BY DEF Allowance!Cardinality, Cardinality

LEMMA GrantsFinite ==
  ASSUME BudgetInv
  PROVE  /\ IsFiniteSet(GrantsOut) /\ Cardinality(GrantsOut) \in Nat
         /\ UnitsTaken \in Nat /\ GrantsOut \subseteq Call
         /\ UnitsCharged = UnitsTaken - Cardinality(GrantsOut)
<1>1. GrantsOut \subseteq Call
  BY DEF GrantsOut
<1>2. IsFiniteSet(GrantsOut) /\ Cardinality(GrantsOut) \in Nat
  BY <1>1, EngineAssumption, FS_Subset, FS_CardinalityType
<1> QED BY <1>1, <1>2 DEF UnitsTaken, UnitsCharged, BudgetInv, TypeInv, TypeOK, Ledger

LEMMA AllowanceStarts == Init => Allowance!Init
<1> SUFFICES ASSUME Init PROVE Allowance!Init
  OBVIOUS
<1>1. GrantsOut = {} /\ daily.used = 0 /\ daily.reserved = 0 /\ sentToday = 0 /\ lapsed = 0
  BY DEF Init, GrantsOut, Empty
<1>2. UnitsCharged = 0
  BY <1>1, FS_EmptySet DEF UnitsCharged
<1> QED BY <1>1, <1>2 DEF Allowance!Init

LEMMA AllowanceMoves ==
  ASSUME BudgetInv, BudgetInv', DailyLimit # None, [Next]_vars
  PROVE  [Allowance!Next]_<<GrantsOut, UnitsCharged, sentToday, lapsed>>
<1>1. /\ IsFiniteSet(GrantsOut) /\ Cardinality(GrantsOut) \in Nat
      /\ UnitsTaken \in Nat /\ GrantsOut \subseteq Call
      /\ UnitsCharged = UnitsTaken - Cardinality(GrantsOut)
  BY GrantsFinite
<1>2. UnitsCharged' = UnitsTaken' - Cardinality(GrantsOut')
  <2>1. /\ daily'.used \in Nat /\ daily'.reserved \in Nat
        /\ IsFiniteSet(GrantsOut') /\ GrantsOut' \subseteq Call
    BY EngineAssumption, FS_Subset
    DEF GrantsOut, BudgetInv, TypeInv, TypeOK, Ledger
  <2>2. Cardinality(GrantsOut') \in Nat
    BY <2>1, FS_CardinalityType
  <2> QED BY <2>1, <2>2 DEF UnitsCharged, UnitsTaken
<1>3. DailyLimit \in Nat
  BY EngineAssumption
<1>4. CASE Unmoved
  BY <1>1, <1>2, <1>4 DEF Unmoved
<1>5. CASE Granted
  <2>1. PICK c \in Call \ GrantsOut :
          /\ UnitsTaken + 1 <= DailyLimit
          /\ GrantsOut' = GrantsOut \cup {c} /\ UnitsTaken' = UnitsTaken + 1
          /\ sentToday' = sentToday /\ lapsed' = lapsed
    BY <1>5 DEF Granted
  <2>2. Cardinality(GrantsOut') = Cardinality(GrantsOut) + 1
    BY <1>1, <2>1, FS_AddElement
  <2>3. UnitsCharged' = UnitsCharged /\ UnitsCharged + Cardinality(GrantsOut) < DailyLimit
    BY <1>1, <1>2, <1>3, <2>1, <2>2
  <2>4. Allowance!Grant(c)
    BY <2>1, <2>3, SameCardinality DEF Allowance!Grant
  <2> QED BY <2>4 DEF Allowance!Next
<1>6. CASE Spent
  <2>1. PICK c \in GrantsOut :
          /\ GrantsOut' = GrantsOut \ {c} /\ UnitsTaken' = UnitsTaken
          /\ sentToday' = sentToday + 1 /\ lapsed' = lapsed
    BY <1>6 DEF Spent
  <2>2. Cardinality(GrantsOut') = Cardinality(GrantsOut) - 1
    BY <1>1, <2>1, FS_RemoveElement
  <2>3. UnitsCharged' = UnitsCharged + 1
    BY <1>1, <1>2, <2>1, <2>2
  <2>4. Allowance!Send(c)
    BY <2>1, <2>3 DEF Allowance!Send
  <2> QED BY <1>1, <2>4 DEF Allowance!Next
<1>7. CASE GivenUp
  <2>1. PICK c \in GrantsOut :
          /\ GrantsOut' = GrantsOut \ {c} /\ UnitsTaken' = UnitsTaken - 1
          /\ sentToday' = sentToday /\ lapsed' = lapsed
    BY <1>7 DEF GivenUp
  <2>2. Cardinality(GrantsOut') = Cardinality(GrantsOut) - 1
    BY <1>1, <2>1, FS_RemoveElement
  <2>3. UnitsCharged' = UnitsCharged
    BY <1>1, <1>2, <2>1, <2>2
  <2>4. Allowance!GiveBack(c)
    BY <2>1, <2>3 DEF Allowance!GiveBack
  <2> QED BY <1>1, <2>4 DEF Allowance!Next
<1>8. CASE Lost
  <2>1. PICK lost \in SUBSET GrantsOut :
          /\ GrantsOut' = GrantsOut \ lost /\ UnitsTaken' = UnitsTaken
          /\ sentToday' = sentToday /\ lapsed' = lapsed
    BY <1>8 DEF Lost
  <2>2. IsFiniteSet(lost) /\ Cardinality(lost) \in Nat /\ GrantsOut \cap lost = lost
    BY <1>1, <2>1, FS_Subset, FS_CardinalityType
  <2>3. Cardinality(GrantsOut \ lost) = Cardinality(GrantsOut) - Cardinality(lost)
    BY <1>1, <2>2, FS_Difference, ZenonT(40)
  <2>4. UnitsCharged' = UnitsCharged + Cardinality(lost)
    BY <1>1, <1>2, <2>1, <2>2, <2>3
  <2>5. Allowance!Forfeit(lost)
    BY <2>1, <2>4, SameCardinality DEF Allowance!Forfeit
  <2> QED BY <1>1, <2>1, <2>5 DEF Allowance!Next
<1>9. CASE Lapsing
  <2>1. PICK c \in Call \ GrantsOut :
          /\ Cardinality(GrantsOut) + 1 <= UnitsTaken
          /\ GrantsOut' = GrantsOut \cup {c} /\ UnitsTaken' = UnitsTaken
          /\ sentToday' = sentToday /\ lapsed' = lapsed + 1
    BY <1>9 DEF Lapsing
  <2>2. Cardinality(GrantsOut') = Cardinality(GrantsOut) + 1
    BY <1>1, <2>1, FS_AddElement
  <2>3. UnitsCharged >= 1 /\ UnitsCharged' = UnitsCharged - 1
    BY <1>1, <1>2, <2>1, <2>2
  <2>4. Allowance!Lapse(c)
    BY <2>1, <2>3 DEF Allowance!Lapse
  <2> QED BY <2>4 DEF Allowance!Next
<1> QED BY <1>4, <1>5, <1>6, <1>7, <1>8, <1>9, GrantSteps DEF GrantStep

\* The daily ledger, with its transactions, its refunds, its faults and its
\* crashes, implements the allowance: whatever CallAllowance promises holds of it.
THEOREM AllowanceImplemented ==
  ASSUME DailyLimit # None PROVE Spec => ImplementsAllowance
<1>1. BudgetInv /\ BudgetInv' /\ [Next]_vars
      => [Allowance!Next]_<<GrantsOut, UnitsCharged, sentToday, lapsed>>
  BY AllowanceMoves
<1>2. Spec => Allowance!Spec
  BY <1>1, AllowanceStarts, BudgetAlways, PTL DEF Spec, Allowance!Spec
<1> QED BY <1>2 DEF ImplementsAllowance

-----------------------------------------------------------------------------
(***************************************************************************)
(* What the allowance promises, of anything that behaves like it.          *)
(***************************************************************************)
AllowanceInv ==
  /\ GrantsOut \in SUBSET Call
  /\ UnitsCharged \in Nat /\ sentToday \in Nat /\ lapsed \in Nat
  /\ Allowance!WithinLimit

LEMMA PromiseStarts == DailyLimit # None /\ Allowance!Init => AllowanceInv
BY EngineAssumption, FS_EmptySet, SameCardinality
DEF Allowance!Init, AllowanceInv, Allowance!WithinLimit

LEMMA PromiseKept ==
  ASSUME DailyLimit # None, AllowanceInv,
         [Allowance!Next]_<<GrantsOut, UnitsCharged, sentToday, lapsed>>
  PROVE  AllowanceInv'
<1>1. IsFiniteSet(GrantsOut) /\ Cardinality(GrantsOut) \in Nat
  BY EngineAssumption, FS_Subset, FS_CardinalityType DEF AllowanceInv
<1>2. DailyLimit \in Nat
  BY EngineAssumption
<1>3. sentToday <= UnitsCharged + lapsed /\ UnitsCharged + Cardinality(GrantsOut) <= DailyLimit
  BY SameCardinality DEF AllowanceInv, Allowance!WithinLimit
<1>4. ASSUME GrantsOut' \in SUBSET Call, UnitsCharged' \in Nat, sentToday' \in Nat,
             lapsed' \in Nat, sentToday' <= UnitsCharged' + lapsed',
             UnitsCharged' + Cardinality(GrantsOut') <= DailyLimit
      PROVE  AllowanceInv'
  BY <1>4, SameCardinality DEF AllowanceInv, Allowance!WithinLimit
<1>5. ASSUME NEW c \in Call, Allowance!Grant(c) PROVE AllowanceInv'
  <2>1. /\ c \notin GrantsOut /\ GrantsOut' = GrantsOut \cup {c}
        /\ UnitsCharged + Cardinality(GrantsOut) < DailyLimit
        /\ UnitsCharged' = UnitsCharged /\ sentToday' = sentToday /\ lapsed' = lapsed
    BY <1>5, SameCardinality DEF Allowance!Grant
  <2>2. Cardinality(GrantsOut') = Cardinality(GrantsOut) + 1
    BY <1>1, <2>1, FS_AddElement
  <2> QED BY <1>1, <1>2, <1>3, <1>4, <2>1, <2>2 DEF AllowanceInv
<1>6. ASSUME NEW c \in GrantsOut, GrantsOut' = GrantsOut \ {c}
      PROVE  Cardinality(GrantsOut') = Cardinality(GrantsOut) - 1
  BY <1>1, <1>6, FS_RemoveElement
<1>7. ASSUME NEW c \in Call, Allowance!Send(c) PROVE AllowanceInv'
  <2>1. /\ c \in GrantsOut /\ GrantsOut' = GrantsOut \ {c}
        /\ UnitsCharged' = UnitsCharged + 1 /\ sentToday' = sentToday + 1 /\ lapsed' = lapsed
    BY <1>7 DEF Allowance!Send
  <2> QED BY <1>1, <1>2, <1>3, <1>4, <1>6, <2>1 DEF AllowanceInv
<1>8. ASSUME NEW c \in Call, Allowance!GiveBack(c) PROVE AllowanceInv'
  <2>1. /\ c \in GrantsOut /\ GrantsOut' = GrantsOut \ {c}
        /\ UnitsCharged' = UnitsCharged /\ sentToday' = sentToday /\ lapsed' = lapsed
    BY <1>8 DEF Allowance!GiveBack
  <2> QED BY <1>1, <1>2, <1>3, <1>4, <1>6, <2>1 DEF AllowanceInv
<1>9. ASSUME NEW lost \in SUBSET Call, Allowance!Forfeit(lost) PROVE AllowanceInv'
  <2>1. /\ lost \subseteq GrantsOut /\ GrantsOut' = GrantsOut \ lost
        /\ UnitsCharged' = UnitsCharged + Cardinality(lost) /\ sentToday' = sentToday /\ lapsed' = lapsed
    BY <1>9, SameCardinality DEF Allowance!Forfeit
  <2>2. IsFiniteSet(lost) /\ Cardinality(lost) \in Nat /\ GrantsOut \cap lost = lost
    BY <1>1, <2>1, FS_Subset, FS_CardinalityType
  <2>3. Cardinality(GrantsOut') = Cardinality(GrantsOut) - Cardinality(lost)
    BY <1>1, <2>1, <2>2, FS_Difference
  <2> QED BY <1>1, <1>2, <1>3, <1>4, <2>1, <2>2, <2>3 DEF AllowanceInv
<1>10. CASE UNCHANGED <<GrantsOut, UnitsCharged, sentToday, lapsed>>
  BY <1>1, <1>3, <1>4, <1>10 DEF AllowanceInv
<1>11. ASSUME NEW c \in Call, Allowance!Lapse(c) PROVE AllowanceInv'
  <2>1. /\ c \notin GrantsOut /\ GrantsOut' = GrantsOut \cup {c} /\ UnitsCharged >= 1
        /\ UnitsCharged' = UnitsCharged - 1 /\ sentToday' = sentToday /\ lapsed' = lapsed + 1
    BY <1>11 DEF Allowance!Lapse
  <2>2. Cardinality(GrantsOut') = Cardinality(GrantsOut) + 1
    BY <1>1, <2>1, FS_AddElement
  <2> QED BY <1>1, <1>2, <1>3, <1>4, <2>1, <2>2 DEF AllowanceInv
<1> QED BY <1>5, <1>7, <1>8, <1>9, <1>10, <1>11 DEF Allowance!Next

\* Provider tries sent, and grants still out, never exceed the limit, but for the
\* tries that lapsed, however callers interleave, fail and die.
THEOREM AllowanceKept ==
  ASSUME DailyLimit # None PROVE ImplementsAllowance => []Allowance!WithinLimit
<1>1. Allowance!Init => AllowanceInv
  BY PromiseStarts
<1>2. AllowanceInv /\ [Allowance!Next]_<<GrantsOut, UnitsCharged, sentToday, lapsed>> => AllowanceInv'
  BY PromiseKept
<1>3. AllowanceInv => Allowance!WithinLimit
  BY DEF AllowanceInv
<1>4. Allowance!Spec => []Allowance!WithinLimit
  BY <1>1, <1>2, <1>3, PTL DEF Allowance!Spec
<1> QED BY <1>4 DEF ImplementsAllowance
=============================================================================
