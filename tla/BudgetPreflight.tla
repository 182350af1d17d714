--------------------------- MODULE BudgetPreflight ---------------------------
(***************************************************************************)
(* run_budget_preflight (budget_preflight_v3.py) and what the orchestrator *)
(* does with its decision: before any provider is called, a request is let *)
(* through, reduced to the configured limits, or refused.                  *)
(*                                                                         *)
(* A limit, and what a request asks for, is None when it is not set.       *)
(***************************************************************************)
EXTENDS Naturals, Sequences, FiniteSets, FiniteSetsExt

CONSTANT None

Least(a, b) == IF a < b THEN a ELSE b
OrElse(v, default) == IF v = None THEN default ELSE v

\* _planned_provider_calls, _request_timeout_seconds, _context_limit
PlannedCalls(q, order) == Least(Len(order), OrElse(q.calls, Len(order)))
Timeout(q)             == IF q.wall # None THEN q.wall ELSE IF q.kind = "research" THEN q.span ELSE None
Context(q, default)    == IF q.kind = "extract" THEN OrElse(q.context, default) ELSE 0

\* _check: a limit is exceeded too when nobody knows what is used.
Exceeded(limit, observed) == limit # None /\ (observed = None \/ observed > limit)

\* The checks that fail.  units is None when there is no ledger to read.
Checks(pre, q, order, units) ==
  LET asked == [calls   |-> PlannedCalls(q, order),
                daily   |-> IF units = None THEN IF pre.daily = None THEN PlannedCalls(q, order) ELSE None
                            ELSE PlannedCalls(q, order) + units,
                timeout |-> Timeout(q),
                context |-> Context(q, pre.usual)]
  IN {c \in {"calls", "daily", "timeout", "context"} : Exceeded(pre[c], asked[c])}

Proceed       == [action |-> "proceed", reason |-> None, calls |-> None, timeout |-> None, context |-> None]
Abort(reason) == [Proceed EXCEPT !.action = "abort", !.reason = reason]

\* What is left of the call limits; an integer, as the ledger may hold more than the limit.
Fits(pre, planned, units) ==
  /\ pre.calls = None \/ planned <= pre.calls
  /\ pre.daily = None \/ units + planned <= pre.daily
AllowedCalls(pre, planned, units) == {n \in 1..planned : Fits(pre, n, units)}

Decide(pre, q, order, units) ==
  LET failed  == Checks(pre, q, order, units)
      planned == PlannedCalls(q, order)
      allowed == AllowedCalls(pre, planned, units)
      cut     == [Proceed EXCEPT !.action = "degrade",
                    !.calls   = IF Max(allowed) < planned THEN Max(allowed) ELSE None,
                    !.timeout = IF "timeout" \in failed THEN pre.timeout ELSE None,
                    !.context = IF "context" \in failed THEN pre.context ELSE None]
  IN IF ~pre.enabled \/ failed = {}          THEN Proceed
     ELSE IF "daily" \in failed /\ units = None THEN Abort("budget_ledger_unavailable")
     ELSE IF pre.policy = "abort"
          THEN Abort(IF "daily" \in failed /\ units >= pre.daily THEN "daily_quota_exhausted"
                     ELSE "budget_unsatisfiable")
     ELSE IF allowed = {}                    THEN Abort("daily_quota_exhausted")
     ELSE cut
-----------------------------------------------------------------------------
(***************************************************************************)
(* _apply_budget_preflight                                                 *)
(***************************************************************************)
Lower(v, limit) == IF limit = None THEN v ELSE Least(OrElse(v, limit), limit)

Reduced(q, decision) ==
  [q EXCEPT !.calls = Lower(@, decision.calls), !.wall = Lower(@, decision.timeout),
            !.span = IF q.kind = "research" THEN Lower(@, decision.timeout) ELSE @,
            !.context = Lower(@, decision.context)]

ReducedOrder(order, decision) == IF decision.calls = None THEN order ELSE SubSeq(order, 1, decision.calls)
=============================================================================
