--------------------------- MODULE RoutingReceipt ---------------------------
(***************************************************************************)
(* The receipt every response carries (contract_v3.py): what became of     *)
(* each provider of the plan, why the first was not used, and what a cache *)
(* hit says of the request that was answered first.  A receipt that does   *)
(* not agree with the attempts raises ValueError, after the calls were     *)
(* paid for.                                                               *)
(*                                                                         *)
(* An attempt's identity is its place in the list of attempts, 0 for none. *)
(*                                                                         *)
(* An operator whose name starts with Bug is a mistake one could make in   *)
(* the definition that follows it; only mutation runs use it.              *)
(***************************************************************************)
EXTENDS Naturals, Sequences, FiniteSets, SequencesExt, FiniteSetsExt

CONSTANT None

Served == {"success", "partial"}
Lost   == {"failed", "cancelled"}

\* ProviderAttemptV3: an outcome, and the reason of a skip.  The constructors
\* below are the shapes its __post_init__ accepts.
Called(p, outcome) == [provider |-> p, outcome |-> outcome, skip |-> None]
Skipped(p, reason) == [provider |-> p, outcome |-> "skipped", skip |-> reason]

ReasonOfSkip(skip) ==
  CASE skip = "auth_blocked"   -> "blocked_auth"
    [] skip = "quota_blocked"  -> "blocked_quota"
    [] skip = "circuit_open"   -> "circuit_open"
    [] skip = "budget_blocked" -> "budget_denied"
    [] OTHER                   -> "provider_unavailable"

\* attempts_by_provider: a later attempt of a provider replaces an earlier one.
AttemptOf(attempts, p) ==
  LET its == {i \in DOMAIN attempts : attempts[i].provider = p}
  IN IF its = {} THEN 0 ELSE Max(its)

Outcome(attempts, p) ==
  LET i == AttemptOf(attempts, p) IN IF i = 0 THEN None ELSE attempts[i].outcome
-----------------------------------------------------------------------------
(***************************************************************************)
(* complete_routing_receipt_v3                                             *)
(***************************************************************************)
\* selected_seen: the selected provider, or one that served, stands before i.
AnswerBefore(order, selected, attempts, i) ==
  \E j \in 1..(i - 1) : order[j] = selected \/ Outcome(attempts, order[j]) \in Served

Decision(order, selected, attempts, aborted, i) ==
  LET p   == order[i]
      at  == AttemptOf(attempts, p)
      out == Outcome(attempts, p)
      as(verdict, reason, id) == [provider |-> p, decision |-> verdict, reason |-> reason, attempt |-> id]
  IN CASE p = selected    -> as("selected", IF i = 1 THEN "classic_selected" ELSE "fallback_selected", at)
       [] p # selected /\ out = "skipped"  -> as("skipped", ReasonOfSkip(attempts[at].skip), at)
       [] p # selected /\ out \in Lost     -> as("attempted_failed", "attempt_failed", at)
       [] p # selected /\ out \in Served   -> as("attempted_no_selection", "insufficient_results", at)
       [] p # selected /\ out = None       ->
            as("not_attempted",
               IF aborted THEN "budget_denied"
               ELSE IF AnswerBefore(order, selected, attempts, i) THEN "not_attempted_after_success"
               ELSE "provider_unavailable", 0)

Decisions(order, selected, attempts, aborted) ==
  [i \in DOMAIN order |-> Decision(order, selected, attempts, aborted, i)]

\* What was decided of the providers before the selected one.
Before(order, selected, decisions) ==
  IF \E i \in DOMAIN order : order[i] = selected /\ i > 1
  THEN {decisions[i].decision : i \in 1..(SelectInSeq(order, LAMBDA p : p = selected) - 1)}
  ELSE {}

\* The response's own fallback_reason stands only when nothing before the selected
\* provider contradicts it.
BugFallback(order, selected, decisions, said) == said

Fallback(order, selected, decisions, said) ==
  LET before == Before(order, selected, decisions)
  IN IF "attempted_no_selection" \in before THEN "insufficient_results"
     ELSE IF "attempted_failed" \in before THEN "selected_failed"
     ELSE IF "skipped" \in before THEN "selected_skipped"
     ELSE said

Completed(receipt, attempts) ==
  LET aborted   == receipt.preflight = "abort"
      decisions == Decisions(receipt.order, receipt.selected, attempts, aborted)
  IN [receipt EXCEPT !.decisions = decisions, !.completed = TRUE, !.origin = None,
                     !.fallback = Fallback(receipt.order, receipt.selected, decisions, @)]
-----------------------------------------------------------------------------
(***************************************************************************)
(* cache_hit_routing_receipt_v3: nothing was decided now; what the origin  *)
(* selected is kept beside it.                                             *)
(***************************************************************************)
OfHit(receipt, execution) ==
  [order |-> <<>>, selected |-> None, fallback |-> "none", preflight |-> None,
   completed |-> TRUE, decisions |-> <<>>,
   origin |-> [execution |-> execution, order |-> receipt.order, selected |-> receipt.selected,
               chosen |-> IF receipt.selected = None THEN {}
                          ELSE {i \in DOMAIN receipt.order : receipt.order[i] = receipt.selected}]]
-----------------------------------------------------------------------------
(***************************************************************************)
(* validate_routing_receipt_v3                                             *)
(***************************************************************************)
Reasons(decision) ==
  CASE decision = "selected"               -> {"classic_selected", "fallback_selected"}
    [] decision = "attempted_failed"       -> {"attempt_failed"}
    [] decision = "attempted_no_selection" -> {"insufficient_results"}
    [] decision = "skipped"                -> {"blocked_auth", "blocked_quota", "circuit_open",
                                               "budget_denied", "provider_unavailable"}
    [] decision = "not_attempted"          -> {"provider_unavailable", "not_attempted_after_success",
                                               "budget_denied"}

\* The outcomes a decision may rest on.
Grounds(decision) ==
  CASE decision \in {"selected", "attempted_no_selection"} -> Served
    [] decision = "attempted_failed"                       -> Lost
    [] decision = "skipped"                                -> {"skipped"}
    [] decision = "not_attempted"                          -> {}

Supported(d, attempts) ==
  /\ d.reason \in Reasons(d.decision)
  /\ d.decision \in {"attempted_failed", "attempted_no_selection", "skipped"} => d.attempt # 0
  /\ d.decision = "not_attempted" => d.attempt = 0
  /\ d.attempt # 0 =>
       /\ d.attempt \in DOMAIN attempts /\ attempts[d.attempt].provider = d.provider
       /\ attempts[d.attempt].outcome \in Grounds(d.decision)
       /\ d.decision = "skipped" => d.reason = ReasonOfSkip(attempts[d.attempt].skip)

FallbackHolds(receipt) ==
  LET chosen == {i \in DOMAIN receipt.order : receipt.decisions[i].decision = "selected"}
      before == {receipt.decisions[i].decision : i \in 1..(Min(chosen) - 1)}
  IN chosen # {} =>
       /\ (Min(chosen) = 1) = (receipt.fallback = "none")
       /\ receipt.fallback = "selected_failed"      => "attempted_failed" \in before
       /\ receipt.fallback = "insufficient_results" => "attempted_no_selection" \in before
       /\ receipt.fallback = "selected_skipped"     => "skipped" \in before

OriginHolds(receipt) ==
  receipt.origin # None =>
    /\ receipt.order = <<>> /\ receipt.selected = None /\ receipt.decisions = <<>>
    /\ IsInjective(receipt.origin.order)
    /\ Cardinality(receipt.origin.chosen) = IF receipt.origin.selected = None THEN 0 ELSE 1

\* A receipt not completed yet passes; the attempts are those of the response.
ValidReceipt(receipt, attempts) ==
  receipt.completed =>
    /\ IsInjective(receipt.order)
    /\ \A d \in Range(receipt.decisions) : Supported(d, attempts)
    /\ FallbackHolds(receipt)
    /\ receipt.selected # None =>
         Cardinality({i \in DOMAIN receipt.order : receipt.order[i] = receipt.selected}) = 1
    /\ OriginHolds(receipt)
=============================================================================
