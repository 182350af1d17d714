--------------------------- MODULE CallAllowance ---------------------------
(***************************************************************************)
(* What a budget promises, without a ledger: callers take out grants, and  *)
(* a provider try is sent only on a grant.  A grant that is used or lost   *)
(* stays charged, unless its try lapses: then the caller takes it back.    *)
(* One that is not used may be given back.  Never are more than Limit      *)
(* grants charged or out.                                                  *)
(***************************************************************************)
EXTENDS Integers, FiniteSets

CONSTANTS Call, Limit

VARIABLES
  out,       \* callers with a grant they have not used
  charged,   \* grants used or lost
  sent,      \* provider tries sent
  lapsed     \* those of them whose grant was taken back

Init == out = {} /\ charged = 0 /\ sent = 0 /\ lapsed = 0

Grant(c) ==
  /\ c \notin out
  /\ charged + Cardinality(out) < Limit
  /\ out' = out \cup {c}
  /\ UNCHANGED <<charged, sent, lapsed>>

Send(c) ==
  /\ c \in out
  /\ out' = out \ {c}
  /\ charged' = charged + 1
  /\ sent' = sent + 1
  /\ UNCHANGED lapsed

\* The caller fails before it sends, dies, or cannot reach the ledger.
Forfeit(lost) ==
  /\ lost \subseteq out
  /\ out' = out \ lost
  /\ charged' = charged + Cardinality(lost)
  /\ UNCHANGED <<sent, lapsed>>

GiveBack(c) ==
  /\ c \in out
  /\ out' = out \ {c}
  /\ UNCHANGED <<charged, sent, lapsed>>

\* A try that was sent is not counted after all (a batch that the deadline of
\* its request ended midway): the caller has the grant again.
Lapse(c) ==
  /\ c \notin out
  /\ charged >= 1
  /\ out' = out \cup {c}
  /\ charged' = charged - 1
  /\ lapsed' = lapsed + 1
  /\ UNCHANGED sent

Next ==
  \/ \E c \in Call : Grant(c) \/ Send(c) \/ GiveBack(c) \/ Lapse(c)
  \/ \E lost \in SUBSET Call : Forfeit(lost)

Spec == Init /\ [][Next]_<<out, charged, sent, lapsed>>

\* What a grant is worth: no more than Limit provider tries are ever sent, those
\* on grants still out included, but for the lapsed ones (reserve_budget,
\* commit_budget and release_budget).
WithinLimit == sent <= charged + lapsed /\ charged + Cardinality(out) <= Limit
=============================================================================
