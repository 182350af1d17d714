----------------------------- MODULE HedgedRace -----------------------------
(***************************************************************************)
(* One search request over several providers: _race_providers,             *)
(* _last_resort_probe and the part of _execute_search_v3 between them      *)
(* (search.py).  The racer is one thread; every provider call is a daemon  *)
(* thread that runs AttemptEngine.execute, of which only the outcome       *)
(* matters here (module AttemptEngine has the inside).                     *)
(*                                                                         *)
(* An operator whose name starts with Bug is a mistake one could make in   *)
(* the definition that follows it; only mutation runs use it.              *)
(***************************************************************************)
EXTENDS Integers, Sequences, FiniteSets

CONSTANTS
  Candidates,    \* the providers of the plan, best first
  HedgeDelay,    \* provider -> time after which it is slow
  Outcomes,      \* how execute may end
  Deadlines,     \* request deadlines, None for none
  MaxTime,       \* bound of the clock
  None

Provider == {Candidates[i] : i \in DOMAIN Candidates}

\* "raised" is an execute that raised.  The last two happen past the deadline.
AllOutcomes == {"answer", "empty", "failed", "raised", "circuit_open", "blocked",
                "budget_blocked", "cancelled", "deadline_exceeded"}

ASSUME RaceAssumption ==
  /\ Candidates \in Seq(Provider) /\ Candidates # <<>>
  /\ \A i, j \in DOMAIN Candidates : Candidates[i] = Candidates[j] => i = j
  /\ HedgeDelay \in [Provider -> Nat \ {0}]
  /\ Outcomes \subseteq AllOutcomes
  /\ Deadlines \subseteq Nat \cup {None}
  /\ MaxTime \in Nat
  /\ None \notin Nat \cup Provider \cup AllOutcomes

VARIABLES
  now, deadline,
  pending,     \* candidates not launched
  task,        \* provider -> its daemon thread
  outcome,     \* provider -> what its execution returned
  done,        \* queue of finished providers
  finished,    \* providers the racer has dealt with
  hedgeAt,     \* when the provider launched last becomes slow
  phase,       \* where the racer stands
  winner,
  hit,         \* deadline_hit
  \* History, read by no action:
  arrived      \* providers in the order they finished, while the race lasted

request == <<now, deadline>>
tasks   == <<task, outcome, done, arrived>>
vars    == <<request, pending, tasks, finished, hedgeAt, phase, winner, hit>>

PastDeadline == deadline # None /\ now >= deadline
Running      == {p \in Provider : task[p] = "running"}
InFlight     == {p \in Provider : task[p] # "none"} \ finished

Init ==
  /\ now = 0
  /\ deadline \in Deadlines
  /\ pending = Candidates
  /\ task = [p \in Provider |-> "none"]
  /\ outcome = [p \in Provider |-> None]
  /\ done = <<>>
  /\ finished = {}
  /\ hedgeAt = 0
  /\ phase = "wait"
  /\ winner = None
  /\ hit = FALSE
  /\ arrived = <<>>
-----------------------------------------------------------------------------
(***************************************************************************)
(* The racer.                                                              *)
(***************************************************************************)

SlowAt(p)    == now + HedgeDelay[p]

\* launch(): the next candidate starts, or is skipped past the deadline.
Launch(dealtWith) ==
  LET p == Head(pending) IN
  /\ pending' = Tail(pending)
  /\ IF PastDeadline
     THEN /\ outcome' = [outcome EXCEPT ![p] = "deadline_exceeded"]
          /\ finished' = dealtWith \cup {p}
          /\ UNCHANGED <<task, hedgeAt>>
     ELSE /\ task' = [task EXCEPT ![p] = "running"]
          /\ hedgeAt' = SlowAt(p)
          /\ finished' = dealtWith
          /\ UNCHANGED outcome

Room(inFlight)    == pending # <<>> /\ Cardinality(inFlight) < 2

\* Nothing runs: the first candidate, or the next one.
StartNext ==
  /\ phase = "wait" /\ InFlight = {} /\ pending # <<>>
  /\ Launch(finished)
  /\ UNCHANGED <<request, done, arrived, phase, winner, hit>>

BugExhausted ==
  /\ phase = "wait" /\ InFlight = {} /\ pending # Candidates
  /\ phase' = "ended"
  /\ UNCHANGED <<request, pending, tasks, finished, hedgeAt, winner, hit>>

\* Nothing runs and no candidate is left.
Exhausted ==
  /\ phase = "wait" /\ InFlight = {} /\ pending = <<>>
  /\ phase' = "ended"
  /\ UNCHANGED <<request, pending, tasks, finished, hedgeAt, winner, hit>>

BugHasResults(o) == o \in {"answer", "empty"}
HasResults(o)    == o = "answer"

\* done.get() returns: an answer with results ends the race, anything else
\* makes room for the next candidate.
Take ==
  LET p == Head(done)
      dealtWith == finished \cup {p} IN
  /\ phase = "wait" /\ InFlight # {} /\ done # <<>>
  /\ done' = Tail(done)
  /\ IF HasResults(outcome[p])
     THEN /\ winner' = p /\ phase' = "ended" /\ finished' = dealtWith
          /\ UNCHANGED <<pending, task, outcome, hedgeAt>>
     ELSE /\ UNCHANGED <<winner, phase>>
          /\ IF Room(InFlight \ {p})
             THEN Launch(dealtWith)
             ELSE /\ finished' = dealtWith
                  /\ UNCHANGED <<pending, task, outcome, hedgeAt>>
  /\ UNCHANGED <<request, arrived, hit>>

BugWaitOver ==
  /\ phase = "wait" /\ InFlight # {} /\ done = <<>>
  /\ Room(InFlight) /\ now >= hedgeAt
  /\ phase' = "timeout"
  /\ UNCHANGED <<request, pending, tasks, finished, hedgeAt, winner, hit>>

\* done.get() raises Empty: the wait for a hedge or for the deadline is over.
WaitOver ==
  /\ phase = "wait" /\ InFlight # {} /\ done = <<>>
  /\ (Room(InFlight) /\ now >= hedgeAt) \/ PastDeadline
  /\ phase' = "timeout"
  /\ UNCHANGED <<request, pending, tasks, finished, hedgeAt, winner, hit>>

\* The clock is read again, and a result may have arrived meanwhile.
StopAtDeadline ==
  /\ phase = "timeout" /\ PastDeadline
  /\ hit' = TRUE /\ phase' = "ended"
  /\ UNCHANGED <<request, pending, tasks, finished, hedgeAt, winner>>

Hedge ==
  /\ phase = "timeout" /\ ~PastDeadline
  /\ Launch(finished)
  /\ phase' = "wait"
  /\ UNCHANGED <<request, done, arrived, winner, hit>>
-----------------------------------------------------------------------------
(***************************************************************************)
(* The report.                                                             *)
(***************************************************************************)

\* The receipt of a candidate: its execution's, or one written for it.
Receipt(p) ==
  IF p \in finished /\ outcome[p] # "raised" THEN outcome[p]
  ELSE IF task[p] # "none" THEN "cancelled"
  ELSE IF hit THEN "deadline_exceeded" ELSE "policy_excluded"

BugSuperseded == {}
Superseded ==
  IF hit THEN {}
  ELSE {p \in Provider : task[p] # "none" /\ (p \in finished => outcome[p] = "raised")}

Empties == {i \in DOMAIN Candidates :
              Candidates[i] \in finished /\ outcome[Candidates[i]] = "empty"}

\* With no results from anyone an empty answer wins, by rank.
EmptyWinner ==
  IF Empties = {} THEN None
  ELSE Candidates[CHOOSE i \in Empties : \A j \in Empties : i <= j]

Outage    == \A p \in Provider : Receipt(p) = "circuit_open"

Conclude ==
  /\ phase = "ended"
  /\ winner' = IF winner = None THEN EmptyWinner ELSE winner
  /\ phase' = IF winner' = None /\ Outage THEN "probe" ELSE "over"
  /\ UNCHANGED <<request, pending, tasks, finished, hedgeAt, hit>>

Possible == {o \in Outcomes : o \in {"cancelled", "deadline_exceeded"} => PastDeadline}

\* _last_resort_probe: the racer itself calls the first candidate.
Probe ==
  LET p == Head(Candidates) IN
  /\ phase = "probe"
  /\ \E o \in Possible :
       /\ outcome' = [outcome EXCEPT ![p] = o]
       /\ winner' = IF o \in {"answer", "empty"} THEN p ELSE None
  /\ phase' = "over"
  /\ UNCHANGED <<request, pending, task, done, arrived, finished, hedgeAt, hit>>

\* The response is marked as limited by its attempt or time budget.
BudgetLimited ==
  \E p \in Provider : \/ Receipt(p) = "cancelled" /\ p \notin Superseded
                      \/ Receipt(p) \in {"budget_blocked", "deadline_exceeded"}
-----------------------------------------------------------------------------
\* A daemon thread ends, during the race or after it.
TaskEnds(p) ==
  /\ task[p] = "running"
  /\ task' = [task EXCEPT ![p] = "done"]
  /\ \E o \in Possible : outcome' = [outcome EXCEPT ![p] = o]
  /\ done' = Append(done, p)
  /\ arrived' = IF phase \in {"wait", "timeout"} THEN Append(arrived, p) ELSE arrived
  /\ UNCHANGED <<request, pending, finished, hedgeAt, phase, winner, hit>>

Tick ==
  /\ now < MaxTime
  /\ now' = now + 1
  /\ UNCHANGED <<deadline, pending, tasks, finished, hedgeAt, phase, winner, hit>>

Racer == StartNext \/ Exhausted \/ Take \/ WaitOver \/ StopAtDeadline \/ Hedge
         \/ Conclude \/ Probe

Next == Racer \/ Tick \/ \E p \in Provider : TaskEnds(p)

Spec == Init /\ [][Next]_vars

\* The racer and the clock go on; a provider may hang forever.
FairSpec == Spec /\ WF_vars(Racer) /\ WF_vars(Tick)
-----------------------------------------------------------------------------
(***************************************************************************)
(* Properties.                                                             *)
(***************************************************************************)

\* Unless time ran out, a request that ends without results has tried every
\* candidate: none is left aside while nothing better came.
EveryoneTried ==
  phase = "over" /\ ~hit /\ (winner = None \/ outcome[winner] # "answer")
  => \A p \in Provider : Receipt(p) # "policy_excluded"

\* The first answer with results wins, in the order the providers finished,
\* whichever was launched first; it is never passed over for a later one.
FirstAnswerWins ==
  phase = "over" /\ ~hit =>
    \A i \in DOMAIN arrived :
      /\ outcome[arrived[i]] = "answer"
      /\ \A j \in 1 .. i - 1 : outcome[arrived[j]] # "answer"
      => winner = arrived[i]

\* A response says that a budget limited it exactly when one did: the request
\* ran out of time, or a call was refused for the budget.  A provider that
\* lost the race is not a limit.
LimitReportedTruly ==
  phase = "over" /\ winner # None =>
    /\ BudgetLimited => PastDeadline \/ \E p \in Provider : outcome[p] = "budget_blocked"
    /\ hit => BudgetLimited

\* A request with a deadline leaves its race even if a provider never answers.
DeadlineEndsRace == deadline # None ~> phase \in {"probe", "over"}

=============================================================================
