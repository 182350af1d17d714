--------------------------- MODULE ResearchFanOut ---------------------------
(***************************************************************************)
(* One research request: run_research_mode (research.py) and its caller    *)
(* _execute_research_v3 (search.py).  Every provider is searched by a      *)
(* daemon thread; the collector takes answers as they come, stops early on *)
(* a quorum, gives up at the deadline, has the best pages extracted, and   *)
(* writes a receipt for every provider.  Threads given up keep running.    *)
(*                                                                         *)
(* What a thread does inside AttemptEngine.execute is module AttemptEngine;*)
(* here it is admitted or not, sends its call, and returns.                *)
(*                                                                         *)
(* An operator whose name starts with Bug is a mistake one could make in   *)
(* the definition that follows it; only mutation runs use it.              *)
(***************************************************************************)
EXTENDS Integers, Sequences, FiniteSets

CONSTANTS
  Members,      \* the providers, in the order they are launched
  Domain,       \* page -> the domain it is on
  Payloads,     \* sets of pages a search may find
  Target,       \* quorum_result_target
  MinDomains,   \* quorum_min_unique_domains
  MinProviders, \* quorum_min_contributing_providers
  Deadlines,    \* research deadlines
  MaxTime,      \* bound of the clock
  None

Provider == {Members[i] : i \in DOMAIN Members}
Page     == DOMAIN Domain

Attempted == {"success", "failed", "cancelled"}
Refused   == {"circuit_open", "budget_blocked", "deadline_exceeded"}
GivenUp   == {"preempted", "timeout"}
Labels    == {"pending", "results", "error", "skipped"} \cup GivenUp

ASSUME ResearchAssumption ==
  /\ Members \in Seq(Provider) /\ Members # <<>>
  /\ \A i, j \in DOMAIN Members : Members[i] = Members[j] => i = j
  /\ Payloads \subseteq SUBSET Page
  /\ Target \in Nat \ {0} /\ MinDomains \in 1 .. Target
  /\ MinProviders \in Nat /\ MinProviders >= 2
  /\ Deadlines \subseteq Nat /\ MaxTime \in Nat
  /\ None \notin Labels \cup Attempted \cup Refused

VARIABLES
  now, deadline,
  phase,      \* where the collector stands
  next,       \* index of the next provider to launch
  queue,      \* completions the collector has not been told of yet
  label,      \* provider -> what the collector makes of it
  limited,    \* the extraction ran out of time
  final,      \* provider -> receipt in the response, None before
  thread,     \* provider -> where its daemon thread stands
  receipt,    \* provider -> receipt of its execution, or None
  pages       \* provider -> the pages it found

members   == <<thread, receipt, pages>>
collected == <<label, queue>>
vars      == <<now, deadline, phase, next, collected, limited, final, members>>

PastDeadline == now >= deadline

Init ==
  /\ now = 0 /\ deadline \in Deadlines
  /\ phase = "launch" /\ next = 1 /\ queue = {}
  /\ label = [p \in Provider |-> None]
  /\ limited = FALSE
  /\ final = [p \in Provider |-> None]
  /\ thread = [p \in Provider |-> "none"]
  /\ receipt = [p \in Provider |-> None]
  /\ pages = [p \in Provider |-> {}]
-----------------------------------------------------------------------------
(***************************************************************************)
(* The daemon threads.                                                     *)
(***************************************************************************)
\* The engine turns the call down.
Refuse(p, reason) ==
  /\ thread[p] = "ready"
  /\ (reason = "deadline_exceeded") <=> PastDeadline
  /\ thread' = [thread EXCEPT ![p] = "returned"]
  /\ receipt' = [receipt EXCEPT ![p] = reason]
  /\ UNCHANGED <<now, deadline, phase, next, collected, limited, final, pages>>

\* operation(): the provider is called.
Call(p) ==
  /\ thread[p] = "ready" /\ ~PastDeadline
  /\ thread' = [thread EXCEPT ![p] = "calling"]
  /\ UNCHANGED <<now, deadline, phase, next, collected, limited, final, receipt, pages>>

Return(p, outcome, found) ==
  /\ thread[p] = "calling"
  /\ outcome # "success" => found = {}
  /\ outcome = "cancelled" => PastDeadline
  /\ thread' = [thread EXCEPT ![p] = "returned"]
  /\ receipt' = [receipt EXCEPT ![p] = outcome]
  /\ pages' = [pages EXCEPT ![p] = found]
  /\ UNCHANGED <<now, deadline, phase, next, collected, limited, final>>

\* DaemonTask._run publishes the result, then runs the callback.
Publish(p) ==
  /\ thread[p] = "returned"
  /\ thread' = [thread EXCEPT ![p] = "done"]
  /\ UNCHANGED <<now, deadline, phase, next, collected, limited, final, receipt, pages>>

Notify(p) ==
  /\ thread[p] = "done"
  /\ thread' = [thread EXCEPT ![p] = "notified"]
  /\ queue' = queue \cup {p}
  /\ UNCHANGED <<now, deadline, phase, next, label, limited, final, receipt, pages>>
-----------------------------------------------------------------------------
(***************************************************************************)
(* The collector.                                                          *)
(***************************************************************************)
\* The budget gate, one provider after the other.
Launch ==
  /\ phase = "launch" /\ next <= Len(Members)
  /\ LET p == Members[next] IN
       IF PastDeadline
       THEN label' = [label EXCEPT ![p] = "skipped"] /\ UNCHANGED thread
       ELSE /\ label' = [label EXCEPT ![p] = "pending"]
            /\ thread' = [thread EXCEPT ![p] = "ready"]
  /\ next' = next + 1
  /\ UNCHANGED <<now, deadline, phase, queue, limited, final, receipt, pages>>

AllLaunched ==
  /\ phase = "launch" /\ next > Len(Members)
  /\ phase' = "turn"
  /\ UNCHANGED <<now, deadline, next, collected, limited, final, members>>

BugDone(p) == p \in queue

Done(p) == thread[p] \in {"done", "notified"}

\* drain_completed: labels once every answer that is there is taken.
Drained == [p \in Provider |->
  IF label[p] = "pending" /\ Done(p)
  THEN IF receipt[p] = "success" THEN "results" ELSE "error"
  ELSE label[p]]

\* What of a labelling is still open, its pages, and who found them first.
Open(lab)     == {p \in Provider : lab[p] = "pending"}
Evidence(lab) == UNION {pages[p] : p \in {p \in Provider : lab[p] = "results"}}

BugContributors(lab) == {p \in Provider : lab[p] = "results" /\ pages[p] # {}}

Contributors(lab) ==
  {Members[i] : i \in {i \in DOMAIN Members :
     /\ lab[Members[i]] = "results"
     /\ ~ pages[Members[i]] \subseteq
            UNION {pages[Members[j]] : j \in {j \in 1 .. i - 1 : lab[Members[j]] = "results"}}}}

Quorum(lab) ==
  /\ Cardinality(Contributors(lab)) >= MinProviders
  /\ Cardinality(Evidence(lab)) >= Target
  /\ Cardinality({Domain[x] : x \in Evidence(lab)}) >= MinDomains

GiveUp(lab, why) == [p \in Provider |-> IF lab[p] = "pending" THEN why ELSE lab[p]]

\* The top of the loop.  Draining and deciding are one step: an answer that comes
\* between the two counts as coming after them.
Turn ==
  /\ phase = "turn"
  /\ queue' = {}
  /\ IF Open(Drained) # {} /\ ~Quorum(Drained)
     THEN label' = Drained /\ phase' = "wait"
     ELSE label' = GiveUp(Drained, "preempted") /\ phase' = "extract"
  /\ UNCHANGED <<now, deadline, next, limited, final, members>>

Wake ==
  /\ phase = "wait" /\ queue # {}
  /\ phase' = "turn"
  /\ UNCHANGED <<now, deadline, next, collected, limited, final, members>>

BugExpired == phase = "wait" /\ queue = {}

\* The wait ends with an empty queue.
Expired == phase = "wait" /\ queue = {} /\ PastDeadline

Expire ==
  /\ Expired
  /\ label' = Drained
  /\ phase' = IF Quorum(Drained) /\ Open(Drained) # {} THEN "turn" ELSE "mark"
  /\ UNCHANGED <<now, deadline, next, queue, limited, final, members>>

\* mark_budget_timeouts, which looks once more.
Mark ==
  /\ phase = "mark"
  /\ label' = GiveUp(Drained, "timeout")
  /\ queue' = {}
  /\ phase' = "extract"
  /\ UNCHANGED <<now, deadline, next, limited, final, members>>

\* Without pages there is nothing to extract, past the deadline no time for it.
Extract ==
  /\ phase = "extract"
  /\ limited' = (Evidence(label) # {} /\ PastDeadline)
  /\ phase' = IF Evidence(label) = {} \/ PastDeadline THEN "report" ELSE "extracting"
  /\ UNCHANGED <<now, deadline, next, collected, final, members>>

Extracted ==
  /\ phase = "extracting"
  /\ phase' = "report"
  /\ UNCHANGED <<now, deadline, next, collected, limited, final, members>>

BugOverdue == phase = "extracting" /\ PastDeadline /\ \A p \in Provider : thread[p] # "calling"

\* The wait for the extraction is over; it is left to its thread.
Overdue == phase = "extracting" /\ PastDeadline

ExtractOverdue ==
  /\ Overdue
  /\ phase' = "report" /\ limited' = TRUE
  /\ UNCHANGED <<now, deadline, next, collected, final, members>>

Called(p) == thread[p] \notin {"none", "ready"} /\ receipt[p] \notin Refused

BugFinalReceipt(p) ==
  CASE receipt[p] # None -> receipt[p]
    [] receipt[p] = None /\ Called(p) -> "cancelled"
    [] OTHER -> "deadline_exceeded"

BugUnstarted(p) ==
  IF label[p] # "timeout" /\ receipt[p] # None THEN receipt[p] ELSE "deadline_exceeded"

\* The receipt of a thread given up at the deadline is not looked at.
FinalReceipt(p) ==
  CASE label[p] # "timeout" /\ receipt[p] # None -> receipt[p]
    [] ~(label[p] # "timeout" /\ receipt[p] # None) /\ Called(p) -> "cancelled"
    [] OTHER -> "deadline_exceeded"

Report ==
  /\ phase = "report"
  /\ final' = [p \in Provider |-> FinalReceipt(p)]
  /\ phase' = "over"
  /\ UNCHANGED <<now, deadline, next, collected, limited, members>>
-----------------------------------------------------------------------------
Tick ==
  /\ now < MaxTime /\ now' = now + 1
  /\ UNCHANGED <<deadline, phase, next, collected, limited, final, members>>

Member(p) ==
  \/ \E r \in Refused : Refuse(p, r)
  \/ Call(p)
  \/ \E o \in Attempted, found \in Payloads : Return(p, o, found)
  \/ Publish(p) \/ Notify(p)

Collector ==
  \/ Launch \/ AllLaunched \/ Turn \/ Wake \/ Expire \/ Mark
  \/ Extract \/ ExtractOverdue \/ Report

Next == (\E p \in Provider : Member(p)) \/ Collector \/ Extracted \/ Tick

Spec == Init /\ [][Next]_vars

\* The collector and the clock go on; a search or the extraction may hang.
FairSpec == Spec /\ WF_vars(Collector) /\ WF_vars(Tick)
-----------------------------------------------------------------------------
(***************************************************************************)
(* Properties.                                                             *)
(***************************************************************************)
\* Types; and a thread has a receipt exactly from its return on.
TypeOK ==
  /\ now \in 0 .. MaxTime /\ deadline \in Deadlines
  /\ phase \in {"launch", "turn", "wait", "mark", "extract", "extracting", "report", "over"}
  /\ next \in 1 .. Len(Members) + 1
  /\ queue \subseteq Provider
  /\ label \in [Provider -> {None} \cup Labels]
  /\ limited \in BOOLEAN
  /\ final \in [Provider -> {None} \cup Attempted \cup Refused]
  /\ thread \in [Provider -> {"none", "ready", "calling", "returned", "done", "notified"}]
  /\ receipt \in [Provider -> {None} \cup Attempted \cup Refused]
  /\ pages \in [Provider -> SUBSET Page]
  /\ \A p \in Provider : (receipt[p] = None) <=> (thread[p] \in {"none", "ready", "calling"})

\* An answer that is there is never given up, neither to a quorum nor to the
\* deadline: the collector looks again just before (drain_completed).
AnswersKept ==
  [][\A p \in Provider :
       label[p] = "pending" /\ label'[p] \in GivenUp => thread[p] \notin {"done", "notified"}]_vars

\* A quorum is of different evidence: empty answers, and answers that repeat one
\* another, cannot make one (_research_quorum_snapshot).
QuorumIsReal ==
  (\E p \in Provider : label[p] = "preempted") =>
    LET answered == {p \in Provider : label[p] = "results"}
        found    == UNION {pages[p] : p \in answered}
    IN /\ \E p, q \in answered : ~ pages[p] \subseteq pages[q] /\ pages[q] # {}
       /\ Cardinality(found) >= Target
       /\ Cardinality({Domain[x] : x \in found}) >= MinDomains

\* Without a quorum every provider stays eligible until the deadline: nothing
\* else makes the collector stop waiting (run_research_mode).
FullRecall ==
  phase \in {"extract", "extracting", "report", "over"} =>
    \A p \in Provider : /\ label[p] \notin {None, "pending"}
                        /\ label[p] \in {"timeout", "skipped"} => PastDeadline

\* Whatever a thread does after it was given up at the deadline, it is not
\* reported as a success; and the results shown have a success as receipt.
ReceiptsMatchResults ==
  phase = "over" => \A p \in Provider :
    /\ label[p] \in {"timeout", "skipped"} => final[p] # "success"
    /\ label[p] = "results" => final[p] = "success"

\* A call that was sent before the response was written is never reported as
\* skipped: it was paid for (_execute_research_v3).
PaidIsReported ==
  [][phase' = "over" /\ phase # "over" =>
       \A p \in Provider : Called(p) => final'[p] \in Attempted]_vars

\* The time budget bounds the request although searches and extraction hang.
BudgetEndsResearch == (deadline <= MaxTime) ~> (phase = "over")

\* build_response of runtime_v3.py: a response with results claims to be limited by
\* a budget.
BudgetLimited ==
  /\ \E p \in Provider : label[p] = "results"
  /\ limited \/ \E p \in Provider : final[p] \in {"cancelled", "budget_blocked", "deadline_exceeded"}

=============================================================================
