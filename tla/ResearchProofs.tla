--------------------------- MODULE ResearchProofs ---------------------------
(***************************************************************************)
(* Theorems about ResearchFanOut, for any providers, pages, quorum and     *)
(* deadlines.                                                              *)
(***************************************************************************)
EXTENDS ResearchFanOut, FiniteSetTheorems, TLAPS

\* The collector has looked for answers for the last time.
Collected == phase \in {"extract", "extracting", "report", "over"}

\* Exactly the providers not yet launched are unlabelled; those not launched have
\* no thread, and whose results are shown has succeeded.
Launched ==
  /\ \A i \in DOMAIN Members : (label[Members[i]] = None) <=> (i >= next)
  /\ phase # "launch" => next = Len(Members) + 1
  /\ \A p \in Provider : label[p] \in {None, "skipped"} => thread[p] = "none"
  /\ \A p \in Provider : label[p] = "results" => receipt[p] = "success"

\* Providers are given up at the deadline, or to a quorum, and then all of them.
Stopped ==
  /\ phase = "mark" => PastDeadline
  /\ \A p \in Provider : label[p] \in {"timeout", "skipped"} => PastDeadline
  /\ Collected => \A p \in Provider : label[p] # "pending"

Reported ==
  phase = "over" => \A p \in Provider :
    /\ label[p] \in {"timeout", "skipped"} => final[p] # "success"
    /\ label[p] = "results" => final[p] = "success"

ResearchInv == TypeOK /\ Launched /\ Stopped /\ Reported

\* A quorum is found at the last look, and nothing it rests on changes afterwards.
QuorumInv == (\E p \in Provider : label[p] = "preempted") => Collected /\ QuorumIsReal

USE ResearchAssumption
-----------------------------------------------------------------------------
LEMMA MembersType ==
  /\ Len(Members) \in Nat /\ DOMAIN Members = 1 .. Len(Members)
  /\ \A i \in DOMAIN Members : Members[i] \in Provider
BY DEF Provider

\* Every label but an open one survives a drain and a giving up.
LEMMA DrainedLabel ==
  ASSUME TypeOK, NEW p \in Provider
  PROVE  \/ Drained[p] = label[p] /\ (label[p] = "pending" => ~Done(p))
         \/ /\ label[p] = "pending" /\ Done(p)
            /\ Drained[p] \in {"results", "error"}
            /\ Drained[p] = "results" => receipt[p] = "success"
BY DEF Drained

LEMMA DrainedType ==
  ASSUME TypeOK
  PROVE  Drained \in [Provider -> {None} \cup Labels]
<1>1. \A p \in Provider : Drained[p] \in {None} \cup Labels
  BY DrainedLabel DEF TypeOK, Labels
<1> QED BY <1>1 DEF Drained

LEMMA GiveUpType ==
  ASSUME NEW lab \in [Provider -> {None} \cup Labels], NEW why \in GivenUp
  PROVE  /\ GiveUp(lab, why) \in [Provider -> {None} \cup Labels]
         /\ \A p \in Provider : /\ GiveUp(lab, why)[p] # "pending"
                                /\ GiveUp(lab, why)[p] = IF lab[p] = "pending" THEN why ELSE lab[p]
BY DEF GiveUp, Labels, GivenUp
-----------------------------------------------------------------------------
LEMMA InitType == Init => TypeOK
<1> SUFFICES ASSUME Init PROVE TypeOK
  OBVIOUS
<1>1. now \in 0 .. MaxTime /\ next \in 1 .. Len(Members) + 1
  BY MembersType DEF Init
<1>2. \A p \in Provider : (receipt[p] = None) <=> (thread[p] \in {"none", "ready", "calling"})
  BY DEF Init
<1> QED BY <1>1, <1>2 DEF Init, TypeOK

\* The steps of the threads.
LEMMA MemberType ==
  ASSUME TypeOK, NEW p \in Provider, Member(p)
  PROVE  TypeOK'
<1>1. CASE \E r \in Refused : Refuse(p, r)
  BY <1>1 DEF Refuse, TypeOK, collected
<1>2. CASE Call(p)
  BY <1>2 DEF Call, TypeOK, collected
<1>3. CASE \E o \in Attempted, found \in Payloads : Return(p, o, found)
  BY <1>3 DEF Return, TypeOK, collected
<1>4. CASE Publish(p)
  BY <1>4 DEF Publish, TypeOK, collected
<1>5. CASE Notify(p)
  BY <1>5 DEF Notify, TypeOK
<1> QED BY <1>1, <1>2, <1>3, <1>4, <1>5 DEF Member

\* The steps of the collector.
LEMMA CollectorType ==
  ASSUME TypeOK, Launched, Collector
  PROVE  TypeOK'
<1>1. CASE Launch
  <2>1. PICK p \in Provider : p = Members[next]
    BY <1>1, MembersType DEF Launch, TypeOK
  <2>2. label[p] = None /\ thread[p] = "none"
    BY <1>1, <2>1, MembersType DEF Launch, Launched, TypeOK
  <2>3. next' \in 1 .. Len(Members) + 1
    BY <1>1, MembersType DEF Launch, TypeOK
  <2>4. CASE PastDeadline
    BY <1>1, <2>1, <2>3, <2>4 DEF Launch, TypeOK, Labels
  <2>5. CASE ~PastDeadline
    BY <1>1, <2>1, <2>2, <2>3, <2>5 DEF Launch, TypeOK, Labels
  <2> QED BY <2>4, <2>5
<1>2. CASE AllLaunched
  BY <1>2 DEF AllLaunched, TypeOK, collected, members
<1>3. CASE Turn
  BY <1>3, DrainedType, GiveUpType DEF Turn, TypeOK, members, GivenUp
<1>4. CASE Wake
  BY <1>4 DEF Wake, TypeOK, collected, members
<1>5. CASE Expire
  BY <1>5, DrainedType DEF Expire, TypeOK, members
<1>6. CASE Mark
  BY <1>6, DrainedType, GiveUpType DEF Mark, TypeOK, members, GivenUp
<1>7. CASE Extract
  BY <1>7 DEF Extract, TypeOK, collected, members
<1>8. CASE ExtractOverdue
  BY <1>8 DEF ExtractOverdue, TypeOK, collected, members
<1>9. CASE Report
  <2>1. \A p \in Provider : FinalReceipt(p) \in Attempted \cup Refused
    BY DEF FinalReceipt, TypeOK, Attempted, Refused
  <2> QED BY <1>9, <2>1 DEF Report, TypeOK, collected, members
<1> QED BY <1>1, <1>2, <1>3, <1>4, <1>5, <1>6, <1>7, <1>8, <1>9 DEF Collector

LEMMA OtherType ==
  ASSUME TypeOK, Extracted \/ Tick \/ UNCHANGED vars
  PROVE  TypeOK'
<1>1. CASE Extracted
  BY <1>1 DEF Extracted, TypeOK, collected, members
<1>2. CASE Tick
  BY <1>2 DEF Tick, TypeOK, collected, members
<1>3. CASE UNCHANGED vars
  BY <1>3 DEF vars, TypeOK, collected, members
<1> QED BY <1>1, <1>2, <1>3
-----------------------------------------------------------------------------
(***************************************************************************)
(* The invariant: who is unlabelled, who succeeded.                        *)
(***************************************************************************)
LEMMA MemberLaunched ==
  ASSUME TypeOK, Launched, NEW p \in Provider, Member(p)
  PROVE  Launched'
<1>1. label' = label /\ next' = next /\ phase' = phase
  BY DEF Member, Refuse, Call, Return, Publish, Notify, collected
<1>2. \A q \in Provider : thread[q] = "none" => thread'[q] = "none"
  BY DEF Member, Refuse, Call, Return, Publish, Notify, TypeOK
<1>3. \A q \in Provider : receipt[q] = "success" => receipt'[q] = "success"
  BY DEF Member, Refuse, Call, Return, Publish, Notify, TypeOK, Attempted
<1> QED BY <1>1, <1>2, <1>3 DEF Launched

\* Relabelling what is open keeps the invariant.
LEMMA Relabelled ==
  ASSUME TypeOK, Launched, phase # "launch", phase' # "launch",
         UNCHANGED <<next, thread, receipt>>,
         \A p \in Provider : \/ label'[p] = label[p]
                             \/ /\ label[p] = "pending"
                                /\ label'[p] \in {"results", "error"} \cup GivenUp
                                /\ label'[p] = "results" => receipt[p] = "success"
  PROVE  Launched'
<1>1. \A p \in Provider : label'[p] \in {None, "skipped", "results"} =>
                           label'[p] = label[p] \/ (label'[p] = "results" /\ receipt[p] = "success")
  BY DEF Labels, GivenUp
<1>2. \A p \in Provider : (label[p] = None) <=> (label'[p] = None)
  BY DEF Labels, GivenUp
<1>3. \A i \in DOMAIN Members : (label'[Members[i]] = None) <=> (i >= next')
  BY <1>2, MembersType DEF Launched
<1>4. \A p \in Provider : label'[p] \in {None, "skipped"} => thread'[p] = "none"
  BY <1>1 DEF Launched, Labels
<1>5. \A p \in Provider : label'[p] = "results" => receipt'[p] = "success"
  BY <1>1 DEF Launched
<1> QED BY <1>3, <1>4, <1>5 DEF Launched

LEMMA CollectorLaunched ==
  ASSUME TypeOK, Launched, Collector
  PROVE  Launched'
<1>1. CASE Launch
  <2>1. PICK p \in Provider : p = Members[next]
    BY <1>1, MembersType DEF Launch, TypeOK
  <2>2. /\ label'[p] \in {"skipped", "pending"}
        /\ label'[p] = "skipped" => thread' = thread
        /\ \A q \in Provider \ {p} : label'[q] = label[q] /\ thread'[q] = thread[q]
        /\ next' = next + 1 /\ phase' = "launch" /\ receipt' = receipt
    BY <1>1, <2>1 DEF Launch, TypeOK
  <2>3. label[p] = None
    BY <1>1, <2>1, MembersType DEF Launch, Launched, TypeOK
  <2>4. \A i \in DOMAIN Members : i # next => Members[i] \in Provider \ {p}
    BY <1>1, <2>1, MembersType DEF Launch, TypeOK
  <2>5. \A i \in DOMAIN Members : (label'[Members[i]] = None) <=> (i >= next')
    <3> SUFFICES ASSUME NEW i \in DOMAIN Members
                 PROVE  (label'[Members[i]] = None) <=> (i >= next')
      OBVIOUS
    <3>1. CASE i = next
      BY <2>1, <2>2, <3>1 DEF Labels, TypeOK
    <3>2. CASE i # next
      BY <2>2, <2>4, <3>2, MembersType DEF Launched, TypeOK
    <3> QED BY <3>1, <3>2
  <2>6. \A q \in Provider : label'[q] \in {None, "skipped"} => thread'[q] = "none"
    BY <2>2, <2>3 DEF Launched, Labels
  <2>7. \A q \in Provider : label'[q] = "results" => receipt'[q] = "success"
    BY <2>2 DEF Launched
  <2> QED BY <2>2, <2>5, <2>6, <2>7 DEF Launched
<1>2. CASE AllLaunched
  <2>1. next = Len(Members) + 1
    BY <1>2, MembersType DEF AllLaunched, TypeOK
  <2> QED BY <1>2, <2>1 DEF AllLaunched, Launched, collected, members
<1>3. CASE Turn
  <2>1. phase # "launch" /\ phase' # "launch" /\ UNCHANGED <<next, thread, receipt>>
    BY <1>3 DEF Turn, members
  <2>2. label' = Drained \/ label' = GiveUp(Drained, "preempted")
    BY <1>3 DEF Turn
  <2> QED BY <2>1, <2>2, Relabelled, DrainedLabel, DrainedType, GiveUpType DEF GivenUp
<1>4. CASE Expire
  <2>1. phase # "launch" /\ phase' # "launch" /\ UNCHANGED <<next, thread, receipt>>
    BY <1>4 DEF Expire, Expired, members
  <2>2. label' = Drained
    BY <1>4 DEF Expire
  <2> QED BY <2>1, <2>2, Relabelled, DrainedLabel
<1>5. CASE Mark
  <2>1. phase # "launch" /\ phase' # "launch" /\ UNCHANGED <<next, thread, receipt>>
    BY <1>5 DEF Mark, members
  <2>2. label' = GiveUp(Drained, "timeout")
    BY <1>5 DEF Mark
  <2> QED BY <2>1, <2>2, Relabelled, DrainedLabel, DrainedType, GiveUpType DEF GivenUp
<1>6. CASE Wake \/ Extract \/ ExtractOverdue \/ Report
  BY <1>6 DEF Wake, Extract, ExtractOverdue, Overdue, Report, Launched, collected, members
<1> QED BY <1>1, <1>2, <1>3, <1>4, <1>5, <1>6 DEF Collector

LEMMA OtherLaunched ==
  ASSUME TypeOK, Launched, Extracted \/ Tick \/ UNCHANGED vars
  PROVE  Launched'
BY DEF Extracted, Tick, vars, Launched, collected, members
-----------------------------------------------------------------------------
(***************************************************************************)
(* The invariant: why the collector stopped, what it reports.              *)
(***************************************************************************)
LEMMA TimePasses ==
  ASSUME TypeOK, [Next]_vars, PastDeadline
  PROVE  PastDeadline'
<1>1. now \in Nat /\ deadline \in Nat /\ deadline' = deadline
  BY DEF TypeOK, Next, Member, Refuse, Call, Return, Publish, Notify, Collector, Launch,
         AllLaunched, Turn, Wake, Expire, Mark, Extract, Extracted, ExtractOverdue, Report,
         Tick, vars
<1>2. now' = now \/ now' = now + 1
  BY DEF Next, Member, Refuse, Call, Return, Publish, Notify, Collector, Launch,
         AllLaunched, Turn, Wake, Expire, Mark, Extract, Extracted, ExtractOverdue, Report,
         Tick, vars
<1> QED BY <1>1, <1>2 DEF PastDeadline

\* Steps that leave the labels alone.
LEMMA LabelsKept ==
  ASSUME TypeOK, Launched, Stopped, [Next]_vars, UNCHANGED label, phase' # "mark" \/ UNCHANGED phase,
         Collected' => Collected
  PROVE  Stopped'
BY TimePasses DEF Stopped

LEMMA CollectorStopped ==
  ASSUME TypeOK, Launched, Stopped, Collector
  PROVE  Stopped'
<1>0. [Next]_vars
  BY DEF Next
<1>1. CASE Launch
  <2>1. \A p \in Provider : label'[p] \in {"timeout", "skipped"} =>
                             label'[p] = label[p] \/ PastDeadline
    BY <1>1, MembersType DEF Launch, TypeOK
  <2>2. phase' = "launch"
    BY <1>1 DEF Launch
  <2> QED BY <1>0, <2>1, <2>2, TimePasses DEF Stopped, Collected
<1>2. CASE AllLaunched \/ Wake
  BY <1>0, <1>2, LabelsKept DEF AllLaunched, Wake, Collected, collected
<1>3. CASE Turn
  <2>1. \A p \in Provider : label'[p] \in {"timeout", "skipped"} => label'[p] = label[p]
    BY <1>3, DrainedLabel, DrainedType, GiveUpType DEF Turn, GivenUp
  <2>2. Collected' => \A p \in Provider : label'[p] # "pending"
    BY <1>3, DrainedType, GiveUpType DEF Turn, Collected, GivenUp
  <2>3. phase' # "mark"
    BY <1>3 DEF Turn
  <2> QED BY <1>0, <2>1, <2>2, <2>3, TimePasses DEF Stopped
<1>4. CASE Expire
  <2>1. PastDeadline' /\ ~Collected'
    BY <1>0, <1>4, TimePasses DEF Expire, Expired, Collected
  <2> QED BY <2>1 DEF Stopped
<1>5. CASE Mark
  <2>1. PastDeadline'
    BY <1>0, <1>5, TimePasses DEF Mark, Stopped
  <2>2. \A p \in Provider : label'[p] # "pending"
    BY <1>5, DrainedType, GiveUpType DEF Mark, GivenUp
  <2> QED BY <2>1, <2>2 DEF Stopped
<1>6. CASE Extract \/ ExtractOverdue \/ Report
  BY <1>0, <1>6, LabelsKept DEF Extract, ExtractOverdue, Overdue, Report, Collected, collected
<1> QED BY <1>1, <1>2, <1>3, <1>4, <1>5, <1>6 DEF Collector

LEMMA OtherStopped ==
  ASSUME TypeOK, Launched, Stopped,
         (\E p \in Provider : Member(p)) \/ Extracted \/ Tick \/ UNCHANGED vars
  PROVE  Stopped'
<1>1. [Next]_vars
  BY DEF Next
<1>2. UNCHANGED label
  BY DEF Member, Refuse, Call, Return, Publish, Notify, Extracted, Tick, vars, collected
<1>3. UNCHANGED phase \/ (phase = "extracting" /\ phase' = "report")
  BY DEF Member, Refuse, Call, Return, Publish, Notify, Extracted, Tick, vars
<1> QED BY <1>1, <1>2, <1>3, LabelsKept DEF Collected

\* The receipts are written once, from labels and receipts that agree.
LEMMA ReportStep ==
  ASSUME TypeOK, Launched, Reported, [Next]_vars
  PROVE  Reported'
<1>1. CASE Report
  <2>1. \A p \in Provider : /\ label[p] = "timeout" => FinalReceipt(p) # "success"
                            /\ label[p] = "results" => FinalReceipt(p) = "success"
    BY DEF FinalReceipt, Launched, Attempted
  <2>2. \A p \in Provider : label[p] = "skipped" => receipt[p] = None /\ ~Called(p)
    BY DEF Launched, TypeOK, Called
  <2>3. \A p \in Provider : label[p] = "skipped" => FinalReceipt(p) # "success"
    BY <2>2 DEF FinalReceipt
  <2> QED BY <1>1, <2>1, <2>3 DEF Report, Reported, collected
<1>2. CASE ~Report
  <2>1. phase' = "over" => phase = "over" /\ UNCHANGED <<label, final>>
    BY <1>2 DEF Next, Member, Refuse, Call, Return, Publish, Notify, Collector, Launch,
         AllLaunched, Turn, Wake, Expire, Expired, Mark, Extract, Extracted, ExtractOverdue,
         Overdue, Tick, vars, collected
  <2> QED BY <2>1 DEF Reported
<1> QED BY <1>1, <1>2
-----------------------------------------------------------------------------
(***************************************************************************)
(* The theorems.                                                           *)
(***************************************************************************)
LEMMA InvHolds == Spec => []ResearchInv
<1>1. Init => ResearchInv
  <2> SUFFICES ASSUME Init PROVE ResearchInv
    OBVIOUS
  <2>1. TypeOK
    BY InitType
  <2>2. \A p \in Provider : label[p] = None /\ label[p] \notin Labels /\ thread[p] = "none"
    BY DEF Init
  <2>3. \A i \in DOMAIN Members : (label[Members[i]] = None) <=> (i >= next)
    BY <2>2, MembersType DEF Init
  <2>4. Launched
    BY <2>2, <2>3 DEF Init, Launched, Labels
  <2>5. Stopped /\ Reported
    BY <2>2 DEF Init, Stopped, Reported, Collected, Labels, GivenUp
  <2> QED BY <2>1, <2>4, <2>5 DEF ResearchInv
<1>2. ResearchInv /\ [Next]_vars => ResearchInv'
  <2> SUFFICES ASSUME ResearchInv, [Next]_vars PROVE ResearchInv'
    OBVIOUS
  <2>1. Reported'
    BY ReportStep DEF ResearchInv
  <2>2. CASE \E p \in Provider : Member(p)
    BY <2>1, <2>2, MemberType, MemberLaunched, OtherStopped DEF ResearchInv
  <2>3. CASE Collector
    BY <2>1, <2>3, CollectorType, CollectorLaunched, CollectorStopped DEF ResearchInv
  <2>4. CASE Extracted \/ Tick \/ UNCHANGED vars
    BY <2>1, <2>4, OtherType, OtherLaunched, OtherStopped DEF ResearchInv
  <2> QED BY <2>2, <2>3, <2>4 DEF Next
<1> QED BY <1>1, <1>2, PTL DEF Spec

\* Types; and a thread has a receipt exactly from its return on (execute_provider).
THEOREM TypeCorrect == Spec => []TypeOK
BY InvHolds, PTL DEF ResearchInv

\* Without a quorum nobody is given up before the deadline (run_research_mode), and
\* in the end no provider is left without a result, an error or a reason.
THEOREM RecallIsFull == Spec => []FullRecall
<1>1. ResearchInv => FullRecall
  <2> SUFFICES ASSUME ResearchInv, Collected, NEW p \in Provider
               PROVE  /\ label[p] \notin {None, "pending"}
                      /\ label[p] \in {"timeout", "skipped"} => PastDeadline
    BY DEF FullRecall, Collected
  <2>1. PICK i \in DOMAIN Members : p = Members[i]
    BY DEF Provider
  <2>2. next = Len(Members) + 1
    BY DEF ResearchInv, Launched, Collected
  <2>3. label[p] # None
    BY <2>1, <2>2, MembersType DEF ResearchInv, Launched
  <2> QED BY <2>3 DEF ResearchInv, Stopped
<1> QED BY <1>1, InvHolds, PTL

\* Receipts fit the results shown: a provider given up at the deadline is not reported
\* as a success although its thread goes on (_execute_research_v3).
THEOREM ReceiptsMatch == Spec => []ReceiptsMatchResults
<1>1. ResearchInv => ReceiptsMatchResults
  BY DEF ResearchInv, Reported, ReceiptsMatchResults
<1> QED BY <1>1, InvHolds, PTL

\* A call that was sent is never reported as skipped (_execute_research_v3).
THEOREM PaidReported == Spec => PaidIsReported
<1>1. ResearchInv /\ [Next]_vars =>
        [phase' = "over" /\ phase # "over" =>
           \A p \in Provider : Called(p) => final'[p] \in Attempted]_vars
  <2> SUFFICES ASSUME ResearchInv, Next, phase' = "over", phase # "over",
                      NEW p \in Provider, Called(p)
               PROVE  final'[p] \in Attempted
    BY DEF Next, vars
  <2>1. Report
    BY DEF Next, Member, Refuse, Call, Return, Publish, Notify, Collector, Launch,
         AllLaunched, Turn, Wake, Expire, Expired, Mark, Extract, Extracted, ExtractOverdue,
         Overdue, Tick
  <2>2. receipt[p] # None => receipt[p] \in Attempted
    BY DEF Called, ResearchInv, TypeOK
  <2>3. FinalReceipt(p) \in Attempted
    BY <2>2 DEF FinalReceipt, Attempted
  <2> QED BY <2>1, <2>3 DEF Report
<1> QED BY <1>1, InvHolds, PTL DEF Spec, PaidIsReported

\* An answer that is there is never given up (drain_completed).
THEOREM NoAnswerLost == Spec => AnswersKept
<1>1. ResearchInv /\ [Next]_vars =>
        [\A p \in Provider : label[p] = "pending" /\ label'[p] \in GivenUp
                              => thread[p] \notin {"done", "notified"}]_vars
  <2> SUFFICES ASSUME ResearchInv, Next, NEW p \in Provider,
                      label[p] = "pending", label'[p] \in GivenUp
               PROVE  ~Done(p)
    BY DEF Next, Done
  <2>1. CASE Launch
    BY <2>1, MembersType DEF Launch, GivenUp, ResearchInv, TypeOK
  <2>2. CASE Turn \/ Expire \/ Mark
    <3>1. TypeOK /\ label' \in {Drained, GiveUp(Drained, "preempted"), GiveUp(Drained, "timeout")}
      BY <2>2 DEF Turn, Expire, Mark, ResearchInv
    <3>2. Drained[p] \in {"pending"} \cup GivenUp
      BY <3>1, DrainedType, GiveUpType DEF GivenUp
    <3> QED BY <3>1, <3>2, DrainedLabel DEF GivenUp
  <2>3. CASE ~(Launch \/ Turn \/ Expire \/ Mark)
    <3>1. label' = label
      BY <2>3 DEF Next, Member, Refuse, Call, Return, Publish, Notify, Collector,
         AllLaunched, Wake, Extract, Extracted, ExtractOverdue, Report, Tick, collected
    <3> QED BY <3>1 DEF GivenUp
  <2> QED BY <2>1, <2>2, <2>3
<1> QED BY <1>1, InvHolds, PTL DEF Spec, AnswersKept
-----------------------------------------------------------------------------
(***************************************************************************)
(* The quorum.                                                             *)
(***************************************************************************)
LEMMA TwoElements ==
  ASSUME NEW S, Cardinality(S) >= 2
  PROVE  \E x, y \in S : x # y
<1>1. ASSUME S = {} PROVE FALSE
  <2>1. Cardinality(S) = 0
    BY <1>1, FS_EmptySet
  <2> QED BY <2>1
<1>2. PICK x \in S : TRUE
  BY <1>1
<1>3. ASSUME S = {x} PROVE FALSE
  <2>1. Cardinality(S) = 1
    BY <1>3, FS_Singleton
  <2> QED BY <2>1
<1> QED BY <1>2, <1>3

LEMMA ProviderFinite == IsFiniteSet(Provider)
<1>1. IsFiniteSet(1 .. Len(Members))
  BY MembersType, FS_Interval
<1>2. Members \in Surjection(1 .. Len(Members), Provider)
  BY MembersType DEF Surjection, Provider
<1> QED BY <1>1, <1>2, FS_Surjection

\* The later of two contributors brings a page the earlier one, which has pages,
\* does not have.
LEMMA TwoContributors ==
  ASSUME NEW lab, Quorum(lab)
  PROVE  \E p, q \in Provider : /\ lab[p] = "results" /\ lab[q] = "results"
                                /\ ~ pages[p] \subseteq pages[q] /\ pages[q] # {}
<1> DEFINE Before(i) == UNION {pages[Members[j]] : j \in {j \in 1 .. i - 1 : lab[Members[j]] = "results"}}
           New == {i \in DOMAIN Members : lab[Members[i]] = "results" /\ ~ pages[Members[i]] \subseteq Before(i)}
<1>1. Contributors(lab) = {Members[i] : i \in New}
  BY DEF Contributors
<1>2. Cardinality(Contributors(lab)) >= 2
  <2>1. Contributors(lab) \in SUBSET Provider
    BY <1>1 DEF Provider
  <2>2. Cardinality(Contributors(lab)) \in Nat
    BY <2>1, ProviderFinite, FS_Subset, FS_CardinalityType
  <2> QED BY <2>2 DEF Quorum
<1>3. PICK x, y \in Contributors(lab) : x # y
  BY <1>2, TwoElements
<1>4. PICK i, j \in New : x = Members[i] /\ y = Members[j]
  BY <1>1, <1>3
<1> HIDE DEF New
<1>5. \E k, l \in New : k < l
  <2>1. i \in Nat /\ j \in Nat
    BY MembersType DEF New
  <2>2. i < j \/ j < i
    BY <1>3, <1>4, <2>1
  <2> QED BY <2>2
<1>6. PICK k, l \in New : k < l
  BY <1>5
<1>7. pages[Members[k]] \subseteq Before(l)
  BY <1>6, MembersType DEF New
<1>8. ~ pages[Members[l]] \subseteq pages[Members[k]] /\ pages[Members[k]] # {}
  BY <1>6, <1>7 DEF New
<1> QED BY <1>6, <1>8, MembersType DEF New

\* A quorum makes the preempted label true, and stays what it is.
LEMMA QuorumStep ==
  ASSUME ResearchInv, QuorumInv, [Next]_vars
  PROVE  QuorumInv'
<1> DEFINE Answered(lab) == {p \in Provider : lab[p] = "results"}
           Found(lab) == UNION {pages[p] : p \in Answered(lab)}
           Real(lab) == /\ \E p, q \in Answered(lab) : ~ pages[p] \subseteq pages[q] /\ pages[q] # {}
                        /\ Cardinality(Found(lab)) >= Target
                        /\ Cardinality({Domain[x] : x \in Found(lab)}) >= MinDomains
<1>0. TypeOK /\ Launched
  BY DEF ResearchInv
<1>1. \A p \in Provider : label[p] = "results" => pages'[p] = pages[p]
  <2> SUFFICES ASSUME NEW p \in Provider, label[p] = "results" PROVE pages'[p] = pages[p]
    OBVIOUS
  <2>1. thread[p] # "calling"
    BY <1>0 DEF Launched, TypeOK, Attempted
  <2>2. ASSUME NEW q \in Provider, Member(q) PROVE pages'[p] = pages[p]
    BY <1>0, <2>1, <2>2 DEF Member, Refuse, Call, Return, Publish, Notify, TypeOK
  <2>3. CASE Collector \/ Extracted \/ Tick \/ UNCHANGED vars
    BY <2>3 DEF Collector, Launch, AllLaunched, Turn, Wake, Expire, Mark, Extract, Extracted,
         ExtractOverdue, Report, Tick, vars, members
  <2> QED BY <2>2, <2>3 DEF Next
<1>2. CASE Turn /\ \E p \in Provider : label'[p] = "preempted" /\ label[p] # "preempted"
  <2>1. /\ Open(Drained) = {} \/ Quorum(Drained)
        /\ label' = GiveUp(Drained, "preempted") /\ phase' = "extract" /\ pages' = pages
    BY <1>0, <1>2, DrainedLabel, DrainedType DEF Turn, members, GivenUp
  <2>2. Open(Drained) # {}
    BY <1>0, <1>2, <2>1, DrainedLabel, DrainedType, GiveUpType DEF Open, GivenUp
  <2>3. Answered(label') = Answered(Drained)
    BY <1>0, <2>1, DrainedType, GiveUpType DEF GivenUp
  <2>4. Quorum(Drained)
    BY <2>1, <2>2
  <2>5. Real(Drained)
    BY <2>4, TwoContributors DEF Quorum, Evidence
  <2>6. Real(label')
    BY <2>3, <2>5
  <2> QED BY <2>1, <2>6 DEF QuorumInv, QuorumIsReal, Collected
<1>3. CASE /\ \A p \in Provider : label'[p] = "preempted" => label[p] = "preempted"
           /\ \E p \in Provider : label[p] = "preempted"
  <2>1. Collected /\ QuorumIsReal
    BY <1>3 DEF QuorumInv
  <2>2. label' = label /\ Collected'
    BY <2>1 DEF Next, Member, Refuse, Call, Return, Publish, Notify, Collector, Launch,
         AllLaunched, Turn, Wake, Expire, Expired, Mark, Extract, Extracted, ExtractOverdue,
         Overdue, Report, Tick, vars, Collected, collected
  <2>3. \A p \in Answered(label) : pages'[p] = pages[p]
    BY <1>1
  <2>4. Real(label)
    BY <1>3, <2>1 DEF QuorumIsReal
  <2>5. (Answered(label))' = Answered(label)
    BY <2>2
  <2>6. (Found(label))' = Found(label)
    BY <2>3, <2>5
  <2>7. (\E p, q \in Answered(label) : ~ pages[p] \subseteq pages[q] /\ pages[q] # {})'
    BY <2>3, <2>4, <2>5
  <2>8. (Real(label))'
    BY <2>4, <2>6, <2>7
  <2> QED BY <2>2, <2>8 DEF QuorumInv, QuorumIsReal
<1>4. CASE ~ \E p \in Provider : label'[p] = "preempted"
  BY <1>4 DEF QuorumInv
<1>5. ~Turn => \A p \in Provider : label'[p] = "preempted" => label[p] = "preempted"
  <2> SUFFICES ASSUME ~Turn, NEW p \in Provider, label'[p] = "preempted" PROVE label[p] = "preempted"
    OBVIOUS
  <2>1. CASE Launch
    BY <1>0, <2>1, MembersType DEF Launch, TypeOK
  <2>2. CASE Expire \/ Mark
    BY <1>0, <2>2, DrainedLabel, DrainedType, GiveUpType DEF Expire, Mark, GivenUp
  <2>3. CASE ~(Launch \/ Expire \/ Mark)
    BY <2>3 DEF Next, Member, Refuse, Call, Return, Publish, Notify, Collector,
         AllLaunched, Wake, Extract, Extracted, ExtractOverdue, Report, Tick, vars, collected
  <2> QED BY <2>1, <2>2, <2>3
<1> QED BY <1>2, <1>3, <1>4, <1>5

\* A quorum is of different evidence, and stays so: what it rests on does not change
\* after the collector stopped (_research_quorum_snapshot).
THEOREM QuorumHolds == Spec => []QuorumIsReal
<1>1. Init => QuorumInv
  BY DEF Init, QuorumInv, Labels, GivenUp
<1>2. ResearchInv /\ QuorumInv /\ [Next]_vars => QuorumInv'
  BY QuorumStep
<1>3. QuorumInv => QuorumIsReal
  BY DEF QuorumInv, QuorumIsReal
<1> QED BY <1>1, <1>2, <1>3, InvHolds, PTL DEF Spec
=============================================================================
