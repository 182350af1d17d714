----------------------------- MODULE RaceProofs -----------------------------
(***************************************************************************)
(* Machine-checked theorems about HedgedRace, for any list of candidates,  *)
(* any delays and any deadlines.                                           *)
(*                                                                         *)
(* The three properties speak of the end of a race, so the proof follows a *)
(* provider through it: it waits among the pending candidates, its thread  *)
(* runs, its name waits in the queue, and the racer deals with it.  Queues *)
(* says that these places exclude each other, Answers what its outcome may *)
(* be in each, Stages what the racer knows at each of its steps, and       *)
(* Arrivals how far the racer has come in the order of arrival.            *)
(***************************************************************************)
EXTENDS HedgedRace, SequenceTheorems, WellFoundedInduction, TLAPS

Elements(s) == {s[i] : i \in DOMAIN s}
Distinct(s) == \A i, j \in DOMAIN s : s[i] = s[j] => i = j

RaceTypes ==
  /\ now \in Nat /\ hedgeAt \in Nat
  /\ deadline \in Deadlines
  /\ arrived \in Seq(Provider)
  /\ phase \in {"wait", "timeout", "ended", "probe", "over"}
  /\ winner \in Provider \cup {None}
  /\ hit \in BOOLEAN

\* A provider is pending, running, waiting in the queue or dealt with.
Places(pe, dn, ta, fi) ==
  /\ pe \in Seq(Provider) /\ Distinct(pe)
  /\ dn \in Seq(Provider) /\ Distinct(dn)
  /\ ta \in [Provider -> {"none", "running", "done"}]
  /\ fi \subseteq Provider
  /\ \A p \in Provider :
       /\ p \in Elements(pe) <=> ta[p] = "none" /\ p \notin fi
       /\ p \in Elements(dn) <=> ta[p] = "done" /\ p \notin fi
       /\ p \in fi => ta[p] # "running"
Queues == Places(pending, done, task, finished)

\* Who has ended has an outcome, and only time makes it a late one.
AnswersOK(ta, ou, fi, late) ==
  /\ ou \in [Provider -> AllOutcomes \cup {None}]
  /\ \A p \in Provider :
       /\ p \in fi \/ ta[p] = "done" => ou[p] # None
       /\ p \in fi /\ ta[p] = "none" => ou[p] = "deadline_exceeded"
       /\ ou[p] \in {"cancelled", "deadline_exceeded"} => late
Answers == AnswersOK(task, outcome, finished, PastDeadline)

\* The race goes on without a winner; it ends at the deadline, with an answer,
\* or with no candidate left; a probe follows an outage.
Stages ==
  /\ phase \in {"wait", "timeout"} => winner = None /\ ~hit
  /\ phase = "timeout" => InFlight # {} /\ (PastDeadline \/ pending # <<>>)
  /\ hit => PastDeadline /\ InFlight # {}
  /\ phase \in {"ended", "probe", "over"} /\ ~hit =>
       pending = <<>> \/ (winner # None /\ outcome[winner] = "answer")
  /\ phase = "probe" => /\ winner = None /\ ~hit
                        /\ Head(Candidates) \in finished
                        /\ outcome[Head(Candidates)] = "circuit_open"
  /\ winner # None => winner \in finished

\* What the racer has taken of the order of arrival held no answer.
NoAnswerIn(n) == \A i \in 1 .. n : outcome[arrived[i]] # "answer"
Taken         == Len(arrived) - Len(done)

FirstWon ==
  \E w \in DOMAIN arrived :
    winner = arrived[w] /\ outcome[winner] = "answer" /\ NoAnswerIn(w - 1)

Arrivals ==
  /\ \A i \in DOMAIN arrived : task[arrived[i]] = "done"
  /\ phase \in {"wait", "timeout"} =>
       /\ Taken \in Nat
       /\ \A i \in DOMAIN done : done[i] = arrived[Taken + i]
       /\ NoAnswerIn(Taken)
  /\ phase = "ended" /\ ~hit => FirstWon \/ (winner = None /\ NoAnswerIn(Len(arrived)))
  /\ phase = "probe" => NoAnswerIn(Len(arrived))
  /\ FirstAnswerWins

RaceInv == RaceTypes /\ Queues /\ Answers /\ Stages /\ Arrivals

-----------------------------------------------------------------------------
(***************************************************************************)
(* Sequences without repetition.                                           *)
(***************************************************************************)
LEMMA HeadOut ==
  ASSUME NEW S, NEW s \in Seq(S), s # <<>>, Distinct(s)
  PROVE  /\ Head(s) = s[1] /\ Head(s) \in S /\ Head(s) \in Elements(s)
         /\ Tail(s) \in Seq(S) /\ Len(Tail(s)) = Len(s) - 1 /\ Distinct(Tail(s))
         /\ Elements(Tail(s)) = Elements(s) \ {Head(s)}
         /\ \A i \in DOMAIN Tail(s) : Tail(s)[i] = s[i + 1] /\ i + 1 \in DOMAIN s
<1>1. /\ Len(s) \in Nat \ {0} /\ DOMAIN s = 1 .. Len(s)
      /\ Head(s) = s[1] /\ Head(s) \in S
      /\ Tail(s) \in Seq(S) /\ Len(Tail(s)) = Len(s) - 1
      /\ DOMAIN Tail(s) = 1 .. Len(s) - 1
      /\ \A i \in 1 .. Len(s) - 1 : Tail(s)[i] = s[i + 1]
  BY HeadTailProperties, LenProperties, EmptySeq
<1>2. Distinct(Tail(s))
  <2> SUFFICES ASSUME NEW i \in 1 .. Len(s) - 1, NEW j \in 1 .. Len(s) - 1,
                      s[i + 1] = s[j + 1]
               PROVE  i = j
    BY <1>1 DEF Distinct
  <2>1. i + 1 \in DOMAIN s /\ j + 1 \in DOMAIN s
    BY <1>1
  <2>2. i + 1 = j + 1
    BY <2>1 DEF Distinct
  <2> QED BY <1>1, <2>2
<1>3. Elements(Tail(s)) = Elements(s) \ {Head(s)}
  <2>1. ASSUME NEW i \in 1 .. Len(s) - 1 PROVE Tail(s)[i] \in Elements(s) \ {Head(s)}
    <3>1. i + 1 \in DOMAIN s /\ 1 \in DOMAIN s /\ i + 1 # 1
      BY <1>1
    <3> QED BY <1>1, <3>1 DEF Elements, Distinct
  <2>2. ASSUME NEW i \in DOMAIN s, s[i] # Head(s) PROVE s[i] \in Elements(Tail(s))
    <3>1. i - 1 \in 1 .. Len(s) - 1 /\ (i - 1) + 1 = i
      BY <1>1, <2>2
    <3> QED BY <1>1, <3>1 DEF Elements
  <2> QED BY <1>1, <2>1, <2>2 DEF Elements
<1>4. Head(s) \in Elements(s) /\ \A i \in 1 .. Len(s) - 1 : i + 1 \in DOMAIN s
  BY <1>1 DEF Elements
<1> QED BY <1>1, <1>2, <1>3, <1>4

LEMMA AppendIn ==
  ASSUME NEW S, NEW s \in Seq(S), NEW e \in S, e \notin Elements(s), Distinct(s)
  PROVE  /\ Append(s, e) \in Seq(S) /\ Distinct(Append(s, e))
         /\ Elements(Append(s, e)) = Elements(s) \cup {e}
<1>1. /\ Len(s) \in Nat /\ DOMAIN s = 1 .. Len(s)
      /\ Append(s, e) \in Seq(S)
      /\ DOMAIN Append(s, e) = 1 .. Len(s) + 1
      /\ \A i \in 1 .. Len(s) : Append(s, e)[i] = s[i]
      /\ Append(s, e)[Len(s) + 1] = e
  BY AppendProperties, LenProperties
<1>2. 1 .. Len(s) + 1 = (1 .. Len(s)) \cup {Len(s) + 1}
  BY <1>1
<1>3. Elements(Append(s, e)) = Elements(s) \cup {e}
  BY <1>1, <1>2 DEF Elements
<1>4. Distinct(Append(s, e))
  BY <1>1, <1>2 DEF Distinct, Elements
<1> QED BY <1>1, <1>3, <1>4

\* A set of positions has a first one.
LEMMA FirstPosition ==
  ASSUME NEW T, T \subseteq Nat, T # {}
  PROVE  \E i \in T : \A j \in T : i <= j
<1>1. PICK i \in T : \A j \in T : <<j, i>> \notin OpToRel(<, Nat)
  BY NatLessThanWellFounded, WFMin
<1>2. ASSUME NEW j \in T PROVE i <= j
  <2>1. i \in Nat /\ j \in Nat
    OBVIOUS
  <2>2. ~(j < i)
    BY <1>1, <2>1 DEF OpToRel
  <2> QED BY <2>1, <2>2
<1> QED BY <1>2

-----------------------------------------------------------------------------
(***************************************************************************)
(* A provider moves from one place to the next.                            *)
(***************************************************************************)
LEMMA Launched ==
  ASSUME NEW pe, NEW dn, NEW ta, NEW fi, Places(pe, dn, ta, fi), pe # <<>>
  PROVE  /\ Head(pe) \in Provider /\ ta[Head(pe)] = "none" /\ Head(pe) \notin fi
         /\ Places(Tail(pe), dn, [ta EXCEPT ![Head(pe)] = "running"], fi)
         /\ Places(Tail(pe), dn, ta, fi \cup {Head(pe)})
<1> DEFINE p == Head(pe)
<1>1. /\ p \in Provider /\ p \in Elements(pe)
      /\ Tail(pe) \in Seq(Provider) /\ Distinct(Tail(pe))
      /\ Elements(Tail(pe)) = Elements(pe) \ {p}
  BY HeadOut DEF Places
<1> HIDE DEF p
<1>2. ta[p] = "none" /\ p \notin fi
  BY <1>1 DEF Places
<1>3. Places(Tail(pe), dn, [ta EXCEPT ![p] = "running"], fi)
  BY <1>1, <1>2 DEF Places
<1>4. Places(Tail(pe), dn, ta, fi \cup {p})
  BY <1>1, <1>2 DEF Places
<1> QED BY <1>1, <1>2, <1>3, <1>4 DEF p

LEMMA DealtWith ==
  ASSUME NEW pe, NEW dn, NEW ta, NEW fi, Places(pe, dn, ta, fi), dn # <<>>
  PROVE  /\ Head(dn) \in Provider /\ ta[Head(dn)] = "done" /\ Head(dn) \notin fi
         /\ Places(pe, Tail(dn), ta, fi \cup {Head(dn)})
<1> DEFINE p == Head(dn)
<1>1. /\ p \in Provider /\ p \in Elements(dn)
      /\ Tail(dn) \in Seq(Provider) /\ Distinct(Tail(dn))
      /\ Elements(Tail(dn)) = Elements(dn) \ {p}
  BY HeadOut DEF Places
<1> HIDE DEF p
<1>2. ta[p] = "done" /\ p \notin fi
  BY <1>1 DEF Places
<1>3. Places(pe, Tail(dn), ta, fi \cup {p})
  BY <1>1, <1>2 DEF Places
<1> QED BY <1>1, <1>2, <1>3 DEF p

LEMMA Ended ==
  ASSUME NEW pe, NEW dn, NEW ta, NEW fi, Places(pe, dn, ta, fi),
         NEW p \in Provider, ta[p] = "running"
  PROVE  Places(pe, Append(dn, p), [ta EXCEPT ![p] = "done"], fi)
<1>1. p \notin Elements(dn)
  BY DEF Places
<1>2. /\ Append(dn, p) \in Seq(Provider) /\ Distinct(Append(dn, p))
      /\ Elements(Append(dn, p)) = Elements(dn) \cup {p}
  BY <1>1, AppendIn DEF Places
<1> QED BY <1>2 DEF Places

\* Time does not run back.
LEMMA StillPast ==
  ASSUME RaceTypes, [Next]_vars
  PROVE  /\ now' \in Nat /\ deadline' = deadline
         /\ PastDeadline => PastDeadline'
         /\ ~Tick => now' = now /\ PastDeadline' = PastDeadline
<1>1. /\ now' = now \/ (Tick /\ now' = now + 1)
      /\ deadline' = deadline
  BY DEF Next, Racer, vars, request, tasks, StartNext, Exhausted, Take, WaitOver, StopAtDeadline,
     Hedge, Conclude, Probe, Tick, TaskEnds
<1>2. deadline # None => deadline \in Nat
  BY RaceAssumption DEF RaceTypes
<1> QED BY <1>1, <1>2 DEF RaceTypes, PastDeadline

\* What a step does with the providers.
LaunchFrom(fi) ==
  LET p == Head(pending) IN
  /\ pending # <<>> /\ pending' = Tail(pending)
  /\ \/ /\ PastDeadline
        /\ outcome' = [outcome EXCEPT ![p] = "deadline_exceeded"]
        /\ finished' = fi \cup {p} /\ task' = task
     \/ /\ ~PastDeadline
        /\ task' = [task EXCEPT ![p] = "running"]
        /\ finished' = fi /\ outcome' = outcome

Stays   == pending' = pending /\ task' = task /\ outcome' = outcome
           /\ done' = done /\ finished' = finished
Fills   == LaunchFrom(finished) /\ done' = done
Settles == LET q == Head(done) IN
           /\ done # <<>> /\ done' = Tail(done)
           /\ \/ /\ pending' = pending /\ task' = task /\ outcome' = outcome
                 /\ finished' = finished \cup {q}
              \/ outcome[q] # "answer" /\ LaunchFrom(finished \cup {q})
Arrives == \E p \in Provider, o \in Possible :
             /\ task[p] = "running"
             /\ task' = [task EXCEPT ![p] = "done"]
             /\ outcome' = [outcome EXCEPT ![p] = o]
             /\ done' = Append(done, p)
             /\ pending' = pending /\ finished' = finished
Probes  == \E o \in Possible :
             /\ outcome' = [outcome EXCEPT ![Head(Candidates)] = o]
             /\ pending' = pending /\ task' = task /\ done' = done /\ finished' = finished

LEMMA LaunchSum ==
  ASSUME NEW fi, Launch(fi), pending # <<>>
  PROVE  LaunchFrom(fi)
BY DEF Launch, LaunchFrom

LEMMA ProviderMoves ==
  ASSUME RaceInv, [Next]_vars
  PROVE  \/ (Exhausted \/ WaitOver \/ StopAtDeadline \/ Conclude \/ Tick \/ UNCHANGED vars) /\ Stays
         \/ (StartNext \/ Hedge) /\ Fills
         \/ Take /\ Settles
         \/ (\E p \in Provider : TaskEnds(p)) /\ Arrives
         \/ Probe /\ Probes
<1>1. CASE Exhausted \/ WaitOver \/ StopAtDeadline \/ Conclude \/ Tick \/ UNCHANGED vars
  BY <1>1 DEF Exhausted, WaitOver, StopAtDeadline, Conclude, Tick, vars, tasks, Stays
<1>2. CASE StartNext
  BY <1>2, LaunchSum DEF StartNext, Fills
<1>3. CASE Hedge
  <2>1. pending # <<>>
    BY <1>3 DEF Hedge, RaceInv, Stages
  <2> QED BY <1>3, <2>1, LaunchSum DEF Hedge, Fills
<1>4. CASE Take
  <2> DEFINE q == Head(done)
  <2>1. done # <<>> /\ done' = Tail(done)
    BY <1>4 DEF Take
  <2>2. CASE HasResults(outcome[q])
    BY <1>4, <2>1, <2>2 DEF Take, Settles
  <2>3. CASE ~HasResults(outcome[q]) /\ Room(InFlight \ {q})
    BY <1>4, <2>1, <2>3, LaunchSum DEF Take, Settles, Room, HasResults
  <2>4. CASE ~HasResults(outcome[q]) /\ ~Room(InFlight \ {q})
    BY <1>4, <2>1, <2>4 DEF Take, Settles
  <2> QED BY <1>4, <2>2, <2>3, <2>4
<1>5. CASE \E p \in Provider : TaskEnds(p)
  BY <1>5 DEF TaskEnds, Arrives
<1>6. CASE Probe
  BY <1>6 DEF Probe, Probes
<1> QED BY <1>1, <1>2, <1>3, <1>4, <1>5, <1>6 DEF Next, Racer

-----------------------------------------------------------------------------
(***************************************************************************)
(* The invariant is kept.                                                  *)
(***************************************************************************)
LEMMA QueuesStep == ASSUME RaceInv, [Next]_vars PROVE Queues'
<1>0. Places(pending, done, task, finished)
  BY DEF RaceInv, Queues
<1>1. CASE Stays
  BY <1>1 DEF Stays, RaceInv, Queues
<1>2. ASSUME NEW fi, LaunchFrom(fi), Places(pending, done', task, fi) PROVE Queues'
  <2>1. pending # <<>> /\ pending' = Tail(pending)
    BY <1>2 DEF LaunchFrom
  <2>2. /\ Places(Tail(pending), done', [task EXCEPT ![Head(pending)] = "running"], fi)
        /\ Places(Tail(pending), done', task, fi \cup {Head(pending)})
    BY <1>2, <2>1, Launched
  <2> QED BY <1>2, <2>2 DEF LaunchFrom, Queues
<1>3. CASE Fills
  BY <1>0, <1>2, <1>3 DEF Fills
<1>4. CASE Settles
  <2>1. Places(pending, Tail(done), task, finished \cup {Head(done)})
    BY <1>0, <1>4, DealtWith DEF Settles
  <2> QED BY <1>2, <1>4, <2>1 DEF Settles, Queues
<1>6. CASE Arrives
  <2>1. PICK p \in Provider :
          /\ task[p] = "running" /\ task' = [task EXCEPT ![p] = "done"]
          /\ done' = Append(done, p) /\ pending' = pending /\ finished' = finished
    BY <1>6 DEF Arrives
  <2>2. Places(pending, Append(done, p), [task EXCEPT ![p] = "done"], finished)
    BY <1>0, <2>1, Ended
  <2> QED BY <2>1, <2>2 DEF Queues
<1>5. CASE Probes
  BY <1>5 DEF Probes, RaceInv, Queues
<1> QED BY <1>1, <1>3, <1>4, <1>5, <1>6, ProviderMoves

LEMMA PossibleOutcomes ==
  \A o \in Possible : /\ o \in AllOutcomes \ {None}
                      /\ o \in {"cancelled", "deadline_exceeded"} => PastDeadline
BY RaceAssumption DEF Possible

LEMMA AnswersStep == ASSUME RaceInv, [Next]_vars PROVE Answers'
<1>0. /\ PastDeadline => PastDeadline'
      /\ Queues /\ Answers
      /\ "deadline_exceeded" \in AllOutcomes \ {None}
  BY StillPast, RaceAssumption DEF RaceInv, AllOutcomes
<1>1. CASE Stays
  BY <1>0, <1>1 DEF Stays, Answers, AnswersOK
<1>2. ASSUME NEW fi, LaunchFrom(fi), Places(pending, done', task, fi),
             AnswersOK(task, outcome, fi, PastDeadline)
      PROVE  Answers'
  <2>1. Head(pending) \in Provider /\ task[Head(pending)] = "none" /\ Head(pending) \notin fi
    BY <1>2, Launched DEF LaunchFrom
  <2>2. task \in [Provider -> {"none", "running", "done"}]
    BY <1>2 DEF Places
  <2> QED BY <1>0, <1>2, <2>1, <2>2 DEF LaunchFrom, Answers, AnswersOK
<1>3. CASE Fills
  BY <1>0, <1>2, <1>3 DEF Fills, Queues, Answers
<1>4. CASE Settles
  <2> DEFINE fi == finished \cup {Head(done)}
  <2>1. /\ task[Head(done)] = "done"
        /\ Places(pending, Tail(done), task, fi)
    BY <1>0, <1>4, DealtWith DEF Settles, Queues
  <2>2. AnswersOK(task, outcome, fi, PastDeadline)
    BY <1>0, <2>1 DEF Answers, AnswersOK
  <2>3. CASE finished' = fi /\ task' = task /\ outcome' = outcome
    BY <1>0, <2>2, <2>3 DEF Answers, AnswersOK
  <2> QED BY <1>2, <1>4, <2>1, <2>2, <2>3 DEF Settles
<1>5. CASE Arrives
  <2>1. PICK p \in Provider, o \in Possible :
          /\ task[p] = "running"
          /\ task' = [task EXCEPT ![p] = "done"] /\ outcome' = [outcome EXCEPT ![p] = o]
          /\ finished' = finished
    BY <1>5 DEF Arrives
  <2>2. p \notin finished /\ task \in [Provider -> {"none", "running", "done"}]
    BY <1>0, <2>1 DEF Queues, Places
  <2> QED BY <1>0, <2>1, <2>2, PossibleOutcomes DEF Answers, AnswersOK
<1>6. CASE Probe /\ Probes
  <2>1. PICK o \in Possible :
          /\ outcome' = [outcome EXCEPT ![Head(Candidates)] = o]
          /\ task' = task /\ finished' = finished
    BY <1>6 DEF Probes
  <2>2. /\ Head(Candidates) \in finished
        /\ outcome[Head(Candidates)] = "circuit_open"
    BY <1>6 DEF Probe, RaceInv, Stages
  <2> QED BY <1>0, <2>1, <2>2, PossibleOutcomes DEF Answers, AnswersOK
<1> QED BY <1>1, <1>3, <1>4, <1>5, <1>6, ProviderMoves

\* The place a provider has been in, and what that tells of its receipt.
LEMMA Receipts ==
  ASSUME RaceInv, NEW p \in Provider
  PROVE  /\ Receipt(p) = "circuit_open" => p \in finished /\ outcome[p] = "circuit_open"
         /\ p \in InFlight => Receipt(p) = "cancelled"
         /\ p \notin Elements(pending) => Receipt(p) # "policy_excluded"
         /\ Receipt(p) = "budget_blocked" => outcome[p] = "budget_blocked"
         /\ Receipt(p) = "deadline_exceeded" => outcome[p] = "deadline_exceeded" \/ hit
         /\ Receipt(p) = "cancelled" => outcome[p] = "cancelled" \/ hit \/ p \in Superseded
<1>1. /\ p \in Elements(pending) <=> task[p] = "none" /\ p \notin finished
      /\ p \in finished => outcome[p] # None
      /\ p \in finished /\ task[p] = "none" => outcome[p] = "deadline_exceeded"
      /\ outcome[p] \in AllOutcomes \cup {None}
  BY DEF RaceInv, Queues, Places, Answers, AnswersOK
<1>2. p \in finished => outcome[p] # "policy_excluded"
  BY <1>1 DEF AllOutcomes
<1> QED BY <1>1, <1>2 DEF Receipt, InFlight, Superseded

\* The first candidate, and a provider whose empty answer wins.
LEMMA FirstCandidate == Head(Candidates) \in Provider
BY RaceAssumption, HeadTailProperties

LEMMA EmptyWins ==
  EmptyWinner # None => EmptyWinner \in finished /\ EmptyWinner \in Provider
<1> SUFFICES ASSUME Empties # {} PROVE EmptyWinner \in finished /\ EmptyWinner \in Provider
  BY DEF EmptyWinner
<1>1. Empties \subseteq Nat
  BY RaceAssumption, LenProperties DEF Empties
<1>2. \E i \in Empties : \A j \in Empties : i <= j
  BY <1>1, FirstPosition
<1>3. (CHOOSE i \in Empties : \A j \in Empties : i <= j) \in Empties
  BY <1>2
<1> QED BY <1>3 DEF EmptyWinner, Empties, Provider

LEMMA QueueHead ==
  ASSUME RaceInv, done # <<>>
  PROVE  Head(done) \in Provider /\ Head(done) # None
BY HeadOut, RaceAssumption DEF RaceInv, Queues, Places

LEMMA TypesStep == ASSUME RaceInv, [Next]_vars PROVE RaceTypes'
<1> USE DEF RaceTypes
<1>0. RaceTypes
  BY DEF RaceInv
<1>1. now' \in Nat /\ deadline' \in Deadlines
  BY <1>0, StillPast
<1>2. ASSUME NEW fi, Launch(fi), pending # <<>> PROVE hedgeAt' \in Nat
  <2>1. Head(pending) \in Provider
    BY <1>2, Launched DEF RaceInv, Queues
  <2> QED BY <1>0, <1>2, <2>1, RaceAssumption DEF Launch, SlowAt
<1>3. hedgeAt' \in Nat
  <2>1. CASE StartNext \/ Hedge
    BY <1>2, <2>1, ProviderMoves DEF StartNext, Hedge, RaceInv, Stages
  <2>2. CASE Take
    BY <1>0, <1>2, <2>2 DEF Take, Room
  <2>3. CASE hedgeAt' = hedgeAt
    BY <1>0, <2>3
  <2> QED BY <2>1, <2>2, <2>3 DEF Next, Racer, Exhausted, WaitOver, StopAtDeadline, Conclude,
          Probe, Tick, TaskEnds, vars
<1>4. arrived' \in Seq(Provider)
  <2>1. ASSUME NEW p \in Provider PROVE Append(arrived, p) \in Seq(Provider)
    BY <1>0, AppendProperties
  <2>2. arrived' = arrived \/ \E p \in Provider : arrived' = Append(arrived, p)
    BY DEF Next, Racer, StartNext, Hedge, Take, Exhausted, WaitOver, StopAtDeadline, Conclude,
       Probe, Tick, TaskEnds, vars, tasks
  <2> QED BY <1>0, <2>1, <2>2
<1>5. phase' \in {"wait", "timeout", "ended", "probe", "over"} /\ hit' \in BOOLEAN
  BY <1>0 DEF Next, Racer, StartNext, Hedge, Take, Exhausted, WaitOver, StopAtDeadline, Conclude,
     Probe, Tick, TaskEnds, vars
<1>6. winner' \in Provider \cup {None}
  <2>1. CASE Take
    BY <1>0, <2>1, QueueHead DEF Take
  <2>2. CASE Conclude
    BY <1>0, <2>2, EmptyWins DEF Conclude
  <2>3. CASE Probe
    BY <1>0, <2>3, FirstCandidate DEF Probe
  <2>4. CASE winner' = winner
    BY <1>0, <2>4
  <2> QED BY <2>1, <2>2, <2>3, <2>4 DEF Next, Racer, StartNext, Hedge, Exhausted, WaitOver,
          StopAtDeadline, Tick, TaskEnds, vars
<1> QED BY <1>1, <1>3, <1>4, <1>5, <1>6

LEMMA StagesStep == ASSUME RaceInv, [Next]_vars PROVE Stages'
<1>0. /\ PastDeadline => PastDeadline'
      /\ Stages /\ RaceTypes /\ Queues
      /\ task \in [Provider -> {"none", "running", "done"}]
      /\ outcome \in [Provider -> AllOutcomes \cup {None}]
  BY StillPast DEF RaceInv, Queues, Places, Answers, AnswersOK
<1>1. CASE StartNext \/ Hedge
  BY <1>0, <1>1 DEF StartNext, Hedge, Stages
<1>2. CASE Take
  BY <1>0, <1>2, QueueHead DEF Take, Stages, HasResults
<1>3. CASE Exhausted
  BY <1>0, <1>3 DEF Exhausted, Stages, tasks
<1>4. CASE WaitOver
  BY <1>0, <1>4 DEF WaitOver, Stages, InFlight, Room, tasks
<1>5. CASE StopAtDeadline
  BY <1>0, <1>5 DEF StopAtDeadline, Stages, InFlight, tasks
<1>6. CASE Conclude
  <2>1. /\ phase = "ended" /\ pending' = pending /\ task' = task /\ outcome' = outcome
        /\ finished' = finished /\ hit' = hit /\ InFlight' = InFlight
    BY <1>6 DEF Conclude, tasks, InFlight
  <2>2. winner # None => winner' = winner /\ phase' = "over"
    BY <1>6 DEF Conclude
  <2>3. winner' # None => winner' \in finished
    BY <1>0, <1>6, EmptyWins DEF Conclude, Stages
  <2>4. phase' = "over" \/ (phase' = "probe" /\ winner' = None /\ Outage)
    BY <1>6 DEF Conclude
  <2>5. Outage => /\ ~hit /\ Head(Candidates) \in finished
                  /\ outcome[Head(Candidates)] = "circuit_open"
    <3>1. \A p \in InFlight : p \in Provider
      BY DEF InFlight
    <3> QED BY <1>0, <3>1, Receipts, FirstCandidate DEF Outage, Stages
  <2> QED BY <1>0, <2>1, <2>2, <2>3, <2>4, <2>5 DEF Stages
<1>7. CASE Probe
  <2>1. /\ phase = "probe" /\ phase' = "over" /\ pending' = pending /\ task' = task
        /\ finished' = finished /\ hit' = hit /\ InFlight' = InFlight
        /\ winner' \in {None, Head(Candidates)}
    BY <1>7 DEF Probe, InFlight
  <2> QED BY <1>0, <2>1 DEF Stages
<1>8. CASE \E p \in Provider : TaskEnds(p)
  <2>1. PICK p \in Provider : TaskEnds(p)
    BY <1>8
  <2>2. /\ task[p] = "running" /\ task' = [task EXCEPT ![p] = "done"]
        /\ \A q \in Provider \ {p} : outcome'[q] = outcome[q]
        /\ UNCHANGED <<pending, finished, phase, winner, hit>>
    BY <1>0, <2>1 DEF TaskEnds, request
  <2>3. p \notin finished /\ InFlight' = InFlight /\ finished \subseteq Provider
    BY <1>0, <2>2 DEF Queues, Places, InFlight
  <2> QED BY <1>0, <2>2, <2>3 DEF Stages
<1>9. CASE Tick \/ UNCHANGED vars
  BY <1>0, <1>9 DEF Tick, vars, tasks, Stages, InFlight
<1> QED BY <1>1, <1>2, <1>3, <1>4, <1>5, <1>6, <1>7, <1>8, <1>9 DEF Next, Racer

\* Who has arrived keeps the outcome it arrived with; only a probe asks again.
LEMMA ArrivedKeep ==
  ASSUME RaceInv, [Next]_vars, ~Probe
  PROVE  \A i \in DOMAIN arrived : /\ arrived[i] \in Provider
                                   /\ task'[arrived[i]] = "done"
                                   /\ outcome'[arrived[i]] = outcome[arrived[i]]
<1> SUFFICES ASSUME NEW i \in DOMAIN arrived
             PROVE  /\ arrived[i] \in Provider
                    /\ task'[arrived[i]] = "done"
                    /\ outcome'[arrived[i]] = outcome[arrived[i]]
  OBVIOUS
<1> DEFINE a == arrived[i]
<1>1. a \in Provider /\ task[a] = "done"
  BY LenProperties DEF RaceInv, RaceTypes, Arrivals
<1>2. /\ task \in [Provider -> {"none", "running", "done"}]
      /\ outcome \in [Provider -> AllOutcomes \cup {None}]
  BY DEF RaceInv, Queues, Places, Answers, AnswersOK
<1> HIDE DEF a
<1>3. ASSUME NEW fi, LaunchFrom(fi) PROVE task'[a] = "done" /\ outcome'[a] = outcome[a]
  <2>1. task[Head(pending)] = "none"
    BY <1>3, Launched DEF LaunchFrom, RaceInv, Queues
  <2> QED BY <1>1, <1>2, <1>3, <2>1 DEF LaunchFrom
<1>4. task'[a] = "done" /\ outcome'[a] = outcome[a]
  <2>1. CASE Stays
    BY <1>1, <2>1 DEF Stays
  <2>2. CASE Fills
    BY <1>3, <2>2 DEF Fills
  <2>3. CASE Settles
    BY <1>1, <1>3, <2>3 DEF Settles
  <2>4. CASE Arrives
    BY <1>1, <1>2, <2>4 DEF Arrives
  <2> QED BY <2>1, <2>2, <2>3, <2>4, ProviderMoves
<1> QED BY <1>1, <1>4 DEF a

LEMMA ArrivedMoves ==
  ASSUME RaceInv, [Next]_vars
  PROVE  \/ arrived' = arrived
         \/ \E p \in Provider :
              /\ TaskEnds(p) /\ phase \in {"wait", "timeout"}
              /\ arrived' = Append(arrived, p) /\ task'[p] = "done"
<1>1. ASSUME NEW p \in Provider, TaskEnds(p)
      PROVE  arrived' = arrived \/ (/\ phase \in {"wait", "timeout"}
                                    /\ arrived' = Append(arrived, p) /\ task'[p] = "done")
  BY <1>1 DEF TaskEnds, RaceInv, Queues, Places
<1> QED BY <1>1 DEF Next, Racer, StartNext, Hedge, Take, Exhausted, WaitOver, StopAtDeadline,
          Conclude, Probe, Tick, vars, tasks

LEMMA ArrivalsStep == ASSUME RaceInv, [Next]_vars PROVE Arrivals'
<1>0. /\ Arrivals /\ Stages /\ Stages' /\ Queues /\ RaceTypes
      /\ Len(arrived) \in Nat /\ DOMAIN arrived = 1 .. Len(arrived)
      /\ Len(done) \in Nat /\ DOMAIN done = 1 .. Len(done)
  BY StagesStep, LenProperties DEF RaceInv, RaceTypes, Queues, Places
<1>1. ASSUME ~Probe, NEW n \in 0 .. Len(arrived), NoAnswerIn(n), arrived' = arrived
      PROVE  NoAnswerIn(n)'
  <2>1. \A i \in 1 .. n : i \in DOMAIN arrived
    BY <1>0
  <2> QED BY <1>1, <2>1, ArrivedKeep DEF NoAnswerIn
<1>2. \A i \in DOMAIN arrived' : task'[arrived'[i]] = "done"
  <2>1. CASE arrived' = arrived
    <3>1. CASE Probe
      BY <1>0, <2>1, <3>1 DEF Probe, Arrivals
    <3> QED BY <2>1, <3>1, ArrivedKeep
  <2>2. CASE arrived' # arrived
    <3>1. PICK p \in Provider : /\ TaskEnds(p)
                                /\ arrived' = Append(arrived, p) /\ task'[p] = "done"
      BY <2>2, ArrivedMoves
    <3>2. /\ DOMAIN arrived' = 1 .. Len(arrived) + 1 /\ arrived'[Len(arrived) + 1] = p
          /\ \A i \in 1 .. Len(arrived) : arrived'[i] = arrived[i]
      BY <1>0, <3>1, AppendProperties, LenProperties DEF RaceTypes
    <3>3. ~Probe
      BY <1>0, <3>1, <2>2 DEF Probe
    <3> QED BY <1>0, <3>1, <3>2, <3>3, ArrivedKeep
  <2> QED BY <2>1, <2>2
<1>3. phase' \in {"wait", "timeout"} =>
       /\ Taken' \in Nat
       /\ \A i \in DOMAIN done' : done'[i] = arrived'[(Taken + i)']
       /\ NoAnswerIn(Taken)'
  <2> SUFFICES ASSUME phase' \in {"wait", "timeout"}
               PROVE  /\ Taken' \in Nat
                      /\ \A i \in DOMAIN done' : done'[i] = arrived'[Taken' + i]
                      /\ \A i \in 1 .. Taken' : outcome'[arrived'[i]] # "answer"
    BY DEF NoAnswerIn
  <2>0. /\ phase \in {"wait", "timeout"} /\ ~Probe
        /\ Taken \in Nat /\ Taken = Len(arrived) - Len(done)
        /\ \A i \in DOMAIN done : done[i] = arrived[Taken + i]
        /\ NoAnswerIn(Taken)
    BY <1>0 DEF Arrivals, Taken, Next, Racer, StartNext, Exhausted, Take, WaitOver,
       StopAtDeadline, Hedge, Conclude, Probe, Tick, TaskEnds, vars
  <2>1. CASE done' = done /\ arrived' = arrived
    <3>1. Taken' = Taken /\ Taken \in 0 .. Len(arrived)
      BY <1>0, <2>0, <2>1 DEF Taken
    <3>2. \A i \in 1 .. Taken' : outcome'[arrived'[i]] # "answer"
      <4>1. NoAnswerIn(Len(arrived) - Len(done))'
        BY <1>0, <1>1, <2>0, <2>1
      <4> QED BY <2>0, <2>1, <3>1, <4>1 DEF NoAnswerIn
    <3> QED BY <2>0, <2>1, <3>1, <3>2
  <2>2. CASE Take
    <3>1. /\ done # <<>> /\ done' = Tail(done) /\ arrived' = arrived
          /\ outcome[Head(done)] # "answer"
      BY <2>2 DEF Take, HasResults
    <3>2. /\ Head(done) = done[1] /\ 1 \in DOMAIN done /\ Len(done') = Len(done) - 1
          /\ \A i \in DOMAIN done' : done'[i] = done[i + 1] /\ i + 1 \in DOMAIN done
          /\ DOMAIN done' = 1 .. Len(done')
      BY <1>0, <3>1, HeadOut, LenProperties, EmptySeq DEF Queues, Places
    <3>3. Taken' = Taken + 1 /\ Taken + 1 \in 0 .. Len(arrived)
      BY <1>0, <2>0, <3>1, <3>2 DEF Taken
    <3>4. \A i \in DOMAIN done' : done'[i] = arrived'[Taken' + i]
      BY <1>0, <2>0, <3>1, <3>2, <3>3
    <3>5. NoAnswerIn(Taken + 1)
      <4>1. arrived[Taken + 1] = Head(done)
        BY <2>0, <3>2
      <4>2. \A i \in 1 .. Taken + 1 : i \in 1 .. Taken \/ i = Taken + 1
        BY <2>0
      <4> QED BY <2>0, <3>1, <4>1, <4>2 DEF NoAnswerIn
    <3>6. \A i \in 1 .. Taken' : outcome'[arrived'[i]] # "answer"
      <4>1. \A i \in 1 .. Taken + 1 : i \in DOMAIN arrived
        BY <1>0, <2>0, <3>3
      <4> QED BY <2>0, <3>1, <3>3, <3>5, <4>1, ArrivedKeep DEF NoAnswerIn
    <3> QED BY <2>0, <3>3, <3>4, <3>6
  <2>3. CASE \E p \in Provider : TaskEnds(p)
    <3>1. PICK p \in Provider : TaskEnds(p)
      BY <2>3
    <3>2. done' = Append(done, p) /\ arrived' = Append(arrived, p)
      BY <2>0, <3>1 DEF TaskEnds
    <3>3. /\ DOMAIN arrived' = 1 .. Len(arrived) + 1 /\ arrived'[Len(arrived) + 1] = p
          /\ \A i \in 1 .. Len(arrived) : arrived'[i] = arrived[i]
          /\ DOMAIN done' = 1 .. Len(done) + 1 /\ done'[Len(done) + 1] = p
          /\ \A i \in 1 .. Len(done) : done'[i] = done[i]
          /\ Len(arrived') = Len(arrived) + 1 /\ Len(done') = Len(done) + 1
      BY <1>0, <3>2, AppendProperties, LenProperties DEF RaceTypes, Queues, Places
    <3>4. Taken' = Taken
      BY <1>0, <2>0, <3>3 DEF Taken
    <3>5. \A i \in DOMAIN done' : done'[i] = arrived'[Taken' + i]
      <4>1. ASSUME NEW i \in 1 .. Len(done) PROVE done'[i] = arrived'[Taken + i]
        <5>1. Taken + i \in 1 .. Len(arrived)
          BY <1>0, <2>0
        <5> QED BY <1>0, <2>0, <3>3, <5>1
      <4>2. Taken + (Len(done) + 1) = Len(arrived) + 1
        BY <1>0, <2>0
      <4>3. \A i \in 1 .. Len(done) + 1 : i \in 1 .. Len(done) \/ i = Len(done) + 1
        BY <1>0
      <4> QED BY <3>3, <3>4, <4>1, <4>2, <4>3
    <3>6. \A i \in 1 .. Taken' : outcome'[arrived'[i]] # "answer"
      <4>1. ASSUME NEW i \in 1 .. Taken PROVE outcome'[arrived'[i]] # "answer"
        <5>1. i \in 1 .. Len(arrived)
          BY <1>0, <2>0
        <5> QED BY <1>0, <2>0, <3>3, <5>1, ArrivedKeep DEF NoAnswerIn
      <4> QED BY <3>4, <4>1
    <3> QED BY <2>0, <3>4, <3>5, <3>6
  <2>4. (done' = done /\ arrived' = arrived) \/ Take \/ \E p \in Provider : TaskEnds(p)
    BY <2>0 DEF Next, Racer, StartNext, Exhausted, Take, WaitOver, StopAtDeadline, Hedge,
       Conclude, Tick, vars, tasks
  <2> QED BY <2>1, <2>2, <2>3, <2>4
<1>4. phase' # "wait" /\ phase' # "timeout" => arrived' = arrived
  BY ArrivedMoves DEF TaskEnds
<1>5. phase' = "ended" /\ ~hit' => (FirstWon \/ (winner = None /\ NoAnswerIn(Len(arrived))))'
  <2> SUFFICES ASSUME phase' = "ended", ~hit'
               PROVE  (FirstWon \/ (winner = None /\ NoAnswerIn(Len(arrived))))'
    OBVIOUS
  <2>0. ~Probe /\ arrived' = arrived /\ Len(arrived) \in 0 .. Len(arrived)
    BY <1>0, <1>4 DEF Probe
  <2>1. CASE Take
    <3>1. /\ phase = "wait" /\ done # <<>> /\ winner' = Head(done)
          /\ outcome' = outcome /\ outcome[Head(done)] = "answer"
      BY <2>1 DEF Take, HasResults
    <3>2. /\ Head(done) = done[1] /\ 1 \in DOMAIN done /\ Len(done) >= 1
      BY <1>0, <3>1, HeadOut, EmptySeq DEF Queues, Places
    <3>3. /\ Taken \in Nat /\ Taken + 1 \in DOMAIN arrived
          /\ arrived[Taken + 1] = Head(done) /\ NoAnswerIn(Taken)
          /\ (Taken + 1) - 1 = Taken
      BY <1>0, <3>1, <3>2 DEF Arrivals, Taken
    <3>4. FirstWon'
      BY <2>0, <3>1, <3>3 DEF FirstWon, NoAnswerIn
    <3> QED BY <3>4
  <2>2. CASE Exhausted
    <3>1. phase = "wait" /\ InFlight = {} /\ outcome' = outcome /\ winner' = winner
      BY <2>2 DEF Exhausted, tasks
    <3>2. ASSUME NEW i \in DOMAIN done PROVE FALSE
      <4>1. done[i] \in Provider /\ done[i] \in Elements(done)
        BY <1>0, LenProperties DEF Queues, Places, Elements
      <4>2. task[done[i]] = "done" /\ done[i] \notin finished
        BY <1>0, <4>1 DEF Queues, Places
      <4> QED BY <3>1, <4>1, <4>2 DEF InFlight
    <3>3. Len(done) = 0
      BY <1>0, <3>2
    <3>4. winner = None /\ Taken = Len(arrived) /\ NoAnswerIn(Taken)
      BY <1>0, <3>1, <3>3 DEF Arrivals, Stages, Taken
    <3> QED BY <2>0, <3>1, <3>4 DEF NoAnswerIn
  <2>3. CASE phase = "ended" /\ winner' = winner /\ hit' = hit
    <3>1. FirstWon \/ (winner = None /\ NoAnswerIn(Len(arrived)))
      BY <1>0, <2>3 DEF Arrivals
    <3>2. NoAnswerIn(Len(arrived)) => NoAnswerIn(Len(arrived))'
      BY <1>1, <2>0 DEF NoAnswerIn
    <3>3. FirstWon => FirstWon'
      <4> SUFFICES ASSUME FirstWon PROVE FirstWon'
        OBVIOUS
      <4>1. PICK w \in DOMAIN arrived :
              winner = arrived[w] /\ outcome[winner] = "answer" /\ NoAnswerIn(w - 1)
        BY DEF FirstWon
      <4>2. w - 1 \in 0 .. Len(arrived)
        BY <1>0
      <4>3. NoAnswerIn(w - 1)'
        BY <1>1, <2>0, <4>1, <4>2
      <4>4. outcome'[winner] = "answer"
        BY <2>0, <4>1, ArrivedKeep
      <4> QED BY <2>0, <2>3, <4>1, <4>3, <4>4 DEF FirstWon
    <3> QED BY <2>3, <3>1, <3>2, <3>3
  <2>4. Take \/ Exhausted \/ (phase = "ended" /\ winner' = winner /\ hit' = hit)
    BY DEF Next, Racer, StartNext, WaitOver, StopAtDeadline, Hedge, Conclude, Probe, Tick,
       TaskEnds, vars
  <2> QED BY <2>1, <2>2, <2>3, <2>4
<1>6. phase' = "probe" => NoAnswerIn(Len(arrived))'
  <2> SUFFICES ASSUME phase' = "probe" PROVE NoAnswerIn(Len(arrived))'
    OBVIOUS
  <2>0. ~Probe /\ arrived' = arrived /\ Len(arrived) \in 0 .. Len(arrived)
    BY <1>0, <1>4 DEF Probe
  <2>1. NoAnswerIn(Len(arrived))
    <3>1. CASE Conclude
      <4>1. phase = "ended" /\ ~hit /\ winner = None
        BY <1>0, <3>1 DEF Conclude, Stages
      <4>2. ~FirstWon
        BY <1>0, <4>1, LenProperties, RaceAssumption DEF FirstWon, RaceTypes
      <4> QED BY <1>0, <4>1, <4>2 DEF Arrivals
    <3>2. CASE phase = "probe"
      BY <1>0, <3>2 DEF Arrivals
    <3> QED BY <3>1, <3>2 DEF Next, Racer, StartNext, Exhausted, Take, WaitOver, StopAtDeadline,
            Hedge, Probe, Tick, TaskEnds, vars
  <2> QED BY <1>1, <2>0, <2>1 DEF NoAnswerIn
<1>7. FirstAnswerWins'
  <2> SUFFICES ASSUME phase' = "over", ~hit', NEW i \in DOMAIN arrived',
                      outcome'[arrived'[i]] = "answer",
                      \A j \in 1 .. i - 1 : outcome'[arrived'[j]] # "answer"
               PROVE  winner' = arrived'[i]
    BY DEF FirstAnswerWins
  <2>0. arrived' = arrived /\ arrived[i] \in Provider
    BY <1>0, <1>4, LenProperties DEF RaceTypes
  <2>1. CASE Conclude
    <3>1. /\ phase = "ended" /\ ~hit /\ outcome' = outcome
          /\ winner # None => winner' = winner
      BY <2>1 DEF Conclude, tasks
    <3>2. CASE FirstWon
      <4>1. PICK w \in DOMAIN arrived :
              winner = arrived[w] /\ outcome[winner] = "answer" /\ NoAnswerIn(w - 1)
        BY <3>2 DEF FirstWon
      <4>2. ~(i < w) /\ ~(w < i)
        BY <1>0, <2>0, <3>1, <4>1 DEF NoAnswerIn
      <4>3. w = i
        BY <1>0, <2>0, <4>2
      <4> QED BY <2>0, <3>1, <4>1, <4>3, RaceAssumption
    <3>3. CASE NoAnswerIn(Len(arrived))
      BY <1>0, <2>0, <3>1, <3>3 DEF NoAnswerIn
    <3> QED BY <1>0, <3>1, <3>2, <3>3 DEF Arrivals
  <2>2. CASE Probe
    <3>1. PICK o \in Possible :
            /\ outcome' = [outcome EXCEPT ![Head(Candidates)] = o]
            /\ winner' = IF o \in {"answer", "empty"} THEN Head(Candidates) ELSE None
      BY <2>2 DEF Probe
    <3>2. outcome[arrived[i]] # "answer"
      BY <1>0, <2>0, <2>2 DEF Probe, Arrivals, NoAnswerIn
    <3>3. outcome \in [Provider -> AllOutcomes \cup {None}]
      BY DEF RaceInv, Answers, AnswersOK
    <3> QED BY <2>0, <3>1, <3>2, <3>3
  <2>3. CASE phase = "over" /\ winner' = winner /\ hit' = hit
    <3>1. ~Probe
      BY <2>3 DEF Probe
    <3>2. \A j \in 1 .. i : outcome[arrived[j]] = outcome'[arrived'[j]]
      BY <1>0, <2>0, <3>1, ArrivedKeep
    <3>3. i \in 1 .. i /\ 1 .. i - 1 \subseteq 1 .. i
      BY <1>0, <2>0
    <3> QED BY <1>0, <2>0, <2>3, <3>2, <3>3 DEF Arrivals, FirstAnswerWins
  <2>4. Conclude \/ Probe \/ (phase = "over" /\ winner' = winner /\ hit' = hit)
    BY DEF Next, Racer, StartNext, Exhausted, Take, WaitOver, StopAtDeadline, Hedge, Tick,
       TaskEnds, vars
  <2> QED BY <2>1, <2>2, <2>3, <2>4
<1> QED BY <1>2, <1>3, <1>5, <1>6, <1>7 DEF Arrivals

LEMMA RaceInit == Init => RaceInv
<1> SUFFICES ASSUME Init PROVE RaceInv
  OBVIOUS
<1> USE DEF Init
<1>1. /\ Candidates \in Seq(Provider) /\ Candidates # <<>> /\ Distinct(Candidates)
      /\ <<>> \in Seq(Provider) /\ Len(<<>>) = 0 /\ DOMAIN <<>> = {}
      /\ Elements(Candidates) = Provider /\ Elements(<<>>) = {} /\ Distinct(<<>>)
  BY RaceAssumption, EmptySeq DEF Provider, Elements, Distinct
<1>2. RaceTypes
  BY <1>1 DEF RaceTypes
<1>3. Queues
  BY <1>1 DEF Queues, Places
<1>4. Answers
  BY RaceAssumption DEF Answers, AnswersOK, AllOutcomes
<1>5. Stages
  BY DEF Stages
<1>6. Arrivals
  BY <1>1 DEF Arrivals, Taken, NoAnswerIn, FirstAnswerWins
<1> QED BY <1>2, <1>3, <1>4, <1>5, <1>6 DEF RaceInv

LEMMA RaceStep == RaceInv /\ [Next]_vars => RaceInv'
BY TypesStep, QueuesStep, AnswersStep, StagesStep, ArrivalsStep DEF RaceInv

LEMMA RaceAlways == Spec => []RaceInv
BY RaceInit, RaceStep, PTL DEF Spec

-----------------------------------------------------------------------------
\* Unless time ran out, a request that ends without results has tried every
\* candidate, however many there are and in whatever order they fail.
THEOREM EveryoneIsTried == Spec => []EveryoneTried
<1>1. RaceInv => EveryoneTried
  <2> SUFFICES ASSUME RaceInv, phase = "over", ~hit,
                      winner = None \/ outcome[winner] # "answer", NEW p \in Provider
               PROVE  Receipt(p) # "policy_excluded"
    BY DEF EveryoneTried
  <2>1. pending = <<>>
    BY DEF RaceInv, Stages
  <2>2. p \notin Elements(pending)
    BY <2>1, EmptySeq DEF Elements
  <2> QED BY <2>2, Receipts
<1> QED BY <1>1, RaceAlways, PTL

\* The first answer with results wins, in the order the providers finished,
\* whichever was launched first: the racer takes the queue in that order.
THEOREM FirstAnswerHolds == Spec => []FirstAnswerWins
<1>1. RaceInv => FirstAnswerWins
  BY DEF RaceInv, Arrivals
<1> QED BY <1>1, RaceAlways, PTL

\* A response is marked as limited by a budget exactly when the request ran out
\* of time or a call was refused for the budget; a hedge that lost is no limit.
THEOREM LimitsAreTrue == Spec => []LimitReportedTruly
<1>1. RaceInv => LimitReportedTruly
  <2> SUFFICES ASSUME RaceInv
               PROVE  /\ BudgetLimited => \/ PastDeadline
                                          \/ \E p \in Provider : outcome[p] = "budget_blocked"
                      /\ hit => BudgetLimited
    BY DEF LimitReportedTruly
  <2>1. /\ \A p \in Provider : outcome[p] \in {"cancelled", "deadline_exceeded"} => PastDeadline
        /\ hit => PastDeadline /\ InFlight # {}
    BY DEF RaceInv, Answers, AnswersOK, Stages
  <2>2. BudgetLimited => PastDeadline \/ \E p \in Provider : outcome[p] = "budget_blocked"
    BY <2>1, Receipts DEF BudgetLimited
  <2>3. ASSUME hit PROVE BudgetLimited
    <3>1. PICK p \in InFlight : p \in Provider
      BY <2>1, <2>3 DEF InFlight
    <3> QED BY <2>3, <3>1, Receipts DEF BudgetLimited, Superseded
  <2> QED BY <2>2, <2>3
<1> QED BY <1>1, RaceAlways, PTL
=============================================================================
