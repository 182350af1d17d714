---------------------------- MODULE ServicesProofs ----------------------------
(***************************************************************************)
(* Proofs about the components around the attempt engine, for any          *)
(* parameters of theirs.  A component's inductive invariant, Inv, is       *)
(* stated in its module, that of the cache here; it is shown that the      *)
(* component's steps keep it.                                              *)
(***************************************************************************)
EXTENDS Services, FiniteLemmas, SequenceTheorems

-----------------------------------------------------------------------------
(***************************************************************************)
(* ResponseCache                                                           *)
(***************************************************************************)
\* A request that looks for a name in quarantine has bytes to put aside.
CacheHolds == \A c \in Caller : pc[c] \in {"scan", "move"} => call[c].data # None

CacheTypes == TypeOK /\ CacheHolds

\* A request is over once it has served a hit.
HitFits(x) ==
  LET e == x.served IN
  /\ e # None /\ e.plan = x.plan
  /\ x.at <= e.born + Ttl + (IF x.answer = "stale_hit" THEN Stale ELSE 0)
HitInv == \A c \in Caller : call[c].answer \in {"fresh_hit", "stale_hit"}
                              => pc[c] = "over" /\ HitFits(call[c])

\* Undisturbed requests meet whole entries only.
CleanInv ==
  faults = 0 => /\ quarantine = {}
                /\ file \notin {Torn, Foreign}
                /\ \A c \in Caller : pc[c] \notin {"examine", "scan", "move"}

LEMMA Contents == Torn \notin Entry /\ Foreign \notin Entry /\ Torn # Foreign
<1>1. Torn.kind = "torn" /\ Foreign.kind = "foreign"
  BY DEF Torn, Foreign
<1>2. \A e \in Entry : e.kind = "entry"
  BY DEF Entry
<1> QED BY <1>1, <1>2

LEMMA AskedType == \A p \in Plans, m \in Modes, t \in Nat : Asked(p, m, t) \in Call
BY DEF Asked, Call

LEMMA DoneType ==
  ASSUME NEW answer \in {"none", "live", "failed"}
  PROVE  Done(answer) \in Call /\ Done(answer).answer = answer
<1>1. AnyPlan \in Plans /\ AnyMode \in Modes
  BY CacheAssumption DEF AnyPlan, AnyMode
<1>2. Asked(AnyPlan, AnyMode, 0) \in Call
  BY <1>1, AskedType
<1> QED BY <1>2 DEF Done, Call

\* A request that may execute keeps its plan only.
LEMMA GoOnType ==
  ASSUME NEW x \in Call
  PROVE  LET y == [Done("none") EXCEPT !.plan = x.plan] IN y \in Call /\ y.answer = "none"
BY DoneType DEF Call

\* What a miss does to its request.
LEMMA MissType ==
  ASSUME CacheTypes, NEW c \in Caller, NEW x \in Call, Miss(c, x)
  PROVE  /\ pc' \in [Caller -> Steps] /\ call' \in [Caller -> Call]
         /\ CacheHolds'
         /\ pc'[c] \in {"over", "execute"}
         /\ \A d \in Caller \ {c} : pc'[d] = pc[d] /\ call'[d] = call[d]
<1>1. PICK y \in Call, next \in {"over", "execute"} :
        pc' = [pc EXCEPT ![c] = next] /\ call' = [call EXCEPT ![c] = y]
  <2> QED BY DoneType, GoOnType DEF Miss, Goto
<1>2. pc \in [Caller -> Steps] /\ call \in [Caller -> Call]
  BY DEF CacheTypes, TypeOK
<1> QED BY <1>1, <1>2 DEF Steps, CacheTypes, CacheHolds

LEMMA CacheTypesKept == CacheTypes /\ [Next]_vars => CacheTypes'
<1> SUFFICES ASSUME CacheTypes, [Next]_vars PROVE CacheTypes'
  OBVIOUS
<1>1. /\ pc \in [Caller -> Steps] /\ call \in [Caller -> Call]
      /\ now \in Nat /\ faults \in Nat /\ clearing \in BOOLEAN
      /\ file \in Content \cup {None} /\ quarantine \subseteq Quarantined
  BY DEF CacheTypes, TypeOK
<1>2. ASSUME NEW c \in Caller, Ask(c) PROVE CacheTypes'
  BY <1>1, <1>2, AskedType DEF Ask, Goto, CacheTypes, TypeOK, CacheHolds, Steps
<1>3. ASSUME NEW c \in Caller, Read(c) PROVE CacheTypes'
  <2> DEFINE x == call[c]
  <2>1. x \in Call /\ faults' \in Nat /\ UNCHANGED <<now, file, quarantine, clearing>>
    BY <1>1, <1>3 DEF Read, Io, Fault
  <2>2. CASE Miss(c, x)
    BY <1>1, <2>1, <2>2, MissType DEF CacheTypes, TypeOK
  <2>3. CASE (Goto(c, "examine") \/ Goto(c, "remove")) /\ UNCHANGED call
    BY <1>1, <2>1, <2>3 DEF Goto, CacheTypes, TypeOK, CacheHolds, Steps
  <2>4. CASE /\ file \in Entry /\ Goto(c, "over")
             /\ call' = [call EXCEPT ![c].answer = Disposition(x, file), ![c].served = file,
                                     ![c].mode = AnyMode]
             /\ Disposition(x, file) # "expired"
    <3>1. Disposition(x, file) \in {"fresh_hit", "stale_hit"}
      BY <2>4 DEF Disposition
    <3>2. AnyMode \in Modes
      BY CacheAssumption DEF AnyMode
    <3>3. call' \in [Caller -> Call]
      BY <1>1, <2>1, <2>4, <3>1, <3>2 DEF Call
    <3> QED BY <1>1, <2>1, <2>4, <3>3 DEF Goto, CacheTypes, TypeOK, CacheHolds, Steps
  <2> QED BY <1>3, <2>2, <2>3, <2>4 DEF Read
<1>4. ASSUME NEW c \in Caller, Unlink(c) PROVE CacheTypes'
  <2>1. call[c] \in Call
    BY <1>1
  <2>2. /\ faults' \in Nat /\ file' \in Content \cup {None} /\ UNCHANGED <<now, quarantine, clearing>>
        /\ Miss(c, call[c])
    BY <1>1, <1>4 DEF Unlink, Io, Fault
  <2> QED BY <1>1, <2>1, <2>2, MissType DEF CacheTypes, TypeOK
<1>5. ASSUME NEW c \in Caller, Examine(c) PROVE CacheTypes'
  <2>1. faults' \in Nat /\ UNCHANGED <<now, file, quarantine, clearing>> /\ call[c] \in Call
    BY <1>1, <1>5 DEF Examine, Fault
  <2>2. CASE Miss(c, call[c])
    BY <1>1, <2>1, <2>2, MissType DEF CacheTypes, TypeOK
  <2>3. CASE /\ file # None /\ Goto(c, "scan")
             /\ call' = [call EXCEPT ![c].data = file, ![c].n = 0]
    <3>1. call' \in [Caller -> Call] /\ call'[c].data # None
      BY <1>1, <2>1, <2>3 DEF Call
    <3> QED BY <1>1, <2>1, <2>3, <3>1 DEF Goto, CacheTypes, TypeOK, CacheHolds, Steps
  <2> QED BY <1>5, <2>2, <2>3 DEF Examine
<1>6. ASSUME NEW c \in Caller, Scan(c) PROVE CacheTypes'
  <2>1. faults' \in Nat /\ UNCHANGED <<now, file, quarantine, clearing>> /\ call[c] \in Call
    BY <1>1, <1>6 DEF Scan, Fault
  <2>2. call[c].data # None
    BY <1>6 DEF Scan, CacheTypes, CacheHolds
  <2>3. CASE (Goto(c, "move") \/ Goto(c, "remove")) /\ UNCHANGED call
    BY <1>1, <2>1, <2>2, <2>3 DEF Goto, CacheTypes, TypeOK, CacheHolds, Steps
  <2>4. CASE call' = [call EXCEPT ![c].n = @ + 1] /\ UNCHANGED pc
    <3>1. call' \in [Caller -> Call] /\ \A d \in Caller : call'[d].data = call[d].data
      BY <1>1, <2>1, <2>4 DEF Call
    <3> QED BY <1>1, <2>1, <2>4, <3>1 DEF CacheTypes, TypeOK, CacheHolds
  <2>5. CASE Miss(c, call[c])
    BY <1>1, <2>1, <2>5, MissType DEF CacheTypes, TypeOK
  <2> QED BY <1>6, <2>3, <2>4, <2>5 DEF Scan
<1>7. ASSUME NEW c \in Caller, Move(c) PROVE CacheTypes'
  <2>1. faults' \in Nat /\ file' \in Content \cup {None} /\ UNCHANGED <<now, clearing>> /\ call[c] \in Call
    BY <1>1, <1>7 DEF Move, Fault
  <2>2. quarantine' \subseteq Quarantined
    <3>1. call[c].data \in Content /\ call[c].n \in Nat
      BY <1>7, <2>1 DEF Move, CacheTypes, CacheHolds, Call
    <3>2. file # None => [of |-> call[c].data, n |-> call[c].n, holds |-> file] \in Quarantined
      BY <1>1, <3>1 DEF Quarantined
    <3> QED BY <1>1, <1>7, <3>2 DEF Move
  <2>3. Miss(c, call[c])
    BY <1>7 DEF Move
  <2> QED BY <1>1, <2>1, <2>2, <2>3, MissType DEF CacheTypes, TypeOK
<1>8. ASSUME NEW c \in Caller, Execute(c) PROVE CacheTypes'
  <2>1. CASE Goto(c, "put") /\ call' = [call EXCEPT ![c].answer = "live", ![c].born = now]
    <3> DEFINE y == [call[c] EXCEPT !.answer = "live", !.born = now]
    <3>1. call[c] \in Call
      BY <1>1
    <3>2. y \in Call /\ y.data = call[c].data
      BY <1>1, <3>1 DEF Call
    <3>3. call' = [call EXCEPT ![c] = y]
      BY <1>1, <2>1
    <3> HIDE DEF y
    <3>4. call' \in [Caller -> Call] /\ \A d \in Caller : call'[d].data = call[d].data
      BY <1>1, <3>2, <3>3
    <3> QED BY <1>1, <1>8, <2>1, <3>4 DEF Execute, Goto, CacheTypes, TypeOK, CacheHolds, Steps
  <2>2. CASE /\ Goto(c, "over")
             /\ \E a \in {"live", "failed"} : call' = [call EXCEPT ![c] = Done(a)]
    <3>1. call' \in [Caller -> Call] /\ \A d \in Caller \ {c} : call'[d] = call[d]
      BY <1>1, <2>2, DoneType
    <3> QED BY <1>1, <1>8, <2>2, <3>1 DEF Execute, Goto, CacheTypes, TypeOK, CacheHolds, Steps
  <2> QED BY <1>8, <2>1, <2>2 DEF Execute
<1>9. ASSUME NEW c \in Caller, Put(c) PROVE CacheTypes'
  <2>1. call' \in [Caller -> Call] /\ \A d \in Caller \ {c} : call'[d] = call[d]
    BY <1>1, <1>9, DoneType DEF Put
  <2>2. file' \in Content \cup {None} /\ faults' \in Nat
    BY <1>1, <1>9 DEF Put, Content, Entry, Call, Fault
  <2> QED BY <1>1, <1>9, <2>1, <2>2 DEF Put, Goto, CacheTypes, TypeOK, CacheHolds, Steps
<1>10. ASSUME NEW c \in Caller, Die(c) PROVE CacheTypes'
  BY <1>1, <1>10, DoneType DEF Die, Goto, Fault, CacheTypes, TypeOK, CacheHolds, Steps
<1>11. ASSUME NEW c \in Caller, Again(c) PROVE CacheTypes'
  BY <1>1, <1>11, DoneType DEF Again, Goto, CacheTypes, TypeOK, CacheHolds, Steps
<1>12. CASE Damage
  BY <1>1, <1>12 DEF Damage, Fault, CacheTypes, TypeOK, CacheHolds, Content
<1>13. CASE Tick
  BY <1>1, <1>13 DEF Tick, CacheTypes, TypeOK, CacheHolds
<1>14. CASE UNCHANGED vars
  BY <1>14 DEF vars, CacheTypes, TypeOK, CacheHolds
<1>15. CASE ClearFound \/ ClearEntry \/ ClearQuarantined
  <2>1. /\ faults' \in Nat /\ clearing' \in BOOLEAN
        /\ file' \in Content \cup {None} /\ UNCHANGED <<now, pc, call>>
    <3>1. CASE ClearFound \/ ClearQuarantined
      BY <1>1, <3>1 DEF ClearFound, ClearQuarantined
    <3>2. CASE ClearEntry
      <4>1. \A ok \in BOOLEAN : Io(ok) => faults' \in Nat
        BY <1>1 DEF Io, Fault
      <4>2. file' \in {None, file} /\ faults' \in Nat
        BY <3>2, <4>1 DEF ClearEntry
      <4> QED BY <1>1, <3>2, <4>2 DEF ClearEntry
    <3> QED BY <1>15, <3>1, <3>2
  <2>2. quarantine' \subseteq quarantine
    BY <1>15 DEF ClearFound, ClearEntry, ClearQuarantined
  <2> QED BY <1>1, <2>1, <2>2 DEF CacheTypes, TypeOK, CacheHolds
<1> QED BY <1>2, <1>3, <1>4, <1>5, <1>6, <1>7, <1>8, <1>9, <1>10, <1>11, <1>12, <1>13, <1>14,
           <1>15
        DEF Next, Advance

LEMMA CacheStarts == Init => CacheTypes
<1> SUFFICES ASSUME Init PROVE CacheTypes
  OBVIOUS
<1>1. call \in [Caller -> Call]
  BY DoneType DEF Init
<1> QED BY <1>1 DEF Init, CacheTypes, TypeOK, CacheHolds, Steps

LEMMA CacheTyped == Spec => []CacheTypes
BY CacheStarts, CacheTypesKept, PTL DEF Spec

\* Every variable of the cache and its requests keeps its type.
THEOREM CacheTypeCorrect == Spec => []TypeOK
<1>1. CacheTypes => TypeOK
  BY DEF CacheTypes
<1> QED BY <1>1, CacheTyped, PTL
(***************************************************************************)
(* Hits.                                                                   *)
(***************************************************************************)
\* A miss serves nothing.
LEMMA MissHits ==
  ASSUME CacheTypes, HitInv, NEW c \in Caller, NEW x \in Call, Miss(c, x)
  PROVE  HitInv'
<1>1. call \in [Caller -> Call]
  BY DEF CacheTypes, TypeOK
<1>2. call'[c].answer \in {"none", "failed"}
  BY <1>1, DoneType, GoOnType DEF Miss
<1>3. \A d \in Caller \ {c} : pc'[d] = pc[d] /\ call'[d] = call[d]
  BY MissType
<1> QED BY <1>2, <1>3 DEF HitInv, HitFits

\* A step of one request, which says what it serves.
LEMMA HitMoves ==
  ASSUME CacheTypes, HitInv, NEW c \in Caller, NEW y, NEW next,
         call' = [call EXCEPT ![c] = y], pc' = [pc EXCEPT ![c] = next],
         y.answer \in {"fresh_hit", "stale_hit"} => next = "over" /\ HitFits(y)
  PROVE  HitInv'
<1>1. pc \in [Caller -> Steps] /\ call \in [Caller -> Call]
  BY DEF CacheTypes, TypeOK
<1>2. ASSUME NEW d \in Caller, call'[d].answer \in {"fresh_hit", "stale_hit"}
      PROVE  pc'[d] = "over" /\ HitFits(call'[d])
  <2>1. CASE d = c
    BY <1>1, <1>2, <2>1
  <2>2. CASE d # c
    BY <1>1, <1>2, <2>2 DEF HitInv
  <2> QED BY <2>1, <2>2
<1> QED BY <1>2 DEF HitInv, HitFits

LEMMA DispositionHonest ==
  ASSUME NEW x \in Call, NEW e \in Entry, NEW d,
         d = Disposition(x, e), d # "expired", e.plan = x.plan
  PROVE  HitFits([x EXCEPT !.answer = d, !.served = e, !.mode = AnyMode])
<1>1. x.at \in Nat /\ e.born \in Nat /\ e # None
  BY CacheAssumption DEF Call, Entry, Content
<1>2. Ttl \in Nat /\ Stale \in Nat
  BY CacheAssumption
<1> DEFINE y == [x EXCEPT !.answer = d, !.served = e, !.mode = AnyMode]
<1>3. y.plan = x.plan /\ y.at = x.at /\ y.answer = d /\ y.served = e
  BY DEF Call
<1>4. CASE Age(x, e) <= Ttl
  <2>1. x.at <= e.born + Ttl
    BY <1>1, <1>2, <1>4 DEF Age
  <2> QED BY <1>1, <1>2, <1>3, <2>1 DEF HitFits
<1>5. CASE ~ (Age(x, e) <= Ttl)
  <2>1. d = "stale_hit" /\ Age(x, e) <= Ttl + Stale
    BY <1>5 DEF Disposition
  <2>2. x.at <= e.born + Ttl + Stale
    BY <1>1, <1>2, <2>1 DEF Age
  <2> QED BY <1>1, <1>3, <2>1, <2>2 DEF HitFits
<1> QED BY <1>4, <1>5

LEMMA HitsKept == CacheTypes /\ HitInv /\ [Next]_vars => HitInv'
<1> SUFFICES ASSUME CacheTypes, HitInv, [Next]_vars PROVE HitInv'
  OBVIOUS
<1>1. pc \in [Caller -> Steps] /\ call \in [Caller -> Call]
  BY DEF CacheTypes, TypeOK
<1>2. ASSUME NEW c \in Caller, pc[c] # "over"
      PROVE  call[c].answer \notin {"fresh_hit", "stale_hit"}
  BY <1>2 DEF HitInv
<1>3. ASSUME NEW c \in Caller, Ask(c) PROVE HitInv'
  <2>1. \A p \in Plans, m \in Modes : Asked(p, m, now).answer = "none"
    BY DEF Asked
  <2> QED BY <1>3, <2>1, HitMoves DEF Ask, Goto
<1>4. ASSUME NEW c \in Caller, Read(c) PROVE HitInv'
  <2> DEFINE x == call[c]
  <2>1. x \in Call /\ pc[c] # "over"
    BY <1>1, <1>4 DEF Read
  <2>2. CASE Miss(c, x)
    BY <2>1, <2>2, MissHits
  <2>3. CASE (Goto(c, "examine") \/ Goto(c, "remove")) /\ UNCHANGED call
    BY <1>1, <1>2, <2>1, <2>3 DEF Goto, HitInv, HitFits
  <2>4. CASE /\ file \in Entry /\ Goto(c, "over")
             /\ file.plan = x.plan /\ Disposition(x, file) # "expired"
             /\ call' = [call EXCEPT ![c].answer = Disposition(x, file), ![c].served = file,
                                     ![c].mode = AnyMode]
    <3> DEFINE d == Disposition(x, file)
               y == [x EXCEPT !.answer = d, !.served = file, !.mode = AnyMode]
    <3>1. HitFits(y)
      BY <2>1, <2>4, DispositionHonest
    <3>2. call' = [call EXCEPT ![c] = y]
      BY <1>1, <2>4
    <3>3. pc' = [pc EXCEPT ![c] = "over"]
      BY <2>4 DEF Goto
    <3> HIDE DEF y
    <3> QED BY <3>1, <3>2, <3>3, HitMoves
  <2> QED BY <1>4, <2>2, <2>3, <2>4 DEF Read
<1>5. ASSUME NEW c \in Caller, Unlink(c) \/ Move(c) PROVE HitInv'
  <2>1. /\ pc[c] # "over"
        /\ Miss(c, call[c])
    BY <1>5 DEF Unlink, Move
  <2> QED BY <1>1, <2>1, MissHits
<1>6. ASSUME NEW c \in Caller, Examine(c) PROVE HitInv'
  <2>1. call[c] \in Call /\ pc[c] # "over"
    BY <1>1, <1>6 DEF Examine
  <2>2. CASE Miss(c, call[c])
    BY <2>1, <2>2, MissHits
  <2>3. CASE Goto(c, "scan") /\ call' = [call EXCEPT ![c].data = file, ![c].n = 0]
    <3>1. [call[c] EXCEPT !.data = file, !.n = 0].answer = call[c].answer
      BY <2>1 DEF Call
    <3> QED BY <1>2, <2>1, <2>3, <3>1, HitMoves, ZenonT(40) DEF Goto
  <2> QED BY <1>6, <2>2, <2>3 DEF Examine
<1>7. ASSUME NEW c \in Caller, Scan(c) PROVE HitInv'
  <2>1. call[c] \in Call /\ pc[c] # "over"
    BY <1>1, <1>7 DEF Scan
  <2>2. CASE (Goto(c, "move") \/ Goto(c, "remove")) /\ UNCHANGED call
    BY <1>1, <1>2, <2>1, <2>2 DEF Goto, HitInv, HitFits
  <2>3. CASE call' = [call EXCEPT ![c].n = @ + 1] /\ UNCHANGED pc
    <3>1. [call[c] EXCEPT !.n = @ + 1].answer = call[c].answer
      BY <2>1 DEF Call
    <3>2. \A d \in Caller : call'[d].answer = call[d].answer /\ (d # c => call'[d] = call[d])
      BY <1>1, <2>3, <3>1
    <3> QED BY <1>2, <2>1, <2>3, <3>2 DEF HitInv, HitFits
  <2>4. CASE Miss(c, call[c])
    BY <2>1, <2>4, MissHits
  <2> QED BY <1>7, <2>2, <2>3, <2>4 DEF Scan
<1>8. ASSUME NEW c \in Caller, Execute(c) PROVE HitInv'
  <2>1. call[c] \in Call /\ pc[c] # "over"
    BY <1>1, <1>8 DEF Execute
  <2>2. call'[c].answer \in {"live", "failed"}
    BY <1>1, <2>1, <1>8, DoneType DEF Execute, Call
  <2>3. \A d \in Caller \ {c} : call'[d] = call[d] /\ pc'[d] = pc[d]
    BY <1>1, <1>8 DEF Execute, Goto
  <2> QED BY <2>2, <2>3 DEF HitInv, HitFits
<1>9. ASSUME NEW c \in Caller, Put(c) PROVE HitInv'
  BY <1>9, DoneType, HitMoves DEF Put, Goto
<1>10. ASSUME NEW c \in Caller, Die(c) PROVE HitInv'
  BY <1>10, DoneType, HitMoves DEF Die, Goto
<1>11. ASSUME NEW c \in Caller, Again(c) PROVE HitInv'
  BY <1>11, DoneType, HitMoves DEF Again, Goto
<1>12. CASE Damage \/ Tick \/ UNCHANGED vars
  BY <1>12 DEF Damage, Tick, vars, HitInv, HitFits
<1>13. CASE ClearFound \/ ClearEntry \/ ClearQuarantined
  BY <1>13 DEF ClearFound, ClearEntry, ClearQuarantined, HitInv, HitFits
<1> QED BY <1>3, <1>4, <1>5, <1>6, <1>7, <1>8, <1>9, <1>10, <1>11, <1>12, <1>13
        DEF Next, Advance

\* A hit is an answer for the same candidate order, no older than its label
\* says, for any number of requests and whatever happens to the file.
THEOREM HitsAreHonest == Spec => []HonestHits
<1>1. Init => HitInv
  BY DoneType DEF Init, HitInv
<1>2. HitInv => HonestHits
  BY DEF HitInv, HonestHits, HitFits
<1> QED BY <1>1, <1>2, CacheTyped, HitsKept, PTL DEF Spec
(***************************************************************************)
(* Quarantine.                                                             *)
(***************************************************************************)
LEMMA CleanKept == CacheTypes /\ CleanInv /\ [Next]_vars => CleanInv'
<1> SUFFICES ASSUME CacheTypes, CleanInv, [Next]_vars, faults' = 0 PROVE CleanInv'
  BY DEF CleanInv
<1>1. /\ pc \in [Caller -> Steps] /\ call \in [Caller -> Call] /\ faults \in Nat
      /\ file \in Content \cup {None}
  BY DEF CacheTypes, TypeOK
<1>2. faults = 0 /\ ~Fault
  <2>1. ~Fault
    BY <1>1 DEF Fault
  <2>2. \A ok \in BOOLEAN : Io(ok) => faults' = faults
    BY <2>1 DEF Io
  <2>3. ASSUME NEW c \in Caller, Read(c) PROVE faults' = faults
    <3>1. (file = Torn) \in BOOLEAN
      OBVIOUS
    <3> QED BY <2>2, <2>3, <3>1 DEF Read
  <2>4. ASSUME NEW c \in Caller, Unlink(c) PROVE faults' = faults
    BY <2>2, <2>4 DEF Unlink
  <2>5. ASSUME NEW c \in Caller, Examine(c) \/ Scan(c) \/ Move(c) PROVE faults' = faults
    BY <2>1, <2>5 DEF Examine, Scan, Move
  <2>6. ASSUME NEW c \in Caller, Execute(c) \/ Put(c) \/ Ask(c) \/ Again(c) \/ Die(c)
        PROVE  faults' = faults
    BY <2>1, <2>6 DEF Execute, Put, Ask, Again, Die
  <2>7. CASE Damage \/ Tick \/ UNCHANGED vars \/ ClearFound \/ ClearQuarantined
    BY <2>1, <2>7 DEF Damage, Tick, vars, ClearFound, ClearQuarantined
  <2>8. CASE ClearEntry
    BY <2>1, <2>2, <2>8 DEF ClearEntry
  <2> QED BY <2>1, <2>3, <2>4, <2>5, <2>6, <2>7, <2>8 DEF Next, Advance
<1>3. /\ quarantine = {} /\ file \notin {Torn, Foreign}
      /\ \A c \in Caller : pc[c] \notin {"examine", "scan", "move"}
  BY <1>2 DEF CleanInv
<1>4. ASSUME NEW c \in Caller, NEW x, Miss(c, x)
      PROVE  \A d \in Caller : pc'[d] \notin {"examine", "scan", "move"}
  BY <1>1, <1>3, <1>4 DEF Miss, Goto
<1>5. ASSUME NEW c \in Caller, Read(c) PROVE CleanInv'
  <2>1. UNCHANGED <<file, quarantine>>
    BY <1>5 DEF Read
  <2>2. CASE Miss(c, call[c])
    BY <1>3, <1>4, <2>1, <2>2 DEF CleanInv
  <2>3. CASE Goto(c, "over") \/ Goto(c, "remove")
    BY <1>1, <1>3, <2>1, <2>3 DEF Goto, CleanInv
  <2> QED BY <1>2, <1>3, <1>5, <2>2, <2>3 DEF Read, Io
<1>6. ASSUME NEW c \in Caller, Unlink(c) PROVE CleanInv'
  <2>1. file' \in {None, file} /\ UNCHANGED quarantine
    BY <1>6 DEF Unlink
  <2>2. None \notin {Torn, Foreign}
    BY CacheAssumption DEF Content
  <2> QED BY <1>3, <1>4, <1>6, <2>1, <2>2 DEF Unlink, CleanInv
<1>7. ASSUME NEW c \in Caller, Put(c) PROVE CleanInv'
  <2>1. file' \in Entry
    BY <1>1, <1>2, <1>7 DEF Put, Entry, Call
  <2> QED BY <1>1, <1>3, <1>7, <2>1, Contents DEF Put, Goto, CleanInv
<1>8. ASSUME NEW c \in Caller, Ask(c) \/ Execute(c) \/ Again(c) PROVE CleanInv'
  BY <1>1, <1>3, <1>8 DEF Ask, Execute, Again, Goto, CleanInv
<1>9. ASSUME NEW c \in Caller, Examine(c) \/ Scan(c) \/ Move(c) PROVE FALSE
  BY <1>3, <1>9 DEF Examine, Scan, Move
<1>10. ASSUME NEW c \in Caller, Die(c) PROVE FALSE
  BY <1>2, <1>10 DEF Die
<1>11. CASE Damage
  BY <1>2, <1>11 DEF Damage
<1>12. CASE Tick \/ UNCHANGED vars
  BY <1>3, <1>12 DEF Tick, vars, CleanInv
<1>13. CASE ClearFound \/ ClearEntry \/ ClearQuarantined
  <2>1. None \notin {Torn, Foreign}
    BY CacheAssumption DEF Content
  <2> QED BY <1>3, <1>13, <2>1 DEF ClearFound, ClearEntry, ClearQuarantined, CleanInv
<1> QED BY <1>5, <1>6, <1>7, <1>8, <1>9, <1>10, <1>11, <1>12, <1>13 DEF Next, Advance

\* While no system call fails and no other software interferes, nothing is
\* ever quarantined: requests that run at once never see half an answer.
THEOREM NothingSpurious == Spec => []NoSpuriousQuarantine
<1>1. Init => CleanInv
  BY CacheAssumption DEF Init, CleanInv, Content
<1>2. CleanInv => NoSpuriousQuarantine
  BY DEF CleanInv, NoSpuriousQuarantine
<1> QED BY <1>1, <1>2, CacheTyped, CleanKept, PTL DEF Spec

-----------------------------------------------------------------------------
(***************************************************************************)
(* ToolCall                                                                *)
(***************************************************************************)
LEMMA ServerStarts == Server!Init => Server!Inv
BY ServerAssumption
   DEF Server!Init, Server!Inv, Server!TypeOK, Server!SuccessIsReal, Server!CallOK, Server!NoJob, Server!Jobs,
       Server!WorkerStates, Server!ChildStates, Server!Live, Server!NotRunYet

\* What a step of one call leaves: the types, and every other call.
ServerTypes ==
  /\ s1 \in BOOLEAN /\ s2 \in {"unknown", "loaded", "broken"}
  /\ step \in [ToolCalls -> {"new", "waiting", "answered", "cancelled"}]
  /\ s3 \in [ToolCalls -> Server!WorkerStates] /\ s6 \in [ToolCalls -> Server!ChildStates]
  /\ s4 \in [ToolCalls -> Server!Jobs] /\ s5 \in [ToolCalls -> Nat] /\ DOMAIN s7 = ToolCalls

ServerCall(c) ==
  /\ Server!CallOK(c)
  /\ s7[c] # None /\ ~s7[c].is_error =>
       \/ s7[c].status = "ok" /\ (s3[c] = "ok" \/ s6[c] = "ok")
       \/ s7[c].status = "warning" /\ s6[c] = "warning"

LEMMA ServerInvIs ==
  /\ Server!Inv <=> ServerTypes /\ \A c \in ToolCalls : ServerCall(c)
  /\ Server!Inv' <=> ServerTypes' /\ \A c \in ToolCalls : ServerCall(c)'
BY DEF Server!Inv, Server!TypeOK, Server!SuccessIsReal, ServerTypes, ServerCall, Server!Jobs

LEMMA OverTyped ==
  ASSUME s4 \in [ToolCalls -> Server!Jobs], NEW c \in ToolCalls,
         NEW result \in Server!WorkerStates \cup Server!ChildStates \cup {"timeout", "exception"},
         \/ Server!Over(c, result) \/ s4' = [s4 EXCEPT ![c].at = "running"]
  PROVE  s4' \in [ToolCalls -> Server!Jobs]
BY DEF Server!Over, Server!Jobs

LEMMA ToldTruly ==
  ASSUME NEW r
  PROVE  /\ Server!Told(r) = "ok" => r.result = "ok"
         /\ Server!Told(r) = "warning" => r.result = "warning"
BY DEF Server!Told

LEMMA ServerKept == Server!Inv /\ Server!Next => Server!Inv'
<1> SUFFICES ASSUME ServerTypes, \A c \in ToolCalls : ServerCall(c), NEW c \in ToolCalls,
                    \/ Server!ServerStep(c) \/ Server!PipelineStarts(c) \/ Server!WorkerEnds(c)
                    \/ Server!ChildEnds(c) \/ Server!Cancel(c)
             PROVE  ServerTypes' /\ \A d \in ToolCalls : ServerCall(d)'
  <2> HIDE DEF ServerTypes, ServerCall
  <2>. QED  BY ServerInvIs DEF Server!Next
<1> USE ServerAssumption
<1> USE DEF ServerTypes, ServerCall, Server!CallOK, Server!NoJob, Server!Jobs,
            Server!WorkerStates, Server!ChildStates, Server!Live, Server!NotRunYet
<1>1. CASE Server!Refuse(c)
  <2>1. ServerTypes'
    <3>1. /\ s1' \in BOOLEAN /\ s2' \in {"unknown", "loaded", "broken"}
          /\ step' \in [ToolCalls -> {"new", "waiting", "answered", "cancelled"}]
          /\ s3' \in [ToolCalls -> Server!WorkerStates] /\ s6' \in [ToolCalls -> Server!ChildStates]
      BY <1>1 DEF Server!Refuse, Server!Answer
    <3>2. s4' \in [ToolCalls -> Server!Jobs]
      BY <1>1 DEF Server!Refuse, Server!Answer
    <3>3. s5' \in [ToolCalls -> Nat] /\ DOMAIN s7' = ToolCalls
      BY <1>1 DEF Server!Refuse, Server!Answer
    <3>. QED  BY <3>1, <3>2, <3>3
  <2>2. ServerCall(c)'
    BY <1>1 DEF Server!Refuse, Server!Answer
  <2>3. ASSUME NEW d \in ToolCalls \ {c} PROVE ServerCall(d)'
    BY <1>1 DEF Server!Refuse, Server!Answer
  <2>. QED  BY <2>1, <2>2, <2>3
<1>2. CASE Server!Dispatch(c)
  <2>1. ServerTypes'
    <3>1. /\ s1' \in BOOLEAN /\ s2' \in {"unknown", "loaded", "broken"}
          /\ step' \in [ToolCalls -> {"new", "waiting", "answered", "cancelled"}]
          /\ s3' \in [ToolCalls -> Server!WorkerStates] /\ s6' \in [ToolCalls -> Server!ChildStates]
      BY <1>2 DEF Server!Dispatch, Server!Job
    <3>2. s4' \in [ToolCalls -> Server!Jobs]
      BY <1>2 DEF Server!Dispatch, Server!Job
    <3>3. s5' \in [ToolCalls -> Nat] /\ DOMAIN s7' = ToolCalls
      BY <1>2 DEF Server!Dispatch, Server!Job
    <3>. QED  BY <3>1, <3>2, <3>3
  <2>2. ServerCall(c)'
    BY <1>2 DEF Server!Dispatch, Server!Job
  <2>3. ASSUME NEW d \in ToolCalls \ {c} PROVE ServerCall(d)'
    BY <1>2 DEF Server!Dispatch, Server!Job
  <2>. QED  BY <2>1, <2>2, <2>3
<1>3. CASE Server!TakeThread(c)
  <2>1. ServerTypes'
    <3>1. /\ s1' \in BOOLEAN /\ s2' \in {"unknown", "loaded", "broken"}
          /\ step' \in [ToolCalls -> {"new", "waiting", "answered", "cancelled"}]
          /\ s3' \in [ToolCalls -> Server!WorkerStates] /\ s6' \in [ToolCalls -> Server!ChildStates]
      BY <1>3 DEF Server!TakeThread, Server!Over
    <3>2. s4' \in [ToolCalls -> Server!Jobs]
      BY <1>3, OverTyped DEF Server!TakeThread
    <3>3. s5' \in [ToolCalls -> Nat] /\ DOMAIN s7' = ToolCalls
      BY <1>3 DEF Server!TakeThread, Server!Over
    <3>. QED  BY <3>1, <3>2, <3>3
  <2>2. ServerCall(c)'
    BY <1>3 DEF Server!TakeThread, Server!Over
  <2>3. ASSUME NEW d \in ToolCalls \ {c} PROVE ServerCall(d)'
    BY <1>3 DEF Server!TakeThread, Server!Over
  <2>. QED  BY <2>1, <2>2, <2>3
<1>4. CASE Server!WaitEnds(c)
  <2>1. ServerTypes'
    <3>1. /\ s1' \in BOOLEAN /\ s2' \in {"unknown", "loaded", "broken"}
          /\ step' \in [ToolCalls -> {"new", "waiting", "answered", "cancelled"}]
          /\ s3' \in [ToolCalls -> Server!WorkerStates] /\ s6' \in [ToolCalls -> Server!ChildStates]
      BY <1>4 DEF Server!WaitEnds, Server!Over
    <3>2. s4' \in [ToolCalls -> Server!Jobs]
      <4>1. s3[c] \in Server!WorkerStates /\ s6[c] \in Server!ChildStates
        OBVIOUS
      <4>. QED  BY <1>4, <4>1, OverTyped DEF Server!WaitEnds
    <3>3. s5' \in [ToolCalls -> Nat] /\ DOMAIN s7' = ToolCalls
      BY <1>4 DEF Server!WaitEnds, Server!Over
    <3>. QED  BY <3>1, <3>2, <3>3
  <2>2. ServerCall(c)'
    BY <1>4, SMTT(40) DEF Server!WaitEnds, Server!Over
  <2>3. ASSUME NEW d \in ToolCalls \ {c} PROVE ServerCall(d)'
    BY <1>4 DEF Server!WaitEnds, Server!Over
  <2>. QED  BY <2>1, <2>2, <2>3
<1>5. CASE Server!TimesOut(c)
  <2>1. ServerTypes'
    <3>1. /\ s1' \in BOOLEAN /\ s2' \in {"unknown", "loaded", "broken"}
          /\ step' \in [ToolCalls -> {"new", "waiting", "answered", "cancelled"}]
          /\ s3' \in [ToolCalls -> Server!WorkerStates] /\ s6' \in [ToolCalls -> Server!ChildStates]
      BY <1>5 DEF Server!TimesOut, Server!Over, Server!MayTimeOut
    <3>2. s4' \in [ToolCalls -> Server!Jobs]
      BY <1>5, OverTyped DEF Server!TimesOut
    <3>3. s5' \in [ToolCalls -> Nat] /\ DOMAIN s7' = ToolCalls
      BY <1>5 DEF Server!TimesOut, Server!Over, Server!MayTimeOut
    <3>. QED  BY <3>1, <3>2, <3>3
  <2>2. ServerCall(c)'
    BY <1>5 DEF Server!TimesOut, Server!Over, Server!MayTimeOut
  <2>3. ASSUME NEW d \in ToolCalls \ {c} PROVE ServerCall(d)'
    BY <1>5 DEF Server!TimesOut, Server!Over, Server!MayTimeOut
  <2>. QED  BY <2>1, <2>2, <2>3
<1>6. CASE Server!Resume(c)
  <2>1. ServerTypes'
    <3>1. /\ s1' \in BOOLEAN /\ s2' \in {"unknown", "loaded", "broken"}
          /\ step' \in [ToolCalls -> {"new", "waiting", "answered", "cancelled"}]
          /\ s3' \in [ToolCalls -> Server!WorkerStates] /\ s6' \in [ToolCalls -> Server!ChildStates]
      BY <1>6 DEF Server!Resume, Server!FallsBack, Server!Answer, Server!Told, Server!ReportsFailure, Server!Job
    <3>2. s4' \in [ToolCalls -> Server!Jobs]
      BY <1>6 DEF Server!Resume, Server!FallsBack, Server!Answer, Server!Told, Server!ReportsFailure, Server!Job
    <3>3. s5' \in [ToolCalls -> Nat] /\ DOMAIN s7' = ToolCalls
      BY <1>6 DEF Server!Resume, Server!FallsBack, Server!Answer, Server!Told, Server!ReportsFailure, Server!Job
    <3>. QED  BY <3>1, <3>2, <3>3
  <2>2. ServerCall(c)'
    <3>1. CASE Server!FallsBack(s4[c])
      BY <1>6, <3>1 DEF Server!Resume, Server!FallsBack, Server!Job
    <3>2. CASE ~Server!FallsBack(s4[c])
      <4> DEFINE told == Server!Told(s4[c])
      <4>1. /\ s4[c].at = "over" /\ step[c] = "waiting"
            /\ s4' = [s4 EXCEPT ![c] = Server!NoJob] /\ step' = [step EXCEPT ![c] = "answered"]
            /\ s7' = [s7 EXCEPT ![c] = [status |-> told, is_error |-> told \notin {"ok", "warning"}]]
            /\ UNCHANGED <<s1, s2, s3, s5, s6>>
        BY <1>6, <3>2 DEF Server!Resume, Server!Answer, Server!ReportsFailure
      <4>2. told = "ok" => s4[c].result = "ok"
        BY ToldTruly
      <4>3. told = "warning" => s4[c].result = "warning"
        BY ToldTruly
      <4> HIDE DEF told
      <4>4. s4'[c] = Server!NoJob /\ s7'[c] = [status |-> told, is_error |-> told \notin {"ok", "warning"}]
        BY <4>1
      <4>5. s7'[c] # None /\ ~s7'[c].is_error =>
              \/ s7'[c].status = "ok" /\ (s3[c] = "ok" \/ s6[c] = "ok")
              \/ s7'[c].status = "warning" /\ s6[c] = "warning"
        BY <4>1, <4>2, <4>3, <4>4
      <4>. QED  BY <4>1, <4>4, <4>5
    <3>. QED  BY <3>1, <3>2
  <2>3. ASSUME NEW d \in ToolCalls \ {c} PROVE ServerCall(d)'
    BY <1>6 DEF Server!Resume, Server!FallsBack, Server!Answer, Server!Told, Server!ReportsFailure, Server!Job
  <2>. QED  BY <2>1, <2>2, <2>3
<1>7. CASE Server!PipelineStarts(c)
  <2>1. ServerTypes'
    <3>1. /\ s1' \in BOOLEAN /\ s2' \in {"unknown", "loaded", "broken"}
          /\ step' \in [ToolCalls -> {"new", "waiting", "answered", "cancelled"}]
          /\ s3' \in [ToolCalls -> Server!WorkerStates] /\ s6' \in [ToolCalls -> Server!ChildStates]
      <4>1. CASE s3[c] = "starting" /\ s3' = [s3 EXCEPT ![c] = "running"] /\ UNCHANGED s6
        BY <1>7, <4>1 DEF Server!PipelineStarts
      <4>2. CASE s6[c] = "starting" /\ s6' = [s6 EXCEPT ![c] = "running"] /\ UNCHANGED s3
        BY <1>7, <4>2 DEF Server!PipelineStarts
      <4>. QED  BY <1>7, <4>1, <4>2 DEF Server!PipelineStarts
    <3>2. s4' \in [ToolCalls -> Server!Jobs]
      BY <1>7 DEF Server!PipelineStarts
    <3>3. s5' \in [ToolCalls -> Nat] /\ DOMAIN s7' = ToolCalls
      BY <1>7 DEF Server!PipelineStarts
    <3>. QED  BY <3>1, <3>2, <3>3
  <2>2. ServerCall(c)'
    <3>1. CASE s3[c] = "starting" /\ s3' = [s3 EXCEPT ![c] = "running"] /\ UNCHANGED s6
      BY <1>7, <3>1 DEF Server!PipelineStarts
    <3>2. CASE s6[c] = "starting" /\ s6' = [s6 EXCEPT ![c] = "running"] /\ UNCHANGED s3
      BY <1>7, <3>2 DEF Server!PipelineStarts
    <3>. QED  BY <1>7, <3>1, <3>2 DEF Server!PipelineStarts
  <2>3. ASSUME NEW d \in ToolCalls \ {c} PROVE ServerCall(d)'
    BY <1>7 DEF Server!PipelineStarts
  <2>. QED  BY <2>1, <2>2, <2>3
<1>8. CASE Server!WorkerEnds(c)
  <2>1. ServerTypes'
    <3>1. /\ s1' \in BOOLEAN /\ s2' \in {"unknown", "loaded", "broken"}
          /\ step' \in [ToolCalls -> {"new", "waiting", "answered", "cancelled"}]
          /\ s3' \in [ToolCalls -> Server!WorkerStates] /\ s6' \in [ToolCalls -> Server!ChildStates]
      BY <1>8 DEF Server!WorkerEnds
    <3>2. s4' \in [ToolCalls -> Server!Jobs]
      BY <1>8 DEF Server!WorkerEnds
    <3>3. s5' \in [ToolCalls -> Nat] /\ DOMAIN s7' = ToolCalls
      BY <1>8 DEF Server!WorkerEnds
    <3>. QED  BY <3>1, <3>2, <3>3
  <2>2. ServerCall(c)'
    BY <1>8 DEF Server!WorkerEnds
  <2>3. ASSUME NEW d \in ToolCalls \ {c} PROVE ServerCall(d)'
    BY <1>8 DEF Server!WorkerEnds
  <2>. QED  BY <2>1, <2>2, <2>3
<1>9. CASE Server!ChildEnds(c)
  <2>1. ServerTypes'
    <3>1. /\ s1' \in BOOLEAN /\ s2' \in {"unknown", "loaded", "broken"}
          /\ step' \in [ToolCalls -> {"new", "waiting", "answered", "cancelled"}]
          /\ s3' \in [ToolCalls -> Server!WorkerStates] /\ s6' \in [ToolCalls -> Server!ChildStates]
      BY <1>9, SMTT(40) DEF Server!ChildEnds
    <3>2. s4' \in [ToolCalls -> Server!Jobs]
      BY <1>9 DEF Server!ChildEnds
    <3>3. s5' \in [ToolCalls -> Nat] /\ DOMAIN s7' = ToolCalls
      BY <1>9 DEF Server!ChildEnds
    <3>. QED  BY <3>1, <3>2, <3>3
  <2>2. ServerCall(c)'
    BY <1>9 DEF Server!ChildEnds
  <2>3. ASSUME NEW d \in ToolCalls \ {c} PROVE ServerCall(d)'
    BY <1>9 DEF Server!ChildEnds
  <2>. QED  BY <2>1, <2>2, <2>3
<1>10. CASE Server!Cancel(c)
  <2>1. ServerTypes'
    <3>1. /\ s1' \in BOOLEAN /\ s2' \in {"unknown", "loaded", "broken"}
          /\ step' \in [ToolCalls -> {"new", "waiting", "answered", "cancelled"}]
          /\ s3' \in [ToolCalls -> Server!WorkerStates] /\ s6' \in [ToolCalls -> Server!ChildStates]
      BY <1>10 DEF Server!Cancel
    <3>2. s4' \in [ToolCalls -> Server!Jobs]
      BY <1>10 DEF Server!Cancel
    <3>3. s5' \in [ToolCalls -> Nat] /\ DOMAIN s7' = ToolCalls
      BY <1>10 DEF Server!Cancel
    <3>. QED  BY <3>1, <3>2, <3>3
  <2>2. ServerCall(c)'
    BY <1>10 DEF Server!Cancel
  <2>3. ASSUME NEW d \in ToolCalls \ {c} PROVE ServerCall(d)'
    BY <1>10 DEF Server!Cancel
  <2>. QED  BY <2>1, <2>2, <2>3
<1>. QED
  BY <1>1, <1>2, <1>3, <1>4, <1>5, <1>6, <1>7, <1>8, <1>9, <1>10 DEF Server!ServerStep

-----------------------------------------------------------------------------
(***************************************************************************)
(* CallPacer                                                               *)
(***************************************************************************)
PacerInv == Pacer!TypeOK /\ Pacer!SlotsSpaced /\ Pacer!StartsInTime

LEMMA PacerStarts == Pacer!Init => PacerInv
BY PacerAssumption DEF Pacer!Init, PacerInv, Pacer!TypeOK, Pacer!SlotsSpaced, Pacer!StartsInTime

LEMMA PacerKept == PacerInv /\ Pacer!Next => PacerInv'
<1> SUFFICES ASSUME PacerInv, Pacer!Next PROVE PacerInv'
  OBVIOUS
<1> USE PacerAssumption DEF PacerInv, Pacer!TypeOK, Pacer!SlotsSpaced, Pacer!StartsInTime
<1>1. CASE Pacer!Tick
  BY <1>1 DEF Pacer!Tick
<1>2. ASSUME NEW c \in PacedCaller, Pacer!WaitTurn(c) PROVE PacerInv'
  <2>1. Pacer!Start \in Nat
    BY DEF Pacer!Start
  <2>2. PICK limit \in PacedDeadlines :
          \/ /\ step' = [step EXCEPT ![c] = "gives_up"] /\ UNCHANGED <<s1, s2>>
             /\ s4' = [s4 EXCEPT ![c] = [at |-> Pacer!Greatest(clock, limit), limit |-> limit]]
          \/ /\ ~Pacer!TooLate(limit) /\ step' = [step EXCEPT ![c] = "sleeps"]
             /\ s4' = [s4 EXCEPT ![c] = [at |-> Pacer!Start, limit |-> limit]]
             /\ s2' = Pacer!Start /\ s1' = Pacer!NewSlot(Pacer!Start)
    BY <1>2 DEF Pacer!WaitTurn
  <2>3. UNCHANGED <<clock, s3>> /\ s5' \in 0..MaxCalls
    BY <1>2 DEF Pacer!WaitTurn
  <2>4. Pacer!Greatest(clock, limit) \in Nat
    BY DEF Pacer!Greatest
  <2>. QED  BY <2>1, <2>2, <2>3, <2>4, SMTT(40) DEF Pacer!TooLate, Pacer!NewSlot
<1>3. ASSUME NEW c \in PacedCaller, Pacer!Send(c) PROVE PacerInv'
  BY <1>3 DEF Pacer!Send
<1>4. ASSUME NEW c \in PacedCaller, Pacer!Raise(c) PROVE PacerInv'
  BY <1>4 DEF Pacer!Raise
<1>5. ASSUME NEW c \in PacedCaller, Pacer!Learn(c) PROVE PacerInv'
  BY <1>5 DEF Pacer!Learn, Pacer!Least, Pacer!Greatest
<1>. QED
  BY <1>1, <1>2, <1>3, <1>4, <1>5 DEF Pacer!Next, Pacer!CallerStep

-----------------------------------------------------------------------------
(***************************************************************************)
(* ConnectionPool                                                          *)
(***************************************************************************)
PoolIdle ==
  \A p \in Process : \A k \in DOMAIN s1[p] : \A i \in DOMAIN s4 : Pool!Lies(p, k, i) => Pool!IdleOK(p, k, i)
PoolUse == \A c \in PoolCaller : Pool!Using(c) => Pool!UseOK(c)
PoolRest ==
  /\ Pool!AnswersAreOwn
  /\ \A p \in Process \ {Forked} : s2[p] = p
  /\ \A c \in PoolCaller : s5[c].origin = "home" /\ s5[c].hop <= MaxRedirects
                         /\ (step[c] \in {"idle", "acquire"} => s5[c].tries = 0)
  /\ \A i \in DOMAIN s4 : s4[i].by = {} \/ \E p \in Process : s4[i].by = {p}

LEMMA PoolStarts == Pool!Init => Pool!Inv
BY PoolAssumption, EmptySeq
   DEF Pool!Init, Pool!Inv, Pool!TypeOK, Pool!AnswersAreOwn, Pool!Using, Pool!NoCall, Pool!Call, Pool!Origins

\* One connection's record is replaced.
LEMMA ConnReplaced ==
  ASSUME s4 \in Seq(Pool!Conn), NEW i \in DOMAIN s4, NEW r \in Pool!Conn, NEW t, t = [s4 EXCEPT ![i] = r]
  PROVE  /\ t \in Seq(Pool!Conn) /\ Len(t) = Len(s4) /\ DOMAIN t = DOMAIN s4
         /\ t[i] = r /\ \A j \in DOMAIN s4 \ {i} : t[j] = s4[j]
<1>1. DOMAIN s4 = 1..Len(s4) /\ i \in 1..Len(s4)
  BY LenProperties
<1>2. t \in Seq(Pool!Conn) /\ Len(t) = Len(s4)
  BY <1>1, ExceptSeq
<1>. QED
  BY <1>1, <1>2, LenProperties

\* What the server does to a connection.
LEMMA ServerSide ==
  ASSUME Pool!TypeOK, PoolIdle, PoolUse, PoolRest, NEW i \in DOMAIN s4, NEW r \in Pool!Conn,
         s4' = [s4 EXCEPT ![i] = r], UNCHANGED <<clock, step, s1, s2, s3, s5>>,
         r.open = s4[i].open, r.by = s4[i].by, r.count = s4[i].count,
         \/ r.owed = <<>> /\ r.inbox = s4[i].inbox
         \/ /\ s4[i].owed # <<>> /\ r.owed = Tail(s4[i].owed)
            /\ r.inbox = IF s4[i].open THEN Append(s4[i].inbox, Head(s4[i].owed)) ELSE s4[i].inbox
  PROVE  Pool!TypeOK' /\ PoolIdle' /\ PoolUse' /\ PoolRest'
<1>1. /\ s4' \in Seq(Pool!Conn) /\ Len(s4') = Len(s4) /\ DOMAIN s4' = DOMAIN s4
      /\ s4'[i] = r /\ \A j \in DOMAIN s4 \ {i} : s4'[j] = s4[j]
  BY ConnReplaced DEF Pool!TypeOK
<1>2. Pool!TypeOK'
  BY <1>1 DEF Pool!TypeOK
<1>3. PoolIdle'
  <2> SUFFICES ASSUME NEW p \in Process, NEW k \in DOMAIN s1[p], NEW j \in DOMAIN s4, Pool!Lies(p, k, j)
               PROVE  Pool!IdleOK(p, k, j)'
    BY <1>1 DEF PoolIdle, Pool!Lies
  <2>1. Pool!IdleOK(p, k, j)
    BY DEF PoolIdle
  <2>2. Pool!Quiet(j)'
    BY <1>1, <2>1 DEF Pool!IdleOK, Pool!Quiet
  <2>3. s4'[j].by = s4[j].by
    BY <1>1
  <2>. QED  BY <2>1, <2>2, <2>3 DEF Pool!IdleOK, Pool!Lies, Pool!Using
<1>4. PoolUse'
  <2> SUFFICES ASSUME NEW c \in PoolCaller, Pool!Using(c) PROVE Pool!UseOK(c)'
    BY DEF PoolUse, Pool!Using
  <2>1. CASE s5[c].conn # i
    BY <1>1, <2>1 DEF PoolUse, Pool!UseOK, Pool!Quiet, Pool!Using, Pool!Pool
  <2>2. CASE s5[c].conn = i
    <3> DEFINE x == s5[c]
    <3>1. Pool!UseOK(c) /\ s4'[i] = r
      BY <1>1 DEF PoolUse
    <3>2. step[c] = "send" => Pool!Quiet(i)'
      BY <2>2, <3>1 DEF Pool!UseOK, Pool!Quiet
    <3>3. ASSUME step[c] = "receive"
          PROVE  \/ r.inbox = <<>> /\ r.owed \in {<<>>, <<x.tag>>}
                 \/ r.inbox = <<x.tag>> /\ r.owed = <<>>
      <4>1. Tail(<<x.tag>>) = <<>> /\ Head(<<x.tag>>) = x.tag /\ Append(<<>>, x.tag) = <<x.tag>>
        OBVIOUS
      <4>. QED  BY <2>2, <3>1, <3>3, <4>1 DEF Pool!UseOK
    <3>. QED  BY <1>1, <2>2, <3>1, <3>2, <3>3 DEF Pool!UseOK, Pool!Using, Pool!Pool
  <2>. QED  BY <2>1, <2>2
<1>5. PoolRest'
  BY <1>1 DEF PoolRest, Pool!AnswersAreOwn
<1>. QED  BY <1>2, <1>3, <1>4, <1>5

\* A caller goes on with a call record, and with a connection of T or a new one.
CallerGoes(c, v, x) ==
  /\ v \in {"acquire", "send", "receive", "decide", "over"} /\ x \in Pool!Call
  /\ step' = [step EXCEPT ![c] = v] /\ s5' = [s5 EXCEPT ![c] = x]
  /\ x.origin = "home" /\ x.hop <= MaxRedirects
  /\ v = "acquire" => x.tries = 0
  /\ v = "decide" => x.got = x.tag
\* The connections in T apart, a step leaves all of them as they are.
OthersStay(T) ==
  /\ s4' \in Seq(Pool!Conn) /\ Len(s4) <= Len(s4')
  /\ \A j \in DOMAIN s4 \ T : s4'[j] = s4[j]
  /\ \A j \in DOMAIN s4' : s4'[j].by = {} \/ \E p \in Process : s4'[j].by = {p}
UsesOwn(c, v, x, T) ==
  /\ v \in {"send", "receive"} =>
       /\ x.conn \in DOMAIN s4' /\ s4'[x.conn].open /\ s4'[x.conn].by \subseteq {ProcessOf[c]}
       /\ x.conn \notin DOMAIN s4 \/ x.conn \in T
  /\ v = "send" =>
       /\ s4'[x.conn].owed = <<>> /\ s4'[x.conn].inbox = <<>>
       /\ x.tries = 0 \/ (x.tries = 1 /\ ~x.reused)
       /\ ~x.reused => s4'[x.conn].count = 0
  /\ v = "receive" =>
       /\ s4'[x.conn].owed = <<x.tag>> /\ s4'[x.conn].inbox = <<>> /\ s4'[x.conn].count = x.tag
       /\ x.tries = 1 \/ (x.tries = 2 /\ ~x.reused /\ x.tag = 1)
Unshared(c, T) == \A d \in PoolCaller \ {c} : Pool!Using(d) => s5[d].conn \notin T

\* What a caller does that leaves the pools alone.
Own(c) == IF Pool!Using(c) THEN {s5[c].conn} ELSE {}
CallerMoves(c, v, x) ==
  CallerGoes(c, v, x) /\ OthersStay(Own(c)) /\ UsesOwn(c, v, x, Own(c)) /\ UNCHANGED <<clock, s1, s2, s3>>

LEMMA SeqsGrow ==
  ASSUME Pool!TypeOK, s4' \in Seq(Pool!Conn), Len(s4) <= Len(s4')
  PROVE  /\ DOMAIN s4 = 1..Len(s4) /\ Len(s4) \in Nat
         /\ DOMAIN s4' = 1..Len(s4') /\ Len(s4') \in Nat /\ DOMAIN s4 \subseteq DOMAIN s4'
BY LenProperties DEF Pool!TypeOK

LEMMA CallerUpdated ==
  ASSUME Pool!TypeOK, NEW c \in PoolCaller, NEW v, NEW x, CallerGoes(c, v, x)
  PROVE  /\ step'[c] = v /\ s5'[c] = x
         /\ \A d \in PoolCaller \ {c} : step'[d] = step[d] /\ s5'[d] = s5[d]
BY DEF Pool!TypeOK, CallerGoes

\* An idle connection is one that was opened.
LEMMA PlaceOpened ==
  ASSUME Pool!TypeOK, NEW p \in Process, NEW k \in DOMAIN s1[p]
  PROVE  s1[p][k].conn \in DOMAIN s4
<1> DEFINE Place == [conn : 1..Len(s4), stamp : 0..PoolTime]
<1>1. s1[p] \in Seq(Place) /\ DOMAIN s4 = 1..Len(s4)
  BY LenProperties DEF Pool!TypeOK
<1>2. s1[p][k] \in Place
  <2> HIDE DEF Place
  <2>. QED  BY <1>1, ElementOfSeq, LenProperties
<1>. QED  BY <1>1, <1>2

LEMMA TypeKept ==
  ASSUME Pool!TypeOK, NEW c \in PoolCaller, NEW v, NEW x, NEW T, CallerGoes(c, v, x), OthersStay(T),
         s1' \in [Process -> Seq([conn : 1..Len(s4'), stamp : 0..PoolTime])],
         s2' \in [Process -> Process], UNCHANGED <<clock, s3>>
  PROVE  Pool!TypeOK'
<1>1. step' \in [PoolCaller -> {"idle", "acquire", "send", "receive", "decide", "over"}]
  BY DEF Pool!TypeOK, CallerGoes
<1>2. s5' \in [PoolCaller -> Pool!Call]
  BY DEF Pool!TypeOK, CallerGoes
<1>. QED  BY <1>1, <1>2 DEF Pool!TypeOK, OthersStay

LEMMA RestKept ==
  ASSUME Pool!TypeOK, PoolRest, NEW c \in PoolCaller, NEW v, NEW x, NEW T, CallerGoes(c, v, x), OthersStay(T),
         \A p \in Process \ {Forked} : s2'[p] = p
  PROVE  PoolRest'
<1>1. /\ step'[c] = v /\ s5'[c] = x
      /\ \A d \in PoolCaller \ {c} : step'[d] = step[d] /\ s5'[d] = s5[d]
  BY CallerUpdated
<1>. QED  BY <1>1 DEF PoolRest, Pool!AnswersAreOwn, CallerGoes, OthersStay

\* The others still have their connections to themselves, and so has this caller.
LEMMA UseKept ==
  ASSUME Pool!TypeOK, PoolUse, NEW c \in PoolCaller, NEW v, NEW x, NEW T,
         CallerGoes(c, v, x), OthersStay(T), UsesOwn(c, v, x, T), Unshared(c, T)
  PROVE  PoolUse'
<1>1. /\ DOMAIN s4 = 1..Len(s4) /\ Len(s4) \in Nat
      /\ DOMAIN s4' = 1..Len(s4') /\ Len(s4') \in Nat /\ DOMAIN s4 \subseteq DOMAIN s4'
  BY SeqsGrow DEF OthersStay
<1>2. /\ step'[c] = v /\ s5'[c] = x
      /\ \A d \in PoolCaller \ {c} : step'[d] = step[d] /\ s5'[d] = s5[d]
  BY CallerUpdated
<1> SUFFICES ASSUME NEW d \in PoolCaller, Pool!Using(d)' PROVE Pool!UseOK(d)'
  BY DEF PoolUse
<1>3. CASE d # c
  <2>1. Pool!Using(d) /\ Pool!UseOK(d) /\ step'[d] = step[d] /\ s5'[d] = s5[d]
    BY <1>2, <1>3 DEF PoolUse, Pool!Using
  <2>2. s5[d].conn \in DOMAIN s4 \ T
    BY <1>3, <2>1 DEF Pool!UseOK, Unshared
  <2>3. s4'[s5[d].conn] = s4[s5[d].conn]
    BY <2>2 DEF OthersStay
  <2>4. ASSUME NEW e \in PoolCaller, Pool!Using(e)', e # d PROVE s5'[e].conn # s5[d].conn
    <3>1. CASE e # c
      BY <1>2, <2>1, <2>4, <3>1 DEF Pool!UseOK, Pool!Using
    <3>2. CASE e = c
      BY <1>2, <2>2, <2>4, <3>2 DEF UsesOwn, Pool!Using
    <3>. QED  BY <3>1, <3>2
  <2>. QED  BY <1>1, <2>1, <2>2, <2>3, <2>4 DEF Pool!UseOK, Pool!Quiet, Pool!Pool
<1>4. CASE d = c
  <2>1. v \in {"send", "receive"}
    BY <1>2, <1>4 DEF Pool!Using
  <2>2. ASSUME NEW e \in PoolCaller, Pool!Using(e)', e # c PROVE s5'[e].conn # x.conn
    <3>1. Pool!Using(e) /\ Pool!UseOK(e) /\ s5'[e] = s5[e]
      BY <1>2, <2>2 DEF PoolUse, Pool!Using
    <3>. QED  BY <2>1, <2>2, <3>1 DEF Pool!UseOK, UsesOwn, Unshared
  <2>. QED  BY <1>1, <1>2, <1>4, <2>1, <2>2 DEF UsesOwn, Pool!UseOK, Pool!Quiet, Pool!Pool
<1>. QED  BY <1>3, <1>4

\* A place that was in the pool before, of a connection that is not in T.
LEMMA PlaceKept ==
  ASSUME Pool!TypeOK, PoolIdle, NEW c \in PoolCaller, NEW v, NEW x, NEW T,
         CallerGoes(c, v, x), OthersStay(T), UsesOwn(c, v, x, T),
         NEW p \in Process, NEW k \in DOMAIN s1[p], NEW j, Pool!Lies(p, k, j), j \notin T,
         \A z \in Process : \A m \in DOMAIN s1'[z] : Pool!Lies(z, m, j)' => Pool!Lies(z, m, j)
  PROVE  Pool!IdleOK(p, k, j)'
<1>1. j \in DOMAIN s4
  BY PlaceOpened DEF Pool!Lies
<1>2. Pool!IdleOK(p, k, j) /\ s4'[j] = s4[j]
  BY <1>1 DEF PoolIdle, OthersStay
<1>3. /\ step'[c] = v /\ s5'[c] = x
      /\ \A d \in PoolCaller \ {c} : step'[d] = step[d] /\ s5'[d] = s5[d]
  BY CallerUpdated
<1>4. ASSUME NEW d \in PoolCaller, Pool!Using(d)' PROVE s5'[d].conn # j
  <2>1. CASE d # c
    BY <1>2, <1>3, <1>4, <2>1 DEF Pool!IdleOK, Pool!Using
  <2>2. CASE d = c
    BY <1>1, <1>3, <1>4, <2>2 DEF UsesOwn, Pool!Using
  <2>. QED  BY <2>1, <2>2
<1>5. \A z \in Process : \A m \in DOMAIN s1'[z] : Pool!Lies(z, m, j)' => z = p /\ m = k
  BY <1>2 DEF Pool!IdleOK, Pool!Lies
<1>. QED  BY <1>2, <1>4, <1>5 DEF Pool!IdleOK, Pool!Quiet

LEMMA OwnUnshared == ASSUME PoolUse, NEW c \in PoolCaller PROVE Unshared(c, Own(c))
BY DEF PoolUse, Pool!UseOK, Unshared, Own

LEMMA CallerSide ==
  ASSUME Pool!TypeOK, PoolIdle, PoolUse, PoolRest, NEW c \in PoolCaller, NEW v, NEW x, CallerMoves(c, v, x)
  PROVE  Pool!TypeOK' /\ PoolIdle' /\ PoolUse' /\ PoolRest'
<1>1. /\ CallerGoes(c, v, x) /\ OthersStay(Own(c)) /\ UsesOwn(c, v, x, Own(c))
      /\ UNCHANGED <<clock, s1, s2, s3>>
  BY DEF CallerMoves
<1>2. s1' \in [Process -> Seq([conn : 1..Len(s4'), stamp : 0..PoolTime])]
  <2> DEFINE Was == [conn : 1..Len(s4), stamp : 0..PoolTime]
             Is  == [conn : 1..Len(s4'), stamp : 0..PoolTime]
  <2>1. Was \subseteq Is
    BY <1>1, SeqsGrow DEF OthersStay
  <2>2. s1' \in [Process -> Seq(Was)]
    BY <1>1 DEF Pool!TypeOK
  <2> HIDE DEF Was, Is
  <2>3. Seq(Was) \subseteq Seq(Is)
    BY <2>1, SeqMonotonic
  <2>4. s1' \in [Process -> Seq(Is)]
    BY <2>2, <2>3
  <2>. QED  BY <2>4 DEF Is
<1>3. Pool!TypeOK'
  BY <1>1, <1>2, TypeKept DEF Pool!TypeOK
<1>4. PoolUse'
  BY <1>1, OwnUnshared, UseKept
<1>5. PoolRest'
  BY <1>1, RestKept DEF PoolRest
<1>6. PoolIdle'
  <2> SUFFICES ASSUME NEW p \in Process, NEW k \in DOMAIN s1[p], NEW j \in DOMAIN s4', Pool!Lies(p, k, j)
               PROVE  Pool!IdleOK(p, k, j)'
    BY <1>1 DEF PoolIdle, Pool!Lies
  <2>1. j \in DOMAIN s4
    BY PlaceOpened DEF Pool!Lies
  <2>2. j \notin Own(c)
    BY <2>1 DEF PoolIdle, Pool!IdleOK, Own
  <2>3. \A z \in Process : \A m \in DOMAIN s1'[z] : Pool!Lies(z, m, j)' => Pool!Lies(z, m, j)
    BY <1>1 DEF Pool!Lies
  <2>. QED  BY <1>1, <2>2, <2>3, PlaceKept
<1>. QED  BY <1>3, <1>4, <1>5, <1>6

\* What is known of a caller and of the connections, whatever it does.
Known(c) ==
  /\ s4 \in Seq(Pool!Conn) /\ Len(s4) \in Nat /\ DOMAIN s4 = 1..Len(s4)
  /\ \A j \in DOMAIN s4 : s4[j] \in Pool!Conn
  /\ \A j \in DOMAIN s4 : s4[j].by = {} \/ \E p \in Process : s4[j].by = {p}
  /\ s5[c] \in Pool!Call /\ DOMAIN step = PoolCaller /\ s5 \in [PoolCaller -> Pool!Call]
  /\ s5[c].origin = "home" /\ s5[c].hop <= MaxRedirects
  /\ step[c] \in {"idle", "acquire"} => s5[c].tries = 0
  /\ Pool!Using(c) => Pool!UseOK(c)

LEMMA CallerKnown == ASSUME Pool!TypeOK, PoolUse, PoolRest, NEW c \in PoolCaller PROVE Known(c)
<1>1. s4 \in Seq(Pool!Conn) /\ s5 \in [PoolCaller -> Pool!Call] /\ DOMAIN step = PoolCaller
  BY DEF Pool!TypeOK
<1>2. Len(s4) \in Nat /\ DOMAIN s4 = 1..Len(s4) /\ \A j \in DOMAIN s4 : s4[j] \in Pool!Conn
  BY <1>1, LenProperties, ElementOfSeq
<1>3. \A j \in DOMAIN s4 : s4[j].by = {} \/ \E p \in Process : s4[j].by = {p}
  BY DEF PoolRest
<1>4. /\ s5[c].origin = "home" /\ s5[c].hop <= MaxRedirects
      /\ step[c] \in {"idle", "acquire"} => s5[c].tries = 0
  BY DEF PoolRest
<1>5. Pool!Using(c) => Pool!UseOK(c)
  BY DEF PoolUse
<1>. QED  BY <1>1, <1>2, <1>3, <1>4, <1>5 DEF Known

\* It ends its call, and may have touched the connection it used.
LEMMA CallerLeaves ==
  ASSUME NEW c, Pool!Leave(c), OthersStay(Own(c)), UNCHANGED <<clock, s1, s2, s3>>
  PROVE  CallerMoves(c, "over", Pool!NoCall)
<1>1. Pool!NoCall \in Pool!Call /\ Pool!NoCall.origin = "home" /\ Pool!NoCall.hop = 0
  BY DEF Pool!NoCall, Pool!Call, Pool!Origins
<1>2. CallerGoes(c, "over", Pool!NoCall)
  BY <1>1, PoolAssumption DEF CallerGoes, Pool!Leave, Pool!Goto
<1>3. UsesOwn(c, "over", Pool!NoCall, Own(c))
  BY DEF UsesOwn
<1>. QED  BY <1>2, <1>3 DEF CallerMoves

\* It touches the connection it uses.
LEMMA OwnTouched ==
  ASSUME NEW c \in PoolCaller, Known(c), Pool!Using(c), NEW r \in Pool!Conn,
         r.by \subseteq {ProcessOf[c]}, s4' = [s4 EXCEPT ![s5[c].conn] = r]
  PROVE  OthersStay(Own(c)) /\ s4'[s5[c].conn] = r /\ DOMAIN s4' = DOMAIN s4 /\ s5[c].conn \in DOMAIN s4
<1> DEFINE i == s5[c].conn
<1>1. i \in DOMAIN s4 /\ s4 \in Seq(Pool!Conn)
  BY DEF Known, Pool!UseOK
<1>2. /\ s4' \in Seq(Pool!Conn) /\ Len(s4') = Len(s4) /\ DOMAIN s4' = DOMAIN s4
      /\ s4'[i] = r /\ \A j \in DOMAIN s4 \ {i} : s4'[j] = s4[j]
  BY <1>1, ConnReplaced
<1>3. r.by = {} \/ \E p \in Process : r.by = {p}
  BY PoolAssumption
<1>4. \A j \in DOMAIN s4' : s4'[j].by = {} \/ \E p \in Process : s4'[j].by = {p}
  BY <1>2, <1>3 DEF Known
<1>5. Len(s4) <= Len(s4')
  BY <1>2 DEF Known
<1>. QED  BY <1>1, <1>2, <1>4, <1>5 DEF OthersStay, Own

\* A connection that is closed.
LEMMA ClosedConn ==
  ASSUME NEW i \in DOMAIN s4, s4 \in Seq(Pool!Conn)
  PROVE  \E r \in Pool!Conn : Pool!Close(s4, i) = [s4 EXCEPT ![i] = r] /\ r.by = s4[i].by
<1> DEFINE r == [s4[i] EXCEPT !.open = FALSE, !.inbox = <<>>]
<1>1. s4[i] \in Pool!Conn
  BY LenProperties, ElementOfSeq
<1>2. r \in Pool!Conn /\ r.by = s4[i].by
  BY <1>1, EmptySeq DEF Pool!Conn
<1>3. Pool!Close(s4, i) = [s4 EXCEPT ![i] = r]
  BY DEF Pool!Close
<1>. QED  BY <1>2, <1>3

\* It gives up the connection it uses: by closing it, and taking a new one if it
\* had not opened that one itself.
LEMMA OwnClosed ==
  ASSUME NEW c \in PoolCaller, Known(c), Pool!Using(c), s4' = Pool!Close(s4, s5[c].conn)
  PROVE  OthersStay(Own(c))
<1>1. s5[c].conn \in DOMAIN s4 /\ s4[s5[c].conn].by \subseteq {ProcessOf[c]} /\ s4 \in Seq(Pool!Conn)
  BY DEF Known, Pool!UseOK, Pool!Pool
<1>2. PICK r \in Pool!Conn : Pool!Close(s4, s5[c].conn) = [s4 EXCEPT ![s5[c].conn] = r] /\ r.by = s4[s5[c].conn].by
  BY <1>1, ClosedConn
<1>. QED  BY <1>1, <1>2, OwnTouched

LEMMA NewConnTyped ==
  /\ Pool!NewConn \in Pool!Conn /\ Pool!NewConn.open /\ Pool!NewConn.by = {} /\ Pool!NewConn.count = 0
  /\ Pool!NewConn.owed = <<>> /\ Pool!NewConn.inbox = <<>>
BY EmptySeq DEF Pool!NewConn, Pool!Conn

LEMMA CallerReplaces ==
  ASSUME NEW c \in PoolCaller, Known(c), Pool!Using(c), Pool!Replace(c), UNCHANGED <<clock, s1, s2, s3>>
  PROVE  \E v, x : CallerMoves(c, v, x)
<1>1. CASE ~s5[c].reused
  BY <1>1, OwnClosed, CallerLeaves DEF Pool!Replace
<1>2. CASE s5[c].reused
  <2> DEFINE i == s5[c].conn
             n == Len(s4) + 1
             x == [s5[c] EXCEPT !.conn = n, !.reused = FALSE]
  <2>1. i \in DOMAIN s4 /\ s4 \in Seq(Pool!Conn) /\ s5[c] \in Pool!Call /\ n \in Nat /\ DOMAIN s4 = 1..Len(s4)
    BY DEF Known, Pool!UseOK
  <2>2. PICK r \in Pool!Conn : Pool!Close(s4, i) = [s4 EXCEPT ![i] = r] /\ r.by = s4[i].by
    BY <2>1, ClosedConn
  <2>3. s4' = Append(Pool!Close(s4, i), Pool!NewConn)
    BY <1>2 DEF Pool!Replace
  <2> DEFINE t == Pool!Close(s4, i)
  <2>4. t \in Seq(Pool!Conn) /\ Len(t) = Len(s4) /\ t[i] = r /\ \A j \in DOMAIN s4 \ {i} : t[j] = s4[j]
    BY <2>1, <2>2, ConnReplaced
  <2> HIDE DEF t
  <2>5. /\ s4' \in Seq(Pool!Conn) /\ Len(s4') = n /\ s4'[n] = Pool!NewConn
        /\ \A j \in 1..Len(s4) : s4'[j] = t[j]
    BY <2>3, <2>4, NewConnTyped, AppendProperties DEF t
  <2>6. DOMAIN s4' = 1..n
    BY <2>5, LenProperties
  <2>7. \A j \in DOMAIN s4' : s4'[j].by = {} \/ \E p \in Process : s4'[j].by = {p}
    BY <2>1, <2>2, <2>4, <2>5, <2>6, NewConnTyped, SMTT(40) DEF Known
  <2>8. OthersStay(Own(c))
    BY <2>1, <2>4, <2>5, <2>7 DEF OthersStay, Own
  <2>9. x \in Pool!Call /\ x.conn = n /\ x.reused = FALSE /\ x.tries = s5[c].tries
        /\ x.origin = s5[c].origin /\ x.hop = s5[c].hop
    BY <2>1 DEF Pool!Call
  <2>10. s5' = [s5 EXCEPT ![c] = x] /\ step' = [step EXCEPT ![c] = "send"]
    BY <1>2 DEF Pool!Replace, Pool!Goto, Known
  <2>11. s5[c].tries = 0 \/ s5[c].tries = 1
    BY <1>2 DEF Known, Pool!UseOK, Pool!Using
  <2> HIDE DEF x, n
  <2>12. CallerGoes(c, "send", x)
    BY <2>9, <2>10 DEF CallerGoes, Known
  <2>13. n \notin DOMAIN s4
    BY <2>1 DEF n
  <2>14. n \in DOMAIN s4'
    BY <2>1, <2>6 DEF n
  <2>15. UsesOwn(c, "send", x, Own(c))
    BY <2>5, <2>9, <2>11, <2>13, <2>14, NewConnTyped DEF UsesOwn
  <2>. QED  BY <2>8, <2>12, <2>15 DEF CallerMoves
<1>. QED  BY <1>1, <1>2

LEMMA CallerSends ==
  ASSUME NEW c \in PoolCaller, Known(c), Pool!Send(c), ~Pool!Replace(c)
  PROVE  \E v, x : CallerMoves(c, v, x)
<1> DEFINE i == s5[c].conn
           n == s4[i].count + 1
           r == [s4[i] EXCEPT !.count = n, !.owed = Append(@, n), !.by = @ \cup {ProcessOf[c]}]
           m == s5[c].tries + 1
           x == [s5[c] EXCEPT !.tag = n, !.tries = m]
<1>1. Pool!Using(c) /\ step[c] = "send" /\ UNCHANGED <<clock, s1, s2, s3>>
  BY DEF Pool!Send, Pool!Using
<1>2. /\ i \in DOMAIN s4 /\ s4[i].open /\ s4[i].by \subseteq {ProcessOf[c]}
      /\ s4[i].owed = <<>> /\ s4[i].inbox = <<>>
      /\ s5[c].tries = 0 \/ (s5[c].tries = 1 /\ ~s5[c].reused)
      /\ ~s5[c].reused => s4[i].count = 0
  BY <1>1 DEF Known, Pool!UseOK, Pool!Quiet, Pool!Pool
<1>3. s4[i] \in Pool!Conn /\ s5[c] \in Pool!Call
  BY <1>2 DEF Known
<1>4. n \in Nat /\ m \in Nat /\ (m = 1 \/ (m = 2 /\ ~s5[c].reused /\ n = 1))
  <2>1. s4[i].count \in Nat /\ s5[c].tries \in Nat
    BY <1>3 DEF Pool!Conn, Pool!Call
  <2>. QED  BY <1>2, <2>1
<1>5. Append(s4[i].owed, n) = <<n>> /\ <<n>> \in Seq(Nat) /\ ProcessOf[c] \in Process
  BY <1>2, <1>4, PoolAssumption
<1>6. s4' = [s4 EXCEPT ![i] = r] /\ s5' = [s5 EXCEPT ![c] = x] /\ step' = [step EXCEPT ![c] = "receive"]
  BY <1>1 DEF Pool!Send, Pool!Goto, Pool!Pool
<1> HIDE DEF n, m
<1>7. r \in Pool!Conn /\ r.by \subseteq {ProcessOf[c]} /\ r.open /\ r.count = n /\ r.owed = <<n>> /\ r.inbox = <<>>
  BY <1>2, <1>3, <1>4, <1>5 DEF Pool!Conn
<1>8. /\ x \in Pool!Call /\ x.tag = n /\ x.tries = m /\ x.reused = s5[c].reused
      /\ x.conn = i /\ x.origin = s5[c].origin /\ x.hop = s5[c].hop
  BY <1>3, <1>4 DEF Pool!Call
<1> HIDE DEF r, x
<1>9. OthersStay(Own(c)) /\ s4'[i] = r /\ DOMAIN s4' = DOMAIN s4
  BY <1>1, <1>6, <1>7, OwnTouched
<1>10. CallerGoes(c, "receive", x)
  BY <1>6, <1>8 DEF CallerGoes, Known
<1>12. UsesOwn(c, "receive", x, Own(c))
  BY <1>1, <1>2, <1>4, <1>7, <1>8, <1>9 DEF UsesOwn, Own
<1>. QED  BY <1>1, <1>9, <1>10, <1>12 DEF CallerMoves

\* The answer is read to its end, and the connection closed or put into the pool.
LEMMA CallerReads ==
  ASSUME NEW c \in PoolCaller, Known(c), Pool!Receive(c)
  PROVE  \E x : /\ CallerGoes(c, "decide", x) /\ Pool!Using(c)
                /\ s4[s5[c].conn].owed = <<>> /\ Tail(s4[s5[c].conn].inbox) = <<>>
<1> DEFINE i == s5[c].conn
           g == Head(s4[i].inbox)
           x == [s5[c] EXCEPT !.got = g, !.conn = 0, !.reused = FALSE]
<1>1. Pool!Using(c) /\ step[c] = "receive" /\ s4[i].inbox # <<>>
  BY DEF Pool!Receive, Pool!Using
<1>2. s4[i].inbox = <<s5[c].tag>> /\ s4[i].owed = <<>>
  BY <1>1 DEF Known, Pool!UseOK
<1>3. g = s5[c].tag /\ Tail(s4[i].inbox) = <<>>
  BY <1>2
<1>4. s5[c] \in Pool!Call
  BY DEF Known
<1>5. s5' = [s5 EXCEPT ![c] = x] /\ step' = [step EXCEPT ![c] = "decide"]
  BY DEF Pool!Receive, Pool!Goto
<1>6. g \in Nat
  BY <1>3, <1>4 DEF Pool!Call
<1> HIDE DEF g
<1>7. x \in Pool!Call /\ x.origin = s5[c].origin /\ x.hop = s5[c].hop /\ x.got = g /\ x.tag = s5[c].tag
  BY <1>4, <1>6 DEF Pool!Call
<1> HIDE DEF x
<1>9. CallerGoes(c, "decide", x)
  BY <1>3, <1>5, <1>7 DEF CallerGoes, Known
<1>. QED  BY <1>1, <1>2, <1>3, <1>9

LEMMA CallerReceives ==
  ASSUME Pool!TypeOK, PoolIdle, PoolUse, PoolRest, NEW c \in PoolCaller, Known(c), Pool!Receive(c)
  PROVE  Pool!TypeOK' /\ PoolIdle' /\ PoolUse' /\ PoolRest'
<1> DEFINE i == s5[c].conn
           p == ProcessOf[c]
<1>1. PICK x : /\ CallerGoes(c, "decide", x) /\ Pool!Using(c)
               /\ s4[i].owed = <<>> /\ Tail(s4[i].inbox) = <<>>
  BY CallerReads
<1>2. UNCHANGED <<clock, s2, s3>> /\ UsesOwn(c, "decide", x, Own(c))
  BY DEF Pool!Receive, UsesOwn
<1>3. CASE UNCHANGED s1 /\ s4' = Pool!Close(s4, i)
  BY <1>1, <1>2, <1>3, OwnClosed, CallerSide DEF CallerMoves
<1>4. CASE /\ s2[p] = p /\ s1' = [s1 EXCEPT ![p] = Append(@, [conn |-> i, stamp |-> clock])]
           /\ s4' = [s4 EXCEPT ![i].inbox = Tail(@)]
  <2> DEFINE e == [conn |-> i, stamp |-> clock]
             r == [s4[i] EXCEPT !.inbox = <<>>]
             n == Len(s1[p]) + 1
  <2>1. /\ i \in DOMAIN s4 /\ s4[i] \in Pool!Conn /\ s4[i].by \subseteq {p} /\ p \in Process
        /\ \A d \in PoolCaller : Pool!Using(d) /\ d # c => s5[d].conn # i
    BY <1>1, PoolAssumption DEF Known, Pool!UseOK, Pool!Pool
  <2>2. s4' = [s4 EXCEPT ![i] = r]
    BY <1>1, <1>4
  <2>3. r \in Pool!Conn /\ r.by = s4[i].by /\ r.owed = <<>> /\ r.inbox = <<>>
    BY <1>1, <2>1, EmptySeq DEF Pool!Conn
  <2> HIDE DEF r
  <2>4. OthersStay(Own(c)) /\ s4'[i] = r /\ DOMAIN s4' = DOMAIN s4
    BY <1>1, <2>1, <2>2, <2>3, OwnTouched
  <2>5. PoolUse' /\ PoolRest'
    <3>1. PoolUse'
      BY <1>1, <1>2, <2>4, OwnUnshared, UseKept
    <3>2. \A q \in Process \ {Forked} : s2'[q] = q
      BY <1>2 DEF PoolRest
    <3>. QED  BY <1>1, <2>4, <3>1, <3>2, RestKept
  <2>6. s1' \in [Process -> Seq([conn : 1..Len(s4'), stamp : 0..PoolTime])]
    <3> DEFINE Place == [conn : 1..Len(s4), stamp : 0..PoolTime]
    <3>1. Len(s4') = Len(s4) /\ e \in Place
      BY <2>1, <2>4, LenProperties DEF OthersStay, Known, Pool!TypeOK
    <3>2. s1 \in [Process -> Seq(Place)]
      BY DEF Pool!TypeOK
    <3> HIDE DEF Place, e
    <3>3. Append(s1[p], e) \in Seq(Place)
      BY <2>1, <3>1, <3>2, AppendProperties
    <3>4. s1' = [s1 EXCEPT ![p] = Append(s1[p], e)]
      BY <1>4 DEF e
    <3>5. s1' \in [Process -> Seq(Place)]
      BY <3>2, <3>3, <3>4
    <3>. QED  BY <3>1, <3>5 DEF Place
  <2>7. Pool!TypeOK'
    BY <1>1, <1>2, <2>4, <2>6, TypeKept DEF Pool!TypeOK
  <2>8. /\ DOMAIN s1'[p] = DOMAIN s1[p] \cup {n} /\ n \notin DOMAIN s1[p]
        /\ s1'[p][n] = e /\ \A k \in DOMAIN s1[p] : s1'[p][k] = s1[p][k]
        /\ \A q \in Process \ {p} : s1'[q] = s1[q]
    <3>1. s1[p] \in Seq([conn : 1..Len(s4), stamp : 0..PoolTime]) /\ DOMAIN s1 = Process
      BY <2>1 DEF Pool!TypeOK
    <3>2. s1'[p] = Append(s1[p], e) /\ \A q \in Process \ {p} : s1'[q] = s1[q]
      BY <1>4, <2>1, <3>1
    <3>3. /\ Len(s1[p]) \in Nat /\ DOMAIN s1[p] = 1..Len(s1[p])
          /\ Len(s1'[p]) = n /\ DOMAIN s1'[p] = 1..n
          /\ s1'[p][n] = e /\ \A k \in 1..Len(s1[p]) : s1'[p][k] = s1[p][k]
      <4>1. Len(s1[p]) \in Nat /\ DOMAIN s1[p] = 1..Len(s1[p])
        BY <3>1, LenProperties
      <4>2. e \in [conn : 1..Len(s4), stamp : 0..PoolTime]
        BY <2>1 DEF Known, Pool!TypeOK
      <4> HIDE DEF e
      <4>3. /\ s1'[p] \in Seq([conn : 1..Len(s4), stamp : 0..PoolTime]) /\ Len(s1'[p]) = n
            /\ s1'[p][n] = e /\ \A k \in 1..Len(s1[p]) : s1'[p][k] = s1[p][k]
        BY <3>1, <3>2, <4>2, AppendProperties
      <4>. QED  BY <4>1, <4>3, LenProperties
    <3>. QED  BY <3>2, <3>3
  <2>9. ASSUME NEW q \in Process, NEW k \in DOMAIN s1'[q], NEW j, Pool!Lies(q, k, j)'
        PROVE  \/ q = p /\ k = n /\ j = i
               \/ k \in DOMAIN s1[q] /\ Pool!Lies(q, k, j)
    BY <1>2, <2>8, <2>9 DEF Pool!Lies
  <2>10. ASSUME NEW q \in Process, NEW k \in DOMAIN s1[q], Pool!Lies(q, k, i) PROVE FALSE
    BY <1>1, <2>1, <2>10 DEF PoolIdle, Pool!IdleOK
  <2>11. ASSUME NEW q \in Process, NEW k \in DOMAIN s1'[q], NEW j \in DOMAIN s4', Pool!Lies(q, k, j)'
         PROVE  Pool!IdleOK(q, k, j)'
    <3>1. CASE j # i
      <4>1. k \in DOMAIN s1[q] /\ Pool!Lies(q, k, j)
        BY <2>9, <2>11, <3>1
      <4>2. \A z \in Process : \A m \in DOMAIN s1'[z] : Pool!Lies(z, m, j)' => Pool!Lies(z, m, j)
        BY <2>9, <3>1
      <4>3. j \notin Own(c)
        BY <3>1 DEF Own
      <4>. QED  BY <1>1, <1>2, <2>4, <4>1, <4>2, <4>3, PlaceKept
    <3>2. CASE j = i
      <4>1. q = p /\ k = n
        BY <2>9, <2>10, <2>11, <3>2
      <4>2. ASSUME NEW z \in Process, NEW m \in DOMAIN s1'[z], Pool!Lies(z, m, j)' PROVE z = q /\ m = k
        BY <2>9, <2>10, <3>2, <4>1, <4>2
      <4>3. s4'[j].owed = <<>> /\ s4'[j].inbox = <<>> /\ s4'[j].by \subseteq {q}
        <5> HIDE DEF i, p
        <5>. QED  BY <2>1, <2>3, <2>4, <3>2, <4>1
      <4>4. ASSUME NEW d \in PoolCaller, Pool!Using(d)' PROVE s5'[d].conn # j
        BY <1>1, <2>1, <3>2, <4>4 DEF CallerGoes, Known, Pool!Using
      <4>. QED  BY <4>2, <4>3, <4>4 DEF Pool!IdleOK, Pool!Quiet
    <3>. QED  BY <3>1, <3>2
  <2>. QED  BY <2>5, <2>7, <2>11 DEF PoolIdle
<1>. QED  BY <1>3, <1>4 DEF Pool!Receive, Pool!Pool

LEMMA FunctionIsSeq ==
  ASSUME NEW S, NEW n \in Nat, NEW f \in [1..n -> S]
  PROVE  f \in Seq(S) /\ Len(f) = n
<1>1. f \in Seq(S)
  OBVIOUS
<1>2. Len(f) \in Nat /\ 1..Len(f) = 1..n
  BY <1>1, LenProperties
<1>. QED  BY <1>1, <1>2

\* A set of positions has a last one.
LEMMA LastPosition ==
  ASSUME NEW n \in Nat, NEW S, S \subseteq 1..n, S # {}
  PROVE  \E m \in S : \A j \in S : j <= m
<1> DEFINE T == {n - j : j \in S}
<1>1. T \subseteq Nat /\ T # {}
  <2>1. \A j \in S : j \in Nat /\ j <= n
    OBVIOUS
  <2>2. \A j \in S : n - j \in Nat
    BY <2>1
  <2>. QED  BY <2>2
<1>2. PICK i \in T : \A j \in T : <<j, i>> \notin OpToRel(<, Nat)
  BY <1>1, NatLessThanWellFounded, WFMin
<1>3. PICK m \in S : i = n - m
  OBVIOUS
<1>4. ASSUME NEW j \in S PROVE j <= m
  <2>1. j \in Nat /\ m \in Nat /\ j <= n /\ m <= n /\ n - j \in T /\ n - j \in Nat /\ i \in Nat
    BY <1>3
  <2>2. ~(n - j < i)
    BY <1>2, <2>1 DEF OpToRel
  <2>. QED  BY <1>3, <2>1, <2>2
<1>. QED  BY <1>4

\* The newest fresh connection of its own pool is taken, those above it are closed,
\* those below it stay; without a fresh one a connection is opened.
LEMMA CallerAcquires ==
  ASSUME Pool!TypeOK, PoolIdle, PoolUse, PoolRest, NEW c \in PoolCaller, Known(c), Pool!Acquire(c)
  PROVE  Pool!TypeOK' /\ PoolIdle' /\ PoolUse' /\ PoolRest'
<1> DEFINE p     == ProcessOf[c]
           all   == Pool!Own(p)
           good  == {i \in DOMAIN all : Pool!Fresh(all[i])}
           last  == IF good = {} THEN 0 ELSE CHOOSE i \in good : \A j \in good : j <= i
           stale == {all[i].conn : i \in {i \in DOMAIN all : i > last}}
           kept  == [i \in DOMAIN s4 |-> IF i \in stale THEN Pool!Close(s4, i)[i] ELSE s4[i]]
           left  == IF last = 0 THEN <<>> ELSE SubSeq(all, 1, last - 1)
           T     == {all[k].conn : k \in {k \in DOMAIN all : k >= last}}
           Place == [conn : 1..Len(s4), stamp : 0..PoolTime]
<1>1. /\ step[c] = "acquire" /\ step' = [step EXCEPT ![c] = "send"] /\ UNCHANGED <<clock, s3>>
      /\ s2' = [s2 EXCEPT ![p] = p] /\ s1' = [s1 EXCEPT ![p] = left]
      /\ \/ /\ last # 0 /\ s4' = kept
            /\ s5' = [s5 EXCEPT ![c].conn = all[last].conn, ![c].reused = TRUE]
         \/ /\ last = 0 /\ s4' = Append(kept, Pool!NewConn)
            /\ s5' = [s5 EXCEPT ![c].conn = Len(s4) + 1, ![c].reused = FALSE]
  BY DEF Pool!Acquire, Pool!Pool, Pool!Goto
<1>2. /\ p \in Process /\ all \in Seq(Place) /\ Len(all) \in Nat /\ DOMAIN all = 1..Len(all)
      /\ s1 \in [Process -> Seq(Place)] /\ s2 \in [Process -> Process]
      /\ DOMAIN s4 = 1..Len(s4) /\ Len(s4) \in Nat
  <2>1. p \in Process /\ s1 \in [Process -> Seq(Place)] /\ s2 \in [Process -> Process]
    BY PoolAssumption DEF Pool!TypeOK
  <2>2. all \in Seq(Place)
    <3> HIDE DEF Place, p
    <3>. QED  BY <2>1, EmptySeq DEF Pool!Own
  <2>3. Len(all) \in Nat /\ DOMAIN all = 1..Len(all)
    <3> HIDE DEF Place, all
    <3>. QED  BY <2>2, LenProperties
  <2>. QED  BY <2>1, <2>2, <2>3 DEF Known
<1>3. ASSUME NEW k \in DOMAIN all
      PROVE  /\ s2[p] = p /\ k \in DOMAIN s1[p] /\ s1[p] = all /\ all[k].conn \in DOMAIN s4
             /\ Pool!Lies(p, k, all[k].conn) /\ Pool!IdleOK(p, k, all[k].conn)
  <2>1. s2[p] = p /\ s1[p] = all
    BY <1>2, <1>3 DEF Pool!Own
  <2>2. k \in DOMAIN s1[p] /\ s1[p][k].conn \in DOMAIN s4
    BY <1>2, <1>3, <2>1, PlaceOpened
  <2>3. Pool!Lies(p, k, all[k].conn)
    BY <2>1, <2>2 DEF Pool!Lies
  <2>. QED  BY <1>2, <2>1, <2>2, <2>3 DEF PoolIdle
<1>4. /\ last \in 0..Len(all)
      /\ last # 0 => last \in DOMAIN all /\ s4[all[last].conn].open
  <2>1. CASE good = {}
    BY <1>2, <2>1
  <2>2. CASE good # {}
    <3>1. \E m \in good : \A j \in good : j <= m
      BY <1>2, <2>2, LastPosition
    <3>2. last \in good
      BY <2>2, <3>1
    <3>3. \A k \in good : k \in 1..Len(all) /\ s4[all[k].conn].open
      <4> HIDE DEF all
      <4>. QED  BY <1>2 DEF Pool!Fresh
    <3> HIDE DEF last, good, all
    <3>. QED  BY <1>2, <3>2, <3>3
  <2>. QED  BY <2>1, <2>2
<1>5. /\ kept \in Seq(Pool!Conn) /\ Len(kept) = Len(s4) /\ DOMAIN kept = 1..Len(s4)
      /\ \A j \in DOMAIN s4 : kept[j].by = s4[j].by /\ (j \notin stale => kept[j] = s4[j])
  <2>1. ASSUME NEW j \in DOMAIN s4
        PROVE  kept[j] \in Pool!Conn /\ kept[j].by = s4[j].by /\ (j \notin stale => kept[j] = s4[j])
    <3>1. PICK r \in Pool!Conn : Pool!Close(s4, j) = [s4 EXCEPT ![j] = r] /\ r.by = s4[j].by
      BY ClosedConn DEF Known
    <3>2. Pool!Close(s4, j)[j] = r
      BY <3>1
    <3>3. s4[j] \in Pool!Conn
      BY DEF Known
    <3> HIDE DEF stale
    <3>. QED  BY <3>1, <3>2, <3>3
  <2> HIDE DEF kept
  <2>2. kept \in [1..Len(s4) -> Pool!Conn]
    BY <1>2, <2>1 DEF kept
  <2>3. kept \in Seq(Pool!Conn) /\ Len(kept) = Len(s4)
    BY <1>2, <2>2, FunctionIsSeq
  <2>. QED  BY <1>2, <2>1, <2>2, <2>3
<1>6. left \in Seq(Place) /\ \A m \in DOMAIN left : m \in DOMAIN all /\ m < last /\ left[m] = all[m]
  <2>1. CASE last = 0
    BY <2>1, EmptySeq
  <2>2. CASE last # 0
    <3> HIDE DEF Place, all, last
    <3>1. last \in 1..Len(all) /\ last - 1 \in Int /\ 1 \in Int
      BY <1>2, <1>4, <2>2
    <3>2. \A i \in 1 .. last - 1 : i \in 1..Len(all) /\ all[i] \in Place
      BY <1>2, <3>1, ElementOfSeq
    <3>3. /\ SubSeq(all, 1, last - 1) \in Seq(Place) /\ Len(SubSeq(all, 1, last - 1)) = IF 1 <= last - 1 THEN last - 1 - 1 + 1 ELSE 0
          /\ \A i \in 1 .. last - 1 - 1 + 1 : SubSeq(all, 1, last - 1)[i] = all[1 + i - 1]
      BY <3>1, <3>2, SubSeqProperties
    <3>4. left = SubSeq(all, 1, last - 1) /\ Len(left) = last - 1 /\ DOMAIN left = 1..(last - 1)
      BY <2>2, <3>1, <3>3, LenProperties
    <3> HIDE DEF left
    <3>5. ASSUME NEW m \in DOMAIN left PROVE m \in DOMAIN all /\ m < last /\ left[m] = all[m]
      <4>1. m \in 1 .. last - 1 /\ m \in 1 .. last - 1 - 1 + 1 /\ 1 + m - 1 = m
        BY <3>1, <3>4, <3>5
      <4>2. left[m] = all[1 + m - 1]
        BY <3>3, <3>4, <4>1
      <4>. QED  BY <1>2, <3>1, <4>1, <4>2
    <3>. QED  BY <3>3, <3>4, <3>5
  <2>. QED  BY <2>1, <2>2
<1>7. stale \subseteq T
  <2> HIDE DEF all, last
  <2>1. \A k \in DOMAIN all : k > last => k >= last
    BY <1>2, <1>4
  <2>. QED  BY <2>1
<1>8. Unshared(c, T)
  BY <1>3 DEF Unshared, Pool!IdleOK
<1>9. ASSUME NEW z \in Process, NEW m \in DOMAIN s1'[z], NEW j, Pool!Lies(z, m, j)'
      PROVE  m \in DOMAIN s1[z] /\ Pool!Lies(z, m, j) /\ j \notin T
  <2>1. CASE z = p
    <3>1. s1'[p] = left
      BY <1>1, <1>2
    <3>2. m \in DOMAIN all /\ m < last /\ left[m] = all[m]
      BY <1>6, <1>9, <2>1, <3>1
    <3>3. j = all[m].conn
      BY <1>9, <2>1, <3>1, <3>2 DEF Pool!Lies
    <3> HIDE DEF all, left, last
    <3>4. m \in DOMAIN s1[z] /\ Pool!Lies(z, m, j) /\ Pool!IdleOK(p, m, j)
      BY <1>3, <2>1, <3>2, <3>3
    <3>5. ASSUME NEW k \in DOMAIN all, k >= last, j = all[k].conn PROVE FALSE
      <4>1. k \in DOMAIN s1[p] /\ Pool!Lies(p, k, j)
        BY <1>3, <3>5
      <4>2. k = m
        BY <1>2, <3>4, <4>1 DEF Pool!IdleOK
      <4>3. k \in Nat /\ last \in Nat
        BY <1>2, <1>4
      <4>. QED  BY <3>2, <3>5, <4>2, <4>3
    <3>. QED  BY <3>4, <3>5
  <2>2. CASE z # p
    <3>1. m \in DOMAIN s1[z] /\ Pool!Lies(z, m, j)
      BY <1>1, <1>2, <1>9, <2>2 DEF Pool!Lies
    <3> HIDE DEF all, last
    <3>2. ASSUME NEW k \in DOMAIN all, j = all[k].conn PROVE FALSE
      BY <1>2, <1>3, <2>2, <3>1, <3>2 DEF Pool!IdleOK
    <3>. QED  BY <3>1, <3>2
  <2>. QED  BY <2>1, <2>2
<1>10. ASSUME NEW x, CallerGoes(c, "send", x), OthersStay(T), UsesOwn(c, "send", x, T)
       PROVE  Pool!TypeOK' /\ PoolIdle' /\ PoolUse' /\ PoolRest'
  <2> HIDE DEF T, left
  <2>1. PoolUse'
    BY <1>8, <1>10, UseKept
  <2>2. \A q \in Process \ {Forked} : s2'[q] = q
    BY <1>1, <1>2 DEF PoolRest
  <2>3. PoolRest'
    BY <1>10, <2>2, RestKept
  <2>4. s1' \in [Process -> Seq([conn : 1..Len(s4'), stamp : 0..PoolTime])]
    <3> DEFINE Is == [conn : 1..Len(s4'), stamp : 0..PoolTime]
    <3>1. Place \subseteq Is
      BY <1>10, SeqsGrow DEF OthersStay
    <3> HIDE DEF Place, Is
    <3>2. Seq(Place) \subseteq Seq(Is)
      BY <3>1, SeqMonotonic
    <3>3. s1' \in [Process -> Seq(Place)]
      BY <1>1, <1>2, <1>6
    <3>4. s1' \in [Process -> Seq(Is)]
      BY <3>2, <3>3
    <3>. QED  BY <3>4 DEF Is
  <2>5. s2' \in [Process -> Process]
    BY <1>1, <1>2
  <2>6. Pool!TypeOK'
    BY <1>1, <1>10, <2>4, <2>5, TypeKept
  <2>7. ASSUME NEW z \in Process, NEW m \in DOMAIN s1'[z], NEW j \in DOMAIN s4', Pool!Lies(z, m, j)'
        PROVE  Pool!IdleOK(z, m, j)'
    <3>1. m \in DOMAIN s1[z] /\ Pool!Lies(z, m, j) /\ j \notin T
      BY <1>9, <2>7
    <3>2. \A y \in Process : \A k \in DOMAIN s1'[y] : Pool!Lies(y, k, j)' => Pool!Lies(y, k, j)
      BY <1>9
    <3>. QED  BY <1>10, <3>1, <3>2, PlaceKept
  <2>. QED  BY <2>1, <2>3, <2>6, <2>7 DEF PoolIdle
<1>11. CASE last # 0 /\ s4' = kept /\ s5' = [s5 EXCEPT ![c].conn = all[last].conn, ![c].reused = TRUE]
  <2> DEFINE n == all[last].conn
             x == [s5[c] EXCEPT !.conn = n, !.reused = TRUE]
  <2> HIDE DEF all, last, p, kept
  <2>1. last \in DOMAIN all /\ last \in Nat /\ s4[n].open /\ n \in DOMAIN s4 /\ n \in Nat /\ Pool!IdleOK(p, last, n)
    <3>1. last \in DOMAIN all /\ last \in Nat /\ s4[n].open
      BY <1>2, <1>4, <1>11
    <3>2. n \in DOMAIN s4 /\ Pool!IdleOK(p, last, n)
      BY <1>3, <3>1
    <3>. QED  BY <1>2, <3>1, <3>2
  <2>2. n \in T /\ n \notin stale
    <3>1. n \in T
      <4>1. last >= last
        BY <2>1
      <4>. QED  BY <2>1, <4>1
    <3>2. ASSUME NEW k \in DOMAIN all, k > last, n = all[k].conn PROVE FALSE
      <4>1. k \in DOMAIN s1[p] /\ Pool!Lies(p, k, n)
        BY <1>3, <3>2
      <4>2. k = last
        BY <1>2, <2>1, <4>1 DEF Pool!IdleOK
      <4>3. ~(last > last)
        BY <2>1
      <4>. QED  BY <3>2, <4>2, <4>3
    <3>. QED  BY <3>1, <3>2
  <2>3. /\ s4[n].by \subseteq {p} /\ s4[n].owed = <<>> /\ s4[n].inbox = <<>>
    BY <2>1 DEF Pool!IdleOK, Pool!Quiet
  <2>4. s5' = [s5 EXCEPT ![c] = x] /\ s5[c] \in Pool!Call /\ s5[c].tries = 0
    <3> HIDE DEF n
    <3>. QED  BY <1>1, <1>11 DEF Known, n
  <2> HIDE DEF n, stale, T
  <2>5. x \in Pool!Call /\ x.conn = n /\ x.reused = TRUE /\ x.tries = s5[c].tries
        /\ x.origin = s5[c].origin /\ x.hop = s5[c].hop
    BY <2>1, <2>4 DEF Pool!Call
  <2>6. OthersStay(T)
    <3>1. s4' \in Seq(Pool!Conn) /\ Len(s4) <= Len(s4') /\ DOMAIN s4' = DOMAIN s4
      BY <1>2, <1>5, <1>11
    <3>2. \A j \in DOMAIN s4 \ T : s4'[j] = s4[j]
      BY <1>5, <1>7, <1>11
    <3>3. \A j \in DOMAIN s4' : s4'[j].by = {} \/ \E q \in Process : s4'[j].by = {q}
      BY <1>5, <1>11, <3>1 DEF Known
    <3>. QED  BY <3>1, <3>2, <3>3 DEF OthersStay
  <2>7. CallerGoes(c, "send", x)
    <3> HIDE DEF x
    <3>. QED  BY <1>1, <2>4, <2>5 DEF CallerGoes, Known
  <2>8. UsesOwn(c, "send", x, T)
    <3> HIDE DEF x
    <3>1. s4'[n] = s4[n] /\ n \in DOMAIN s4'
      BY <1>2, <1>5, <1>11, <2>1, <2>2
    <3>. QED  BY <2>1, <2>2, <2>3, <2>4, <2>5, <3>1 DEF UsesOwn, p
  <2>. QED  BY <1>10, <2>6, <2>7, <2>8
<1>12. CASE last = 0 /\ s4' = Append(kept, Pool!NewConn) /\ s5' = [s5 EXCEPT ![c].conn = Len(s4) + 1, ![c].reused = FALSE]
  <2> DEFINE n == Len(s4) + 1
             x == [s5[c] EXCEPT !.conn = n, !.reused = FALSE]
  <2>1. s5' = [s5 EXCEPT ![c] = x] /\ s5[c] \in Pool!Call /\ s5[c].tries = 0
    BY <1>1, <1>12 DEF Known
  <2>2. n \in Nat /\ n \notin DOMAIN s4 /\ Len(s4) <= n /\ \A j \in 1..n : j = n \/ j \in DOMAIN s4
    BY <1>2, SMTT(40)
  <2>3. /\ s4' \in Seq(Pool!Conn) /\ Len(s4') = n /\ s4'[n] = Pool!NewConn
        /\ \A j \in DOMAIN s4 : s4'[j] = kept[j]
    <3> HIDE DEF kept
    <3>. QED  BY <1>2, <1>5, <1>12, NewConnTyped, AppendProperties
  <2>4. DOMAIN s4' = 1..n /\ n \in 1..n
    BY <1>2, <2>3, LenProperties
  <2> HIDE DEF n, kept, all, last, stale, T, p
  <2>5. x \in Pool!Call /\ x.conn = n /\ x.reused = FALSE /\ x.tries = s5[c].tries
        /\ x.origin = s5[c].origin /\ x.hop = s5[c].hop
    BY <2>1, <2>2 DEF Pool!Call
  <2> HIDE DEF x
  <2>6. OthersStay(T)
    <3>1. s4' \in Seq(Pool!Conn) /\ Len(s4) <= Len(s4')
      BY <2>2, <2>3
    <3>2. \A j \in DOMAIN s4 \ T : s4'[j] = s4[j]
      BY <1>5, <1>7, <2>3
    <3>3. \A j \in DOMAIN s4' : s4'[j].by = {} \/ \E q \in Process : s4'[j].by = {q}
      <4> SUFFICES ASSUME NEW j \in 1..n PROVE s4'[j].by = {} \/ \E q \in Process : s4'[j].by = {q}
        BY <2>4
      <4>1. CASE j = n
        BY <2>3, <4>1, NewConnTyped
      <4>2. CASE j \in DOMAIN s4
        BY <1>5, <2>3, <4>2 DEF Known
      <4>. QED  BY <2>2, <4>1, <4>2
    <3>. QED  BY <3>1, <3>2, <3>3 DEF OthersStay
  <2>7. CallerGoes(c, "send", x)
    BY <1>1, <2>1, <2>5 DEF CallerGoes, Known
  <2>8. UsesOwn(c, "send", x, T)
    BY <2>1, <2>2, <2>3, <2>4, <2>5, NewConnTyped DEF UsesOwn
  <2>. QED  BY <1>10, <2>6, <2>7, <2>8
<1>. QED  BY <1>1, <1>11, <1>12

LEMMA PoolKept == Pool!Inv /\ Pool!Next => Pool!Inv'
<1> SUFFICES ASSUME Pool!TypeOK, PoolIdle, PoolUse, PoolRest, Pool!Next
             PROVE  Pool!TypeOK' /\ PoolIdle' /\ PoolUse' /\ PoolRest'
  BY DEF Pool!Inv, PoolIdle, PoolUse, PoolRest
<1> USE PoolAssumption
<1>1. CASE Pool!Tick
  <2>1. clock' \in 0..PoolTime /\ UNCHANGED <<step, s1, s2, s3, s4, s5>>
    BY <1>1 DEF Pool!Tick, Pool!TypeOK
  <2>2. Pool!TypeOK'
    BY <2>1 DEF Pool!TypeOK
  <2>3. PoolRest'
    BY <2>1 DEF PoolRest, Pool!AnswersAreOwn
  <2>5. PoolIdle'
    BY <2>1, SMTT(40) DEF PoolIdle, Pool!Lies, Pool!IdleOK, Pool!Quiet, Pool!Using
  <2>4. PoolUse'
    BY <2>1 DEF PoolUse, Pool!UseOK, Pool!Quiet, Pool!Using, Pool!Pool
  <2>. QED  BY <2>2, <2>3, <2>4, <2>5
<1>2. ASSUME NEW p \in Process, Pool!Fork(p) PROVE Pool!TypeOK' /\ PoolIdle' /\ PoolUse' /\ PoolRest'
  <2>1. /\ p # Forked /\ s2[p] = p /\ Forked \in Process
        /\ s2' = [s2 EXCEPT ![Forked] = p] /\ s1' = [s1 EXCEPT ![Forked] = s1[p]]
        /\ UNCHANGED <<clock, step, s4, s5>>
    BY <1>2 DEF Pool!Fork, PoolRest
  <2>2. Pool!TypeOK'
    <3>1. s3' \subseteq Process
      BY <1>2, <2>1 DEF Pool!TypeOK, Pool!Fork
    <3>2. s2' \in [Process -> Process]
      BY <2>1 DEF Pool!TypeOK
    <3>3. s1' \in [Process -> Seq([conn : 1..Len(s4), stamp : 0..PoolTime])]
      BY <2>1 DEF Pool!TypeOK
    <3>. QED  BY <2>1, <3>1, <3>2, <3>3 DEF Pool!TypeOK
  <2>3. PoolIdle'
    <3>1. ASSUME NEW q \in Process, NEW k, NEW i, Pool!Lies(q, k, i)' PROVE q # Forked /\ Pool!Lies(q, k, i)
      BY <2>1, <3>1 DEF Pool!Lies, Pool!TypeOK
    <3>2. ASSUME NEW q \in Process, NEW k \in DOMAIN s1'[q], NEW i \in DOMAIN s4, Pool!Lies(q, k, i)'
          PROVE  Pool!IdleOK(q, k, i)'
      <4>1. Pool!Lies(q, k, i)
        BY <3>1, <3>2
      <4>2. Pool!IdleOK(q, k, i)
        BY <4>1 DEF PoolIdle, Pool!Lies
      <4>. QED  BY <2>1, <3>1, <4>2 DEF Pool!IdleOK, Pool!Quiet, Pool!Using, Pool!Lies
    <3>. QED  BY <2>1, <3>2 DEF PoolIdle
  <2>4. PoolUse' /\ PoolRest'
    BY <2>1, ZenonT(40) DEF PoolUse, PoolRest, Pool!UseOK, Pool!Quiet, Pool!Using, Pool!TypeOK, Pool!AnswersAreOwn, Pool!Pool
  <2>. QED  BY <2>2, <2>3, <2>4
<1>3. ASSUME NEW i \in DOMAIN s4, Pool!Serve(i) PROVE Pool!TypeOK' /\ PoolIdle' /\ PoolUse' /\ PoolRest'
  <2> DEFINE r == [s4[i] EXCEPT !.owed = Tail(@),
                                !.inbox = IF s4[i].open THEN Append(@, Head(s4[i].owed)) ELSE @]
  <2>1. s4[i] \in Pool!Conn /\ s4[i].owed # <<>>
    BY <1>3, ElementOfSeq, LenProperties DEF Pool!TypeOK, Pool!Serve
  <2>2. r \in Pool!Conn
    <3>1. Tail(s4[i].owed) \in Seq(Nat) /\ Head(s4[i].owed) \in Nat /\ Append(s4[i].inbox, Head(s4[i].owed)) \in Seq(Nat)
      BY <2>1, HeadTailProperties, AppendProperties DEF Pool!Conn
    <3>. QED  BY <2>1, <3>1 DEF Pool!Conn
  <2>3. s4' = [s4 EXCEPT ![i] = r] /\ UNCHANGED <<clock, step, s1, s2, s3, s5>>
    BY <1>3 DEF Pool!Serve
  <2>4. /\ r.open = s4[i].open /\ r.by = s4[i].by /\ r.count = s4[i].count /\ r.owed = Tail(s4[i].owed)
        /\ r.inbox = IF s4[i].open THEN Append(s4[i].inbox, Head(s4[i].owed)) ELSE s4[i].inbox
    BY <2>1 DEF Pool!Conn
  <2>. QED  BY <2>1, <2>2, <2>3, <2>4, ServerSide
<1>4. ASSUME NEW i \in DOMAIN s4, Pool!HangUp(i) PROVE Pool!TypeOK' /\ PoolIdle' /\ PoolUse' /\ PoolRest'
  <2> DEFINE r == [s4[i] EXCEPT !.closed = TRUE, !.owed = <<>>]
  <2>1. s4[i] \in Pool!Conn
    BY ElementOfSeq, LenProperties DEF Pool!TypeOK
  <2>2. r \in Pool!Conn
    BY <2>1, EmptySeq DEF Pool!Conn
  <2>3. s4' = [s4 EXCEPT ![i] = r] /\ UNCHANGED <<clock, step, s1, s2, s3, s5>>
    BY <1>4 DEF Pool!HangUp
  <2>4. r.open = s4[i].open /\ r.by = s4[i].by /\ r.count = s4[i].count /\ r.owed = <<>> /\ r.inbox = s4[i].inbox
    BY <2>1 DEF Pool!Conn
  <2>. QED  BY <2>1, <2>2, <2>3, <2>4, ServerSide
<1>5. ASSUME NEW c \in PoolCaller, Pool!CallerStep(c)
      PROVE  Pool!TypeOK' /\ PoolIdle' /\ PoolUse' /\ PoolRest'
  <2>1. Known(c)
    BY CallerKnown
  <2>2. ASSUME NEW v, NEW x, CallerMoves(c, v, x)
        PROVE  Pool!TypeOK' /\ PoolIdle' /\ PoolUse' /\ PoolRest'
    BY <2>2, CallerSide
  <2>3. ASSUME UNCHANGED s4 PROVE OthersStay(Own(c))
    BY <2>1, <2>3 DEF OthersStay, Known
  <2>4. ASSUME Pool!Leave(c), OthersStay(Own(c)), UNCHANGED <<clock, s1, s2, s3>>
        PROVE  Pool!TypeOK' /\ PoolIdle' /\ PoolUse' /\ PoolRest'
    BY <2>2, <2>4, CallerLeaves
  <2>5. CASE Pool!Begin(c)
    <3>1. CASE Pool!Goto(c, "acquire") /\ UNCHANGED s5
      <4>1. s5' = [s5 EXCEPT ![c] = s5[c]]
        BY <2>1, <3>1 DEF Known
      <4>2. UNCHANGED <<clock, s1, s2, s3, s4>> /\ step[c] = "idle"
        BY <2>5 DEF Pool!Begin
      <4>3. CallerGoes(c, "acquire", s5[c])
        BY <2>1, <3>1, <4>1, <4>2 DEF CallerGoes, Known, Pool!Goto
      <4>4. CallerMoves(c, "acquire", s5[c])
        BY <2>3, <4>2, <4>3 DEF CallerMoves, UsesOwn
      <4>. QED  BY <2>2, <4>4
    <3>. QED  BY <2>3, <2>4, <2>5, <3>1 DEF Pool!Begin
  <2>6. CASE Pool!Decide(c)
    <3>1. ASSUME s5[c].hop # MaxRedirects, Pool!Goto(c, "acquire"), NEW to \in {"home"},
                 s5' = [s5 EXCEPT ![c].hop = @ + 1, ![c].tries = 0, ![c].origin = to, ![c].tag = 0, ![c].got = 0]
          PROVE  Pool!TypeOK' /\ PoolIdle' /\ PoolUse' /\ PoolRest'
      <4> DEFINE h == s5[c].hop + 1
                 x == [s5[c] EXCEPT !.hop = h, !.tries = 0, !.origin = "home", !.tag = 0, !.got = 0]
      <4>1. s5[c] \in Pool!Call /\ s5[c].hop \in Nat
        BY <2>1 DEF Known, Pool!Call
      <4>2. h \in Nat
        BY <4>1
      <4>3. s5' = [s5 EXCEPT ![c] = x]
        BY <2>1, <3>1 DEF Known
      <4>4. h <= MaxRedirects
        BY <2>1, <3>1, <4>1 DEF Known
      <4> HIDE DEF h
      <4>8. x \in Pool!Call /\ x.origin = "home" /\ x.hop = h /\ x.tries = 0
        BY <4>1, <4>2 DEF Pool!Call, Pool!Origins
      <4> HIDE DEF x
      <4>5. CallerGoes(c, "acquire", x)
        BY <3>1, <4>3, <4>4, <4>8 DEF CallerGoes, Pool!Goto
      <4>6. UNCHANGED <<clock, s1, s2, s3, s4>>
        BY <2>6 DEF Pool!Decide
      <4>7. CallerMoves(c, "acquire", x)
        BY <2>3, <4>5, <4>6 DEF CallerMoves, UsesOwn
      <4>. QED  BY <2>2, <4>7
    <3>2. s5[c].origin = "home"
      BY <2>1 DEF Known
    <3>. QED  BY <2>3, <2>4, <2>6, <3>1, <3>2 DEF Pool!Decide, Pool!MayFollow, Pool!Origins
  <2>7. CASE Pool!Interrupted(c)
    <3>1. Pool!Using(c) /\ Pool!Leave(c) /\ UNCHANGED <<clock, s1, s2, s3>> /\ s4' = Pool!Close(s4, s5[c].conn)
      BY <2>7 DEF Pool!Interrupted, Pool!StoppedShort, Pool!Using
    <3>. QED  BY <2>1, <2>4, <3>1, OwnClosed
  <2>8. CASE Pool!Disconnected(c)
    <3>1. Pool!Using(c) /\ Pool!Replace(c) /\ UNCHANGED <<clock, s1, s2, s3>>
      BY <2>8 DEF Pool!Disconnected, Pool!Using
    <3>. QED  BY <2>1, <2>2, <3>1, CallerReplaces
  <2>9. CASE Pool!Send(c)
    <3>1. Pool!Using(c) /\ UNCHANGED <<clock, s1, s2, s3>> /\ step[c] = "send"
      BY <2>9 DEF Pool!Send, Pool!Using
    <3>2. CASE Pool!Replace(c)
      BY <2>1, <2>2, <3>1, <3>2, CallerReplaces
    <3>3. CASE ~Pool!Replace(c)
      BY <2>1, <2>2, <2>9, <3>1, <3>3, CallerSends DEF Pool!Send
    <3>. QED  BY <3>2, <3>3
  <2>10. CASE Pool!Receive(c)
    BY <2>1, <2>10, CallerReceives
  <2>11. CASE Pool!Acquire(c)
    BY <2>1, <2>11, CallerAcquires
  <2>. QED  BY <1>5, <2>5, <2>6, <2>7, <2>8, <2>9, <2>10, <2>11 DEF Pool!CallerStep
<1>. QED  BY <1>1, <1>2, <1>3, <1>4, <1>5 DEF Pool!Next

LEMMA PoolShared == Pool!Inv => Pool!OneUser /\ Pool!SentSparingly
<1> SUFFICES ASSUME Pool!TypeOK, PoolIdle, PoolUse, PoolRest PROVE Pool!OneUser /\ Pool!SentSparingly
  BY DEF Pool!Inv, PoolIdle, PoolUse, PoolRest
<1>1. ASSUME NEW c \in PoolCaller, NEW d \in PoolCaller, Pool!Using(c), Pool!Using(d), c # d
      PROVE  s5[c].conn # s5[d].conn
  BY <1>1 DEF PoolUse, Pool!UseOK
<1>2. ASSUME NEW c \in PoolCaller, NEW p \in Process, Pool!Using(c), s2[p] = p, NEW k \in DOMAIN s1[p],
             s1[p][k].conn = s5[c].conn
      PROVE  FALSE
  <2>1. s5[c].conn \in DOMAIN s4 /\ Pool!Lies(p, k, s5[c].conn)
    BY <1>2, PlaceOpened DEF Pool!Lies
  <2>. QED  BY <1>2, <2>1 DEF PoolIdle, Pool!IdleOK
<1>3. ASSUME NEW i \in DOMAIN s4, NEW p \in s4[i].by, NEW q \in s4[i].by PROVE p = q
  BY DEF PoolRest
<1>4. Pool!SentSparingly
  <2> SUFFICES ASSUME NEW c \in PoolCaller, Pool!Using(c)
               PROVE  /\ s5[c].origin = "home" /\ s5[c].hop <= MaxRedirects
                      /\ s5[c].tries <= IF step[c] = "send" THEN 1 ELSE 2
                      /\ s5[c].tries = 2 => s4[s5[c].conn].count = 1
    BY DEF Pool!SentSparingly
  <2>1. s5[c].origin = "home" /\ s5[c].hop <= MaxRedirects
    BY DEF PoolRest
  <2>2. Pool!UseOK(c) /\ step[c] \in {"send", "receive"}
    BY DEF PoolUse, Pool!Using
  <2>. QED  BY <2>1, <2>2 DEF Pool!UseOK
<1>5. \A c, d \in PoolCaller : Pool!Using(c) /\ Pool!Using(d) /\ c # d => s5[c].conn # s5[d].conn
  BY <1>1
<1>6. \A c \in PoolCaller, p \in Process : Pool!Using(c) /\ p = Pool!Pool(c) /\ s2[p] = p
        => \A k \in DOMAIN s1[p] : s1[p][k].conn # s5[c].conn
  BY <1>2
<1>7. Pool!OneUser
  BY <1>3, <1>5, <1>6, Zenon DEF Pool!OneUser
<1>. QED  BY <1>4, <1>7

-----------------------------------------------------------------------------
(***************************************************************************)
(* ExtractBatch                                                            *)
(***************************************************************************)
LEMMA BatchCounts == \A S : Batch!Cardinality(S) = Cardinality(S)
BY DEF Batch!Cardinality, Cardinality

LEMMA SetOfUrls ==
  ASSUME s3 \in Nat, NEW S \in SUBSET Batch!Urls
  PROVE  IsFiniteSet(S) /\ Cardinality(S) \in Nat
<1>1. IsFiniteSet(Batch!Urls)
  BY FS_Interval DEF Batch!Urls
<1>. QED  BY <1>1, FS_Subset, FS_CardinalityType

LEMMA BatchStarts == Batch!Init => Batch!Inv
<1> SUFFICES ASSUME Batch!Init PROVE Batch!Inv
  OBVIOUS
<1> USE BatchAssumption DEF Batch!Init, Batch!Urls
<1>1. s3 \in Nat /\ s4 \in [Batch!Urls -> Batch!States] /\ Batch!TypeOK
  BY DEF Batch!States, Batch!Pending, Batch!TypeOK
<1>2. Batch!PaidPagesKept /\ Batch!BlockReported /\ Batch!OneVerdict
  BY DEF Batch!PaidPagesKept, Batch!BlockReported, Batch!OneVerdict
<1>3. Batch!AtOnceOK /\ Batch!ItemsOK
  BY DEF Batch!AtOnceOK, Batch!ItemsOK
<1>4. Batch!RunningOK
  <2>1. Batch!Running = {}
    BY DEF Batch!Running
  <2>2. Batch!Cardinality(Batch!Running) <= Workers
    BY <2>1, BatchCounts, FS_EmptySet
  <2>. QED  BY <2>1, <2>2 DEF Batch!RunningOK
<1>. QED  BY <1>1, <1>2, <1>3, <1>4 DEF Batch!Inv

LEMMA BatchStill ==
  ASSUME Batch!Inv, UNCHANGED <<step, s2, s3, s4, s5, s6, s7, s8, s9>>
  PROVE  Batch!Inv'
<1>1. Batch!TypeOK' /\ s3' \in Nat /\ s4' \in [Batch!Urls' -> Batch!States]
  BY DEF Batch!Inv, Batch!TypeOK, Batch!Urls, Batch!Pending, Batch!Replies
<1>2. Batch!PaidPagesKept' /\ Batch!BlockReported' /\ Batch!OneVerdict'
  BY DEF Batch!Inv, Batch!PaidPagesKept, Batch!BlockReported, Batch!OneVerdict, Batch!Ended, Batch!Page
<1>3. Batch!AtOnceOK => Batch!AtOnceOK'
  BY DEF Batch!AtOnceOK, Batch!Urls
<1>4. Batch!ItemsOK => Batch!ItemsOK'
  BY DEF Batch!ItemsOK, Batch!Urls, Batch!Done
<1>5. Batch!RunningOK => Batch!RunningOK'
  BY DEF Batch!RunningOK, Batch!Urls, Batch!Running, Batch!Checked, Batch!Together
<1>. QED  BY <1>1, <1>2, <1>3, <1>4, <1>5 DEF Batch!Inv

\* A fetch takes a step.
LEMMA FetchMoves ==
  ASSUME Batch!Inv, s2 \notin Batch!AtOnce, NEW u \in Batch!Urls, s4[u] \in Batch!Pending,
         NEW v \in Batch!States, s4' = [s4 EXCEPT ![u] = v], UNCHANGED <<step, s2, s3, s6, s7>>,
         v \in Batch!Pending \cup Batch!Replies \cup {"late", "stopped", "not_tried", "refused"},
         s5' \in Batch!Urls \cup {None}, s9' \subseteq s8', s8' \subseteq Batch!Urls, Batch!RunningOK',
         s5 # None => s5' # None
  PROVE  Batch!Inv'
<1>1. s3' \in Nat /\ s4' \in [Batch!Urls' -> Batch!States]
  BY DEF Batch!Inv, Batch!Urls
<1>2. Batch!TypeOK'
  BY DEF Batch!Inv, Batch!TypeOK, Batch!Urls, Batch!Pending, Batch!Replies
<1>3. Batch!PaidPagesKept' /\ Batch!BlockReported' /\ Batch!OneVerdict'
  BY DEF Batch!Inv, Batch!PaidPagesKept, Batch!BlockReported, Batch!OneVerdict, Batch!Ended, Batch!Page
<1>4. Batch!ItemsOK'
  <2>1. ASSUME NEW i \in s7 PROVE i.says = "timed_out" \/ (Batch!Done(i.url)' /\ i.says = s4'[i.url])
    <3>1. i.says = "timed_out" \/ (Batch!Done(i.url) /\ i.says = s4[i.url] /\ i.url # u)
      BY <2>1 DEF Batch!Inv, Batch!ItemsOK, Batch!Done
    <3>2. CASE i.url # u
      <4>1. s4'[i.url] = s4[i.url]
        BY <3>2 DEF Batch!Inv
      <4>. QED  BY <3>1, <4>1 DEF Batch!Done, Batch!Pending
    <3>. QED  BY <3>1, <3>2
  <2>. QED  BY <2>1 DEF Batch!Inv, Batch!ItemsOK, Batch!Urls, Batch!States, Batch!Pending
<1>. QED  BY <1>1, <1>2, <1>3, <1>4 DEF Batch!Inv, Batch!AtOnce

LEMMA FewerUrls ==
  ASSUME s3 \in Nat, NEW T \in SUBSET Batch!Urls, NEW S \in SUBSET T
  PROVE  /\ Cardinality(S) \in Nat /\ Cardinality(T) \in Nat /\ Cardinality(S) <= Cardinality(T)
         /\ S # T => Cardinality(S) < Cardinality(T)
BY SetOfUrls, FS_Subset

LEMMA OneMoreUrl ==
  ASSUME s3 \in Nat, NEW S \in SUBSET Batch!Urls, NEW u \in Batch!Urls \ S
  PROVE  Cardinality(S \cup {u}) = Cardinality(S) + 1
BY SetOfUrls, FS_AddElement

\* The fetches under way when the state of one of them changes.
LEMMA UnderWay ==
  ASSUME Batch!Inv, NEW u \in Batch!Urls, NEW v, s4' = [s4 EXCEPT ![u] = v], s3' = s3
  PROVE  /\ Batch!Running' = IF v \in {"checked", "sent"} THEN Batch!Running \cup {u} ELSE Batch!Running \ {u}
         /\ Batch!Checked' = IF v = "checked" THEN Batch!Checked \cup {u} ELSE Batch!Checked \ {u}
         /\ \A w \in Batch!Urls \ {u} : s4'[w] = s4[w]
         /\ s4'[u] = v /\ Batch!Urls' = Batch!Urls
BY DEF Batch!Inv, Batch!Running, Batch!Checked, Batch!Urls

LEMMA StartKept == ASSUME Batch!Inv, NEW u \in Batch!Urls, Batch!Start(u) PROVE Batch!Inv'
<1> DEFINE v == Batch!Unstarted(u)
<1>1. /\ s2 \notin Batch!AtOnce /\ s4[u] = "queued" /\ s4' = [s4 EXCEPT ![u] = v] /\ Batch!MayStart(u)
      /\ UNCHANGED <<step, s2, s3, s5, s6, s7, s8, s9>>
  BY DEF Batch!Start, Batch!input
<1>2. v \in {"stopped", "not_tried", "checked"} /\ (v = "checked" => s5 = None) /\ (s5 # None => v = "stopped")
  BY DEF Batch!Unstarted
<1> HIDE DEF v
<1>3. /\ Batch!Running' = IF v = "checked" THEN Batch!Running \cup {u} ELSE Batch!Running
      /\ v # "checked" => Batch!Checked' = Batch!Checked
      /\ (\E w \in Batch!Urls : s4'[w] = "blocked") => \E w \in Batch!Urls : s4[w] = "blocked"
      /\ Batch!Urls' = Batch!Urls /\ u \notin Batch!Running
  <2>1. u \notin Batch!Running /\ u \notin Batch!Checked
    BY <1>1 DEF Batch!Running, Batch!Checked
  <2>2. /\ Batch!Running' = IF v \in {"checked", "sent"} THEN Batch!Running \cup {u} ELSE Batch!Running \ {u}
        /\ Batch!Checked' = IF v = "checked" THEN Batch!Checked \cup {u} ELSE Batch!Checked \ {u}
        /\ \A w \in Batch!Urls \ {u} : s4'[w] = s4[w]
        /\ s4'[u] = v /\ Batch!Urls' = Batch!Urls
    BY <1>1, UnderWay
  <2>. QED  BY <1>2, <2>1, <2>2
<1>4. Batch!RunningOK'
  <2>1. Batch!RunningOK /\ s3 \in Nat
    BY <1>1 DEF Batch!Inv
  <2>2. ((\E w \in Batch!Urls : s4[w] = "blocked") => s5 # None)' /\ (s5 = None => s9 = {})'
    BY <1>1, <1>3, <2>1 DEF Batch!RunningOK
  <2>3. CASE Batch!Together
    <3>1. Batch!Together' /\ Cardinality(Batch!Running) \in Nat /\ Batch!Running \in SUBSET Batch!Urls
      BY <1>1, <2>1, <2>3, SetOfUrls DEF Batch!Together, Batch!Running
    <3>2. Cardinality(Batch!Running') <= Workers
      <4>1. CASE v = "checked"
        <5>1. Cardinality(Batch!Running) < Workers
          BY <1>1, <2>3, BatchCounts DEF Batch!MayStart, Batch!Together
        <5>2. Cardinality(Batch!Running \cup {u}) = Cardinality(Batch!Running) + 1
          BY <1>3, <2>1, <3>1, OneMoreUrl
        <5>. QED  BY <1>3, <3>1, <4>1, <5>1, <5>2, BatchAssumption
      <4>2. CASE v # "checked"
        BY <1>3, <2>1, <2>3, <4>2, BatchCounts DEF Batch!RunningOK
      <4>. QED  BY <4>1, <4>2
    <3>3. ASSUME s5 # None PROVE Cardinality(s9' \cup Batch!Checked') < Workers
      BY <1>1, <1>2, <1>3, <2>1, <2>3, <3>3, BatchCounts DEF Batch!RunningOK
    <3>. QED  BY <1>1, <2>2, <3>1, <3>2, <3>3, BatchCounts DEF Batch!RunningOK
  <2>4. CASE ~Batch!Together
    <3>1. ~Batch!Together' /\ u = s6
      BY <1>1, <2>4 DEF Batch!Together, Batch!MayStart
    <3>. QED  BY <1>1, <1>2, <1>3, <2>1, <2>2, <2>4, <3>1 DEF Batch!RunningOK
  <2>. QED  BY <2>3, <2>4
<1>5. v \in Batch!States /\ v \in Batch!Pending \cup {"stopped", "not_tried"} /\ s4[u] \in Batch!Pending
  BY <1>1, <1>2 DEF Batch!States, Batch!Pending
<1>6. s5' \in Batch!Urls \cup {None} /\ s9' \subseteq s8' /\ s8' \subseteq Batch!Urls
  BY <1>1 DEF Batch!Inv, Batch!TypeOK
<1>. QED  BY <1>1, <1>4, <1>5, <1>6, FetchMoves

LEMMA DispatchKept == ASSUME Batch!Inv, NEW u \in Batch!Urls, Batch!Dispatch(u) PROVE Batch!Inv'
<1>1. /\ s4[u] = "checked" /\ UNCHANGED <<step, s2, s3, s5, s6, s7>>
      /\ \E v \in {"late", "sent"} : s4' = [s4 EXCEPT ![u] = v]
      /\ s8' \subseteq s8 \cup {u}
      /\ \/ s9' = s9 /\ s8 \subseteq s8'
         \/ s9' = s9 \cup {u} /\ s5 # None /\ s8' = s8 \cup {u}
  BY DEF Batch!Dispatch, Batch!input
<1>2. s2 \notin Batch!AtOnce
  BY <1>1 DEF Batch!Inv, Batch!AtOnceOK
<1>3. PICK v \in {"late", "sent"} : s4' = [s4 EXCEPT ![u] = v]
  BY <1>1
<1>4. /\ Batch!Running' \subseteq Batch!Running /\ Batch!Checked' = Batch!Checked \ {u} /\ u \in Batch!Checked
      /\ (\E w \in Batch!Urls : s4'[w] = "blocked") => \E w \in Batch!Urls : s4[w] = "blocked"
      /\ Batch!Urls' = Batch!Urls
  <2>1. u \in Batch!Running /\ u \in Batch!Checked
    BY <1>1 DEF Batch!Running, Batch!Checked
  <2>2. /\ Batch!Running' = IF v \in {"checked", "sent"} THEN Batch!Running \cup {u} ELSE Batch!Running \ {u}
        /\ Batch!Checked' = IF v = "checked" THEN Batch!Checked \cup {u} ELSE Batch!Checked \ {u}
        /\ \A w \in Batch!Urls \ {u} : s4'[w] = s4[w]
        /\ s4'[u] = v /\ Batch!Urls' = Batch!Urls
    BY <1>1, <1>3, UnderWay
  <2>. QED  BY <2>1, <2>2
<1>5. s5' \in Batch!Urls \cup {None} /\ s9' \subseteq s8' /\ s8' \subseteq Batch!Urls /\ s9 \subseteq Batch!Urls
  BY <1>1 DEF Batch!Inv, Batch!TypeOK
<1>6. Batch!RunningOK'
  <2>1. Batch!RunningOK /\ s3 \in Nat
    BY <1>2 DEF Batch!Inv
  <2>2. ((\E w \in Batch!Urls : s4[w] = "blocked") => s5 # None)' /\ (s5 = None => s9 = {})'
    BY <1>1, <1>4, <2>1 DEF Batch!RunningOK
  <2>3. CASE Batch!Together
    <3>1. Batch!Together'
      BY <1>1, <2>3 DEF Batch!Together
    <3>2. Cardinality(Batch!Running') <= Workers
      <4>1. Batch!Running \subseteq Batch!Urls /\ Cardinality(Batch!Running) <= Workers
        BY <2>1, <2>3, BatchCounts DEF Batch!Running, Batch!RunningOK
      <4>. QED  BY <1>4, <2>1, <4>1, FewerUrls, BatchAssumption
    <3>3. ASSUME s5 # None PROVE Cardinality(s9' \cup Batch!Checked') < Workers
      <4>1. s9 \cup Batch!Checked \subseteq Batch!Urls /\ Cardinality(s9 \cup Batch!Checked) < Workers
        BY <1>5, <2>1, <2>3, <3>3, BatchCounts DEF Batch!Checked, Batch!RunningOK
      <4>2. s9' \cup Batch!Checked' \subseteq s9 \cup Batch!Checked
        BY <1>1, <1>4
      <4>. QED  BY <2>1, <4>1, <4>2, FewerUrls, BatchAssumption
    <3>. QED  BY <1>1, <2>2, <3>1, <3>2, <3>3, BatchCounts DEF Batch!RunningOK
  <2>4. CASE ~Batch!Together
    <3>1. ~Batch!Together' /\ u \in Batch!Running
      BY <1>1, <2>4 DEF Batch!Together, Batch!Running
    <3>2. s5 = None
      BY <2>1, <2>4, <3>1 DEF Batch!RunningOK
    <3>. QED  BY <1>1, <1>4, <2>1, <2>2, <2>4, <3>1, <3>2 DEF Batch!RunningOK
  <2>. QED  BY <2>3, <2>4
<1>7. v \in Batch!States /\ v \in Batch!Pending \cup {"late"} /\ s4[u] \in Batch!Pending
  BY <1>1 DEF Batch!States, Batch!Pending
<1>. QED  BY <1>1, <1>2, <1>3, <1>5, <1>6, <1>7, FetchMoves

LEMMA ReplyKept == ASSUME Batch!Inv, NEW u \in Batch!Urls, Batch!Reply(u) PROVE Batch!Inv'
<1>1. PICK reply \in Batch!Replies :
        /\ s4' = [s4 EXCEPT ![u] = Batch!Caught(reply)]
        /\ s5' = IF Batch!Blocks(reply) /\ s5 = None THEN u ELSE s5
  BY DEF Batch!Reply
<1> DEFINE v == Batch!Caught(reply)
<1>2. s4[u] = "sent" /\ UNCHANGED <<step, s2, s3, s6, s7, s8, s9>>
  BY DEF Batch!Reply, Batch!input
<1>3. /\ v \in Batch!Replies /\ v \in Batch!States \ {"checked", "sent", "queued"}
      /\ v = "blocked" => reply = "blocked"
  BY DEF Batch!Caught, Batch!Replies, Batch!States, Batch!Pending
<1> HIDE DEF v
<1>4. s2 \notin Batch!AtOnce /\ u # None
  BY <1>2, BatchAssumption DEF Batch!Inv, Batch!AtOnceOK, Batch!Urls
<1>5. /\ Batch!Running' = Batch!Running \ {u} /\ Batch!Checked' = Batch!Checked /\ u \in Batch!Running
      /\ (\E w \in Batch!Urls : s4'[w] = "blocked") => v = "blocked" \/ \E w \in Batch!Urls : s4[w] = "blocked"
      /\ Batch!Urls' = Batch!Urls
  <2>1. u \in Batch!Running /\ u \notin Batch!Checked
    BY <1>2 DEF Batch!Running, Batch!Checked
  <2>2. /\ Batch!Running' = IF v \in {"checked", "sent"} THEN Batch!Running \cup {u} ELSE Batch!Running \ {u}
        /\ Batch!Checked' = IF v = "checked" THEN Batch!Checked \cup {u} ELSE Batch!Checked \ {u}
        /\ \A w \in Batch!Urls \ {u} : s4'[w] = s4[w]
        /\ s4'[u] = v /\ Batch!Urls' = Batch!Urls
    BY <1>1, <1>2, UnderWay DEF v
  <2>. QED  BY <1>3, <2>1, <2>2
<1>6. s5' \in Batch!Urls \cup {None} /\ s9' \subseteq s8' /\ s8' \subseteq Batch!Urls /\ (s5 # None => s5' = s5)
  BY <1>1, <1>2 DEF Batch!Inv, Batch!TypeOK
<1>7. Batch!RunningOK'
  <2>1. Batch!RunningOK /\ s3 \in Nat
    BY <1>4 DEF Batch!Inv
  <2>2. ((\E w \in Batch!Urls : s4[w] = "blocked") => s5 # None)' /\ (s5 = None => s9 = {})'
    BY <1>1, <1>2, <1>3, <1>4, <1>5, <1>6, <2>1 DEF Batch!RunningOK, Batch!Blocks
  <2>3. CASE Batch!Together
    <3>1. Batch!Together'
      BY <1>2, <2>3 DEF Batch!Together
    <3>2. /\ Batch!Running \subseteq Batch!Urls /\ Cardinality(Batch!Running) <= Workers
          /\ Cardinality(Batch!Running) \in Nat /\ Cardinality(Batch!Running') \in Nat
          /\ Cardinality(Batch!Running') < Cardinality(Batch!Running)
      <4>1. Batch!Running \subseteq Batch!Urls /\ Cardinality(Batch!Running) <= Workers
        BY <2>1, <2>3, BatchCounts DEF Batch!Running, Batch!RunningOK
      <4>. QED  BY <1>5, <2>1, <4>1, FewerUrls
    <3>3. ASSUME s5' # None PROVE Cardinality(s9' \cup Batch!Checked') < Workers
      <4>1. CASE s5 # None
        BY <1>2, <1>5, <2>1, <2>3, <4>1, BatchCounts DEF Batch!RunningOK
      <4>2. CASE s5 = None
        <5>1. s9' = {} /\ Batch!Checked' \subseteq Batch!Running'
          BY <1>2, <1>5, <2>1, <4>2 DEF Batch!RunningOK, Batch!Checked, Batch!Running
        <5>2. Batch!Running' \subseteq Batch!Urls /\ s9' \cup Batch!Checked' \subseteq Batch!Running'
          BY <1>5, <3>2, <5>1
        <5>. QED  BY <2>1, <3>2, <5>2, FewerUrls, BatchAssumption
      <4>. QED  BY <4>1, <4>2
    <3>. QED  BY <2>2, <3>1, <3>2, <3>3, BatchCounts, BatchAssumption DEF Batch!RunningOK
  <2>4. CASE ~Batch!Together
    <3>1. ~Batch!Together'
      BY <1>2, <2>4 DEF Batch!Together
    <3>. QED  BY <1>2, <1>5, <2>1, <2>2, <2>4, <3>1 DEF Batch!RunningOK
  <2>. QED  BY <2>3, <2>4
<1>8. s4[u] \in Batch!Pending /\ s4' = [s4 EXCEPT ![u] = v]
  BY <1>1, <1>2 DEF Batch!Pending, v
<1>. QED  BY <1>2, <1>3, <1>4, <1>6, <1>7, <1>8, FetchMoves

\* The caller moves on with what it heard of a URL, or of waiting for it.
LEMMA CollectedKept ==
  ASSUME Batch!Inv, s2 \notin Batch!AtOnce, s6 \in Batch!Urls, step = None, NEW says, Batch!Collected(says),
         \/ says = "timed_out" /\ Batch!Together
         \/ says = s4[s6] /\ Batch!Done(s6)
  PROVE  Batch!Inv'
<1> DEFINE e == [url |-> s6, says |-> says]
<1>1. s7' = s7 \cup {e} /\ s6' = s6 + 1 /\ UNCHANGED <<step, s2, s3, s4, s5, s8, s9>>
  BY DEF Batch!Collected, Batch!input
<1>2. s3 \in Nat /\ s4 \in [Batch!Urls -> Batch!States] /\ Batch!TypeOK /\ Batch!ItemsOK /\ Batch!RunningOK
  BY DEF Batch!Inv
<1>3. s6 \in Nat /\ s6 <= s3 /\ s6 >= 1 /\ e.url = s6 /\ e.says = says
  BY <1>2 DEF Batch!Urls
<1>4. Batch!TypeOK'
  BY <1>1, <1>2, <1>3 DEF Batch!TypeOK, Batch!Urls, Batch!Pending, Batch!Replies
<1>5. Batch!ItemsOK'
  <2>1. e \in [url : Batch!Urls, says : Batch!States \cup {"timed_out"}]
    BY <1>2
  <2>2. \A i \in s7 : i.url \in Nat /\ i.url < s6
    BY <1>2 DEF Batch!ItemsOK, Batch!Urls
  <2>3. ASSUME NEW i \in s7' PROVE i.url < s6' /\ (i.says = "timed_out" \/ (Batch!Done(i.url)' /\ i.says = s4'[i.url]))
    <3>1. CASE i = e
      BY <1>1, <1>3, <3>1 DEF Batch!Done, Batch!Pending
    <3>2. CASE i \in s7
      BY <1>1, <1>2, <1>3, <2>2, <3>2 DEF Batch!ItemsOK, Batch!Done, Batch!Pending
    <3>. QED  BY <1>1, <3>1, <3>2
  <2>4. ASSUME NEW i \in s7', NEW j \in s7', i.url = j.url PROVE i = j
    <3> HIDE DEF e
    <3>1. (i = e \/ i \in s7) /\ (j = e \/ j \in s7)
      BY <1>1
    <3>. QED  BY <1>2, <1>3, <2>2, <2>4, <3>1 DEF Batch!ItemsOK
  <2>. QED  BY <1>1, <1>2, <2>1, <2>3, <2>4 DEF Batch!ItemsOK, Batch!Urls, Batch!States, Batch!Pending
<1>6. Batch!RunningOK'
  <2>1. Batch!Running' = Batch!Running /\ Batch!Checked' = Batch!Checked /\ (Batch!Together' <=> Batch!Together) /\ Batch!Urls' = Batch!Urls
    BY <1>1 DEF Batch!Running, Batch!Checked, Batch!Together, Batch!Urls
  <2>2. ((\E w \in Batch!Urls : s4[w] = "blocked") => s5 # None)' /\ (s5 = None => s9 = {})'
    BY <1>1, <1>2, <2>1 DEF Batch!RunningOK
  <2>3. CASE Batch!Together
    BY <1>1, <1>2, <2>1, <2>2, <2>3 DEF Batch!RunningOK
  <2>4. CASE ~Batch!Together
    <3>1. Batch!Running = {}
      BY <1>2, <2>4 DEF Batch!RunningOK, Batch!Running, Batch!Done, Batch!Pending
    <3>. QED  BY <1>1, <1>2, <2>1, <2>2, <2>4, <3>1 DEF Batch!RunningOK
  <2>. QED  BY <2>3, <2>4
<1>7. Batch!PaidPagesKept' /\ Batch!BlockReported'
  BY <1>1 DEF Batch!PaidPagesKept, Batch!BlockReported, Batch!Ended
<1>8. Batch!OneVerdict'
  BY <1>5 DEF Batch!OneVerdict, Batch!ItemsOK
<1>. QED  BY <1>1, <1>2, <1>4, <1>5, <1>6, <1>7, <1>8 DEF Batch!Inv, Batch!AtOnce, Batch!Urls

\* How a batch ends: with its pages if it has any, and with the block if there was one.
LEMMA FinishTrue ==
  ASSUME Batch!Inv, s2 \notin Batch!AtOnce
  PROVE  /\ Batch!Finish # None
         /\ (\E i \in s7 : Batch!Page(i)) => Batch!Finish \in {"pages", "pages_and_blocked"}
         /\ (\E i \in s7 : i.says = "blocked") => Batch!Finish \in {"blocked", "pages_and_blocked"}
<1>1. s3 \in Nat /\ Batch!ItemsOK /\ Batch!RunningOK
  BY DEF Batch!Inv
<1>2. /\ Batch!Handed \in {"pages", "deadline", "urls_failed"} /\ Batch!BatchError \in {"urls_failed", "deadline", "error"}
      /\ (\E i \in s7 : Batch!Page(i)) => Batch!Handed = "pages"
  BY DEF Batch!Handed, Batch!BatchError, Batch!Partial
<1>3. (\E i \in s7 : i.says = "blocked") => s5 # None
  BY <1>1 DEF Batch!ItemsOK, Batch!RunningOK
<1>4. CASE s2 = "linkup" /\ s3 = 1
  <2>1. Batch!Finish = Batch!Single
    BY <1>4 DEF Batch!Finish
  <2>2. Batch!Single \in {"blocked", "error", "deadline", "pages", "urls_failed"}
    BY <1>2 DEF Batch!Single
  <2>3. ASSUME NEW i \in s7 PROVE /\ Batch!Page(i) => Batch!Single = "pages"
                                  /\ i.says = "blocked" => Batch!Single = "blocked"
    <3>1. i.url = 1 /\ \A j \in s7 : j = i
      BY <1>1, <1>4 DEF Batch!ItemsOK, Batch!Urls
    <3>2. Batch!Says(1) = {i.says}
      BY <3>1 DEF Batch!Says
    <3>3. (CHOOSE s \in Batch!Says(1) : TRUE) = i.says
      BY <3>2
    <3>. QED  BY <1>2, <3>3 DEF Batch!Single, Batch!Page
  <2>. QED  BY <2>1, <2>2, <2>3, BatchAssumption
<1>5. CASE ~(s2 = "linkup" /\ s3 = 1) /\ s5 # None
  BY <1>5, BatchAssumption DEF Batch!Finish, Batch!Partial
<1>6. CASE ~(s2 = "linkup" /\ s3 = 1) /\ s5 = None
  <2>1. Batch!Finish = IF Batch!FirstError # None /\ \A i \in s7 : Batch!IsError(i) THEN Batch!BatchError ELSE Batch!Handed
    BY <1>6 DEF Batch!Finish
  <2>2. (\E i \in s7 : Batch!Page(i)) => ~(\A i \in s7 : Batch!IsError(i))
    BY DEF Batch!IsError, Batch!Page
  <2>. QED  BY <1>2, <1>3, <1>6, <2>1, <2>2, BatchAssumption
<1>. QED  BY <1>4, <1>5, <1>6

LEMMA EndKept ==
  ASSUME Batch!Inv, s2 \notin Batch!AtOnce, UNCHANGED <<s2, s3, s4, s5, s6, s7, s8, s9>>,
         step' = "crashed" \/ step' = Batch!Finish
  PROVE  Batch!Inv'
<1>1. Batch!TypeOK' /\ s3' \in Nat /\ s4' \in [Batch!Urls' -> Batch!States]
  BY DEF Batch!Inv, Batch!TypeOK, Batch!Urls, Batch!Pending, Batch!Replies
<1>2. Batch!PaidPagesKept' /\ Batch!BlockReported' /\ Batch!OneVerdict'
  BY FinishTrue DEF Batch!Inv, Batch!PaidPagesKept, Batch!BlockReported, Batch!OneVerdict, Batch!Ended, Batch!Page
<1>3. Batch!ItemsOK'
  BY DEF Batch!Inv, Batch!ItemsOK, Batch!Urls, Batch!Done
<1>4. Batch!RunningOK'
  BY DEF Batch!Inv, Batch!RunningOK, Batch!Urls, Batch!Running, Batch!Checked, Batch!Together
<1>. QED  BY <1>1, <1>2, <1>3, <1>4 DEF Batch!Inv, Batch!AtOnce

LEMMA AtOnceKept == ASSUME Batch!Inv, Batch!Batch PROVE Batch!Inv'
<1>1. /\ s2 \in Batch!AtOnce /\ step = None /\ UNCHANGED <<s2, s3, s4, s5, s6, s9>> /\ s7 = {}
      /\ s9 = {} /\ s5 = None /\ s8 \subseteq Batch!Urls /\ s3 \in Nat /\ s4 \in [Batch!Urls -> Batch!States]
  BY DEF Batch!Batch, Batch!input, Batch!Ended, Batch!Inv, Batch!AtOnceOK, Batch!TypeOK
<1> DEFINE Answered ==
      /\ s8' \subseteq Batch!Urls /\ step' # None
      /\ \A i \in s7' : i.url \in Batch!Urls /\ i.says \in {"page", "blank", "target"}
      /\ (\E i \in s7' : i.says = "page") => step' = "pages"
      /\ s2 = "exa" => \A i, j \in s7' : i.url = j.url => i = j
<1>2. Answered
  <2>1. CASE step' \in {"deadline", "error", "blocked", "crashed"} /\ s7' = s7 /\ s8' \in {s8, Batch!Urls}
    BY <1>1, <2>1, BatchAssumption
  <2>2. ASSUME NEW pages \in SUBSET Batch!Urls, NEW failures \in SUBSET Batch!Urls,
               NEW blanks \in SUBSET (Batch!Urls \ pages), s8' = Batch!Urls,
               s7' = {[url |-> u, says |-> "page"] : u \in pages}
                       \cup {[url |-> u, says |-> "blank"] : u \in blanks}
                       \cup {[url |-> u, says |-> "target"] : u \in Batch!Listed(pages \cup blanks, failures)},
               step' = IF pages # {} THEN "pages" ELSE "urls_failed"
        PROVE  Answered
    <3>1. Batch!Listed(pages \cup blanks, failures) \subseteq failures
      BY DEF Batch!Listed
    <3>2. s2 = "exa" => Batch!Listed(pages \cup blanks, failures) = failures \ (pages \cup blanks)
      BY DEF Batch!Listed
    <3>3. ASSUME NEW i \in s7'
          PROVE  \/ i.says = "page" /\ i.url \in pages /\ i = [url |-> i.url, says |-> "page"]
                 \/ i.says = "blank" /\ i.url \in blanks /\ i = [url |-> i.url, says |-> "blank"]
                 \/ /\ i.says = "target" /\ i.url \in Batch!Listed(pages \cup blanks, failures)
                    /\ i = [url |-> i.url, says |-> "target"]
      BY <2>2
    <3>4. ASSUME s2 = "exa", NEW i \in s7', NEW j \in s7', i.url = j.url PROVE i = j
      BY <3>2, <3>3, <3>4, SMTT(40)
    <3>. QED  BY <2>2, <3>1, <3>3, <3>4, BatchAssumption
  <2> HIDE DEF Answered
  <2>3. \/ step' = "deadline" /\ UNCHANGED <<s7, s8>>
        \/ step' \in {"error", "blocked", "crashed"} /\ s8' = Batch!Urls /\ s7' = s7
        \/ \E pages, failures \in SUBSET Batch!Urls : \E blanks \in SUBSET (Batch!Urls \ pages) :
             /\ s8' = Batch!Urls
             /\ s7' = {[url |-> u, says |-> "page"] : u \in pages}
                        \cup {[url |-> u, says |-> "blank"] : u \in blanks}
                        \cup {[url |-> u, says |-> "target"] : u \in Batch!Listed(pages \cup blanks, failures)}
             /\ step' = IF pages # {} THEN "pages" ELSE "urls_failed"
    BY Zenon DEF Batch!Batch
  <2>. QED  BY <2>1, <2>2, <2>3
<1>3. Batch!TypeOK'
  BY <1>1, <1>2 DEF Batch!Inv, Batch!TypeOK, Batch!Urls, Batch!Pending, Batch!Replies
<1>4. Batch!AtOnceOK'
  BY <1>1, <1>2 DEF Batch!Inv, Batch!AtOnceOK, Batch!Urls
<1>5. Batch!PaidPagesKept' /\ Batch!BlockReported' /\ Batch!OneVerdict'
  BY <1>1, <1>2 DEF Batch!PaidPagesKept, Batch!BlockReported, Batch!OneVerdict, Batch!Page
<1>. QED  BY <1>1, <1>3, <1>4, <1>5 DEF Batch!Inv, Batch!Urls

LEMMA BatchKept == Batch!Inv /\ Batch!Next => Batch!Inv'
<1> SUFFICES ASSUME Batch!Inv, Batch!Next PROVE Batch!Inv'
  OBVIOUS
<1>1. CASE Batch!Tick
  BY <1>1, BatchStill DEF Batch!Tick, Batch!input
<1>2. ASSUME NEW u \in Batch!Urls, Batch!Thread(u) PROVE Batch!Inv'
  BY <1>2, StartKept, DispatchKept, ReplyKept DEF Batch!Thread
<1>3. CASE Batch!Batch
  BY <1>3, AtOnceKept
<1>4. s2 \in Batch!AtOnce => \A u \in Batch!Urls : ~Batch!Done(u) /\ s4[u] # "garbled"
  BY DEF Batch!Inv, Batch!AtOnceOK, Batch!Done, Batch!Pending
<1>5. CASE Batch!Collect
  BY <1>4, <1>5, CollectedKept DEF Batch!Collect, Batch!Ended
<1>6. CASE Batch!GiveUp
  <2>1. s2 \notin Batch!AtOnce /\ Batch!Together
    BY <1>6 DEF Batch!GiveUp, Batch!Overdue, Batch!AtOnce, Batch!Together
  <2>. QED  BY <1>6, <2>1, CollectedKept DEF Batch!GiveUp, Batch!Ended
<1>7. CASE Batch!Crash
  BY <1>4, <1>7, EndKept DEF Batch!Crash, Batch!input
<1>8. CASE Batch!End
  BY <1>8, EndKept DEF Batch!End, Batch!input
<1>. QED  BY <1>1, <1>2, <1>3, <1>5, <1>6, <1>7, <1>8 DEF Batch!Next, Batch!Collector

LEMMA BatchTrueOf == Batch!Inv => Batch!FewAfterBlock
<1> SUFFICES ASSUME Batch!Inv PROVE Batch!Cardinality(s9) < Workers
  BY DEF Batch!FewAfterBlock
<1>1. CASE s9 = {}
  BY <1>1, BatchCounts, FS_EmptySet, BatchAssumption
<1>2. CASE s9 # {}
  <2>1. s2 \notin Batch!AtOnce /\ s3 \in Nat /\ s9 \subseteq Batch!Urls /\ Batch!RunningOK
    BY <1>2 DEF Batch!Inv, Batch!AtOnceOK, Batch!TypeOK
  <2>2. Cardinality(s9 \cup Batch!Checked) < Workers
    BY <1>2, <2>1, BatchCounts DEF Batch!RunningOK
  <2>. QED  BY <2>1, <2>2, FewerUrls, BatchCounts, BatchAssumption DEF Batch!Checked
<1>. QED  BY <1>1, <1>2

-----------------------------------------------------------------------------
(***************************************************************************)
(* DonsetchSession                                                         *)
(***************************************************************************)
LEMMA SessionStarts == Session!Init => Session!Inv
<1> SUFFICES ASSUME Session!Init PROVE Session!Inv
  OBVIOUS
<1> USE SessionAssumption DEF Session!Init
<1>1. Session!TypeOK
  <2>1. \A S : <<>> \in Seq(S)
    OBVIOUS
  <2>2. /\ s7 \in Seq(Session!Item) /\ s10 \in Seq([id : Nat, url : Nat]) /\ s11 \in Seq(Session!Message)
        /\ s12 \in Seq(Session!Message \cup {Session!EndOfStream})
    BY <2>1
  <2>3. s6 \in 1..(NumUrls + 1) /\ s5 \in Nat \ {0} /\ clock \in Nat /\ s4 \in Nat
    OBVIOUS
  <2>4. step \in Session!Steps /\ s9 = "none" /\ s13 = FALSE /\ s8 = None
    BY DEF Session!Steps
  <2>. QED  BY <2>2, <2>3, <2>4 DEF Session!TypeOK
<1>2. Session!PagesBelong /\ Session!PagesSurvive
  BY DEF Session!PagesBelong, Session!PagesSurvive
<1>3. Session!Progress /\ Session!LinesOK /\ Session!ChildOK
  BY DEF Session!Progress, Session!Closing, Session!LinesOK, Session!ChildOK
<1>. QED  BY <1>1, <1>2, <1>3 DEF Session!Inv

LEMMA SessionTypes ==
  ASSUME Session!Inv
  PROVE  /\ clock \in Nat /\ step \in Session!Steps /\ s1 \in {"search", "extract"} /\ s2 \in Nat
         /\ s3 \in Nat /\ s4 \in Nat /\ s5 \in Nat \ {0} /\ s6 \in 1..(NumUrls + 1)
         /\ s7 \in Seq(Session!Item) /\ s8 \in Session!Codes \cup {None}
         /\ s9 \in {"none", "alive", "dying", "killed", "dead"} /\ s13 \in BOOLEAN
         /\ s10 \in Seq([id : Nat, url : Nat]) /\ s11 \in Seq(Session!Message)
         /\ s12 \in Seq(Session!Message \cup {Session!EndOfStream})
         /\ s14 \subseteq [id : Nat, url : Nat]
         /\ NumUrls \in Nat \ {0} /\ None \notin Session!Codes \cup {"not_tried", "fetch_failed"}
BY SessionAssumption DEF Session!Inv, Session!TypeOK

LEMMA EntriesOf == \A S : \A q \in Seq(S) : \A i \in DOMAIN q : q[i] \in S
OBVIOUS

LEMMA LinesTyped ==
  ASSUME Session!Inv
  PROVE  /\ \A i \in DOMAIN s10 : s10[i] \in [id : Nat, url : Nat]
         /\ \A i \in DOMAIN s11 : s11[i] \in Session!Message
         /\ \A i \in DOMAIN s12 : s12[i] \in Session!Message \cup {Session!EndOfStream}
BY SessionTypes, EntriesOf

\* What is true of a line in the next state.
SaidNext(id, url) == id < s5' /\ (step' = "calling" /\ id = s5' - 1 => url = s6')

LEMMA LinesNext ==
  ASSUME \A i \in DOMAIN s10' : SaidNext(s10'[i].id, s10'[i].url),
         \A i \in DOMAIN s11' : SaidNext(s11'[i].id, s11'[i].about),
         \A i \in DOMAIN s12' : SaidNext(s12'[i].id, s12'[i].about),
         \A a \in s14' : SaidNext(a.id, a.url)
  PROVE  Session!LinesOK'
BY DEF SaidNext, Session!LinesOK, Session!About, Session!Awaited

\* What was said of a call stays true of it, when another call is made too.
LEMMA LinesSaid ==
  ASSUME Session!Inv, s5' \in {s5, s5 + 1},
         step' = "calling" /\ s5' = s5 => step = "calling" /\ s6' = s6
  PROVE  /\ \A i \in DOMAIN s10 : SaidNext(s10[i].id, s10[i].url)
         /\ \A i \in DOMAIN s11 : SaidNext(s11[i].id, s11[i].about)
         /\ \A i \in DOMAIN s12 : SaidNext(s12[i].id, s12[i].about)
         /\ \A a \in s14 : SaidNext(a.id, a.url)
<1>1. ASSUME NEW id \in Nat, NEW url, Session!About(id, url) PROVE SaidNext(id, url)
  BY <1>1, SessionTypes, SMTT(40) DEF SaidNext, Session!About, Session!Awaited
<1>2. Session!LinesOK
  BY DEF Session!Inv
<1>3. \A i \in DOMAIN s10 : s10[i].id \in Nat
  BY LinesTyped
<1>4. \A i \in DOMAIN s11 : s11[i].id \in Nat
  BY LinesTyped DEF Session!Message
<1>5. \A i \in DOMAIN s12 : s12[i].id \in Nat
  BY LinesTyped DEF Session!Message, Session!EndOfStream
<1>6. \A a \in s14 : a.id \in Nat
  BY SessionTypes
<1>. QED
  BY <1>1, <1>2, <1>3, <1>4, <1>5, <1>6 DEF Session!LinesOK

\* The steps that leave the items alone.
LEMMA TalkKept ==
  ASSUME Session!Inv, UNCHANGED <<s1, s3, s6, s7>>, s5' \in {s5, s5 + 1},
         clock' \in Nat, s2' \in Nat, s4' \in Nat, s13' \in BOOLEAN,
         step' \in Session!Steps, s8' \in Session!Codes \cup {None},
         s9' \in {"none", "alive", "dying", "killed", "dead"},
         s10' \in Seq([id : Nat, url : Nat]), s11' \in Seq(Session!Message),
         s12' \in Seq(Session!Message \cup {Session!EndOfStream}), s14' \subseteq [id : Nat, url : Nat],
         step' \in Session!Opening => step \in Session!Opening,
         step' = "calling" => step = "calling" \/ (s6 \in Session!Targets /\ s5' > 1),
         step' \in Session!Closing => s8' # None \/ s6 \notin Session!Targets,
         s8' # None => step' \in Session!Closing /\ (s8 # None \/ Session!Pages = {} \/ s1 # "extract"),
         Session!LinesOK', Session!ChildOK'
  PROVE  Session!Inv'
<1>1. Session!TypeOK'
  <2>1. s5 \in Nat \ {0} /\ s6 \in 1..(NumUrls + 1) /\ s7 \in Seq(Session!Item)
    BY SessionTypes
  <2>2. s5' \in Nat \ {0}
    BY <2>1
  <2>3. s6' \in 1..(NumUrls + 1) /\ s7' \in Seq(Session!Item)
    BY <2>1
  <2>. QED  BY <2>2, <2>3 DEF Session!TypeOK
<1>2. Session!PagesBelong' /\ Session!PagesSurvive'
  BY DEF Session!Inv, Session!PagesBelong, Session!PagesSurvive, Session!Pages
<1>3. Session!Progress'
  <2>1. s5 > 1 => s5' > 1
    BY SessionTypes, SMTT(40)
  <2>2. Session!Progress
    BY DEF Session!Inv
  <2>3. step' = "calling" => s6 \in Session!Targets /\ s5' > 1
    BY <2>1, <2>2 DEF Session!Progress
  <2>. QED  BY <2>2, <2>3 DEF Session!Progress, Session!Targets
<1>. QED  BY <1>1, <1>2, <1>3, SessionTypes DEF Session!Inv

\* Those that touch no stream either.
LEMMA QuietKept ==
  ASSUME Session!Inv, UNCHANGED <<s1, s3, s5, s6, s7, s10, s11, s12, s14>>,
         clock' \in Nat, s2' \in Nat, s4' \in Nat, s13' \in BOOLEAN,
         step' \in Session!Steps, s8' \in Session!Codes \cup {None},
         s9' \in {"none", "alive", "dying", "killed", "dead"},
         step' \in Session!Opening => step \in Session!Opening,
         step' = "calling" => step = "calling",
         step' \in Session!Closing => s8' # None \/ s6 \notin Session!Targets,
         s8' # None => step' \in Session!Closing /\ (s8 # None \/ Session!Pages = {} \/ s1 # "extract"),
         Session!ChildOK'
  PROVE  Session!Inv'
<1>1. Session!LinesOK'
  BY LinesSaid, LinesNext
<1>. QED  BY <1>1, TalkKept, SessionTypes


LEMMA NoPageYet == Session!Inv /\ step \in Session!Opening => Session!Pages = {}
<1> SUFFICES ASSUME Session!Inv, step \in Session!Opening PROVE DOMAIN s7 = {}
  BY DEF Session!Pages
<1>1. Len(s7) = 0
  BY DEF Session!Inv, Session!Progress
<1>. QED  BY <1>1, SessionTypes

LEMMA BeginKept == ASSUME Session!Inv, Session!Begin PROVE Session!Inv'
<1>1. s2' \in Nat
  BY SessionTypes DEF Session!Begin, Session!DeadlinePassed, Session!request
<1>2. step \in Session!Opening /\ step' \in {"over", "spawn"} /\ (step' = "over" <=> s8' # None)
  BY SessionTypes DEF Session!Begin, Session!Opening, Session!Codes, Session!Inv, Session!Progress, Session!Closing
<1>3. Session!ChildOK'
  BY <1>2 DEF Session!Begin, Session!process, Session!Inv, Session!ChildOK
<1>4. s8' \in Session!Codes \cup {None} /\ step' \in Session!Steps
  BY <1>2, SessionTypes DEF Session!Begin, Session!Codes, Session!Steps
<1>. QED
  BY <1>1, <1>2, <1>3, <1>4, QuietKept, NoPageYet, SessionTypes
     DEF Session!Begin, Session!process, Session!Opening, Session!Closing

LEMMA SpawnKept == ASSUME Session!Inv, Session!Spawn PROVE Session!Inv'
<1>1. step \in Session!Opening /\ s8 = None /\ s9 = "none"
  BY DEF Session!Spawn, Session!Opening, Session!Inv, Session!Progress, Session!Closing, Session!ChildOK
<1>2. /\ \/ step' = "initialize" /\ s8' = None /\ s9' = "alive" /\ s13' = TRUE
         \/ step' = "close" /\ s8' \in Session!Codes /\ s9' = s9 /\ s13' = s13
      /\ s4' \in Nat
  BY <1>1, SessionTypes DEF Session!Spawn, Session!Raise, Session!Codes
<1>3. Session!ChildOK'
  BY <1>1, <1>2 DEF Session!ChildOK
<1>4. step' \in Session!Steps
  BY <1>2 DEF Session!Steps
<1>. QED
  BY <1>1, <1>2, <1>3, <1>4, QuietKept, NoPageYet, SessionTypes
     DEF Session!Spawn, Session!request, Session!Opening, Session!Closing

LEMMA InitializeFailsKept == ASSUME Session!Inv, Session!InitializeFails PROVE Session!Inv'
<1>1. /\ step \in Session!Opening /\ step' = "close" /\ s8' \in Session!Codes
      /\ UNCHANGED <<clock, s1, s2, s3, s4, s5, s6, s7, s9, s10, s11, s12, s13, s14>>
  BY DEF Session!InitializeFails, Session!Raise, Session!Codes, Session!Opening, Session!request, Session!process
<1>2. Session!ChildOK'
  BY <1>1 DEF Session!InitializeFails, Session!Inv, Session!ChildOK
<1>. QED
  BY <1>1, <1>2, QuietKept, NoPageYet, SessionTypes DEF Session!Opening, Session!Closing, Session!Steps

\* The steps that end a request move nothing but "pc" and the child.
LEMMA EndingKept ==
  ASSUME Session!Inv,
         Session!Finish \/ Session!Terminate \/ Session!Reap \/ Session!Kill \/ Session!GiveUpWaiting \/ Session!Drain
  PROVE  Session!Inv'
<1>1. UNCHANGED <<clock, s1, s2, s3, s4, s5, s6, s7, s8, s10, s11, s12, s13, s14>>
  BY DEF Session!Finish, Session!Terminate, Session!Reap, Session!Kill, Session!GiveUpWaiting, Session!Drain,
         Session!request, Session!process
<1>2. step' \in Session!Closing /\ (step \in Session!Closing \/ s6 \notin Session!Targets)
  BY DEF Session!Finish, Session!Terminate, Session!Reap, Session!Kill, Session!GiveUpWaiting, Session!Drain,
         Session!Closing
<1>3. Session!ChildOK' /\ s9' \in {"none", "alive", "dying", "killed", "dead"}
  BY SessionTypes
     DEF Session!Finish, Session!Terminate, Session!Reap, Session!Kill, Session!GiveUpWaiting, Session!Drain,
         Session!Killed, Session!process, Session!Inv, Session!ChildOK
<1>4. step' \in Session!Closing => s8' # None \/ s6 \notin Session!Targets
  BY <1>1, <1>2 DEF Session!Inv, Session!Progress
<1>. QED
  BY <1>1, <1>2, <1>3, <1>4, QuietKept, SessionTypes DEF Session!Opening, Session!Closing, Session!Steps

LEMMA ElsewhereKept == ASSUME Session!Inv, Session!ChildDies \/ Session!Tick PROVE Session!Inv'
<1>1. /\ UNCHANGED <<step, s1, s2, s3, s4, s5, s6, s7, s8, s10, s11, s12, s13, s14>> /\ clock' \in Nat
      /\ s9' = s9 \/ (s9 \in {"alive", "dying", "killed"} /\ s9' = "dead")
  BY SessionTypes DEF Session!ChildDies, Session!Tick, Session!request, Session!process
<1>2. Session!ChildOK'
  BY <1>1 DEF Session!Inv, Session!ChildOK
<1>3. step \in Session!Closing => s8 # None \/ s6 \notin Session!Targets
  BY DEF Session!Inv, Session!Progress
<1>4. s8 # None => step \in Session!Closing
  BY DEF Session!Inv, Session!Progress
<1>. QED  BY <1>1, <1>2, <1>3, <1>4, QuietKept, SessionTypes

LEMMA OneMore ==
  ASSUME NEW S, NEW q \in Seq(S), NEW x \in S
  PROVE  /\ Append(q, x) \in Seq(S)
         /\ \A i \in DOMAIN Append(q, x) : Append(q, x)[i] = x \/ (i \in DOMAIN q /\ Append(q, x)[i] = q[i])
OBVIOUS

LEMMA OneFewer ==
  ASSUME NEW S, NEW q \in Seq(S), q # <<>>
  PROVE  /\ Tail(q) \in Seq(S) /\ Head(q) = q[1] /\ 1 \in DOMAIN q
         /\ \A i \in DOMAIN Tail(q) : i + 1 \in DOMAIN q /\ Tail(q)[i] = q[i + 1]
OBVIOUS

\* A step of the caller's before the first call.
LEMMA WriteKept ==
  ASSUME Session!Inv, Session!Initialize \/ Session!Notify
  PROVE  Session!Inv'
<1> DEFINE message == [id |-> IF step = "initialize" THEN s5 ELSE 0, url |-> 0]
<1>1. /\ UNCHANGED <<clock, s1, s2, s3, s4, s6, s7, s9, s11, s12, s13, s14>>
      /\ step \in {"initialize", "initialized"} /\ s5' = IF step = "initialize" THEN s5 + 1 ELSE s5
      /\ \/ step' \in {"initializing", "next"} /\ s8' = s8 /\ s10' = Append(s10, message)
            /\ (step' = "initializing" => step = "initialize")
         \/ step' = "close" /\ s8' \in Session!Codes /\ s10' = s10
  BY DEF Session!Initialize, Session!Notify, Session!Write, Session!Raise, Session!Codes, Session!request
<1>2. message \in [id : Nat, url : Nat] /\ message.id < s5' /\ s5' \in {s5, s5 + 1}
  BY <1>1, SessionTypes
<1> HIDE DEF message
<1>3. s10' \in Seq([id : Nat, url : Nat]) /\ \A i \in DOMAIN s10' : s10'[i] = message \/ (i \in DOMAIN s10 /\ s10'[i] = s10[i])
  <2>1. CASE s10' = s10
    BY <2>1, SessionTypes
  <2>2. CASE s10' = Append(s10, message)
    <3> DEFINE Asks == [id : Nat, url : Nat]
    <3>1. s10 \in Seq(Asks) /\ message \in Asks
      BY <1>2, SessionTypes
    <3> HIDE DEF Asks
    <3>2. /\ Append(s10, message) \in Seq(Asks)
          /\ \A i \in DOMAIN Append(s10, message) :
               Append(s10, message)[i] = message \/ (i \in DOMAIN s10 /\ Append(s10, message)[i] = s10[i])
      BY <3>1, OneMore
    <3>. QED  BY <2>2, <3>2 DEF Asks
  <2>. QED  BY <2>1, <2>2, <1>1
<1>4. step' # "calling" /\ SaidNext(message.id, message.url)
  BY <1>1, <1>2 DEF SaidNext
<1>5. Session!LinesOK'
  BY <1>1, <1>2, <1>3, <1>4, LinesSaid, LinesNext
<1>6. Session!ChildOK'
  BY <1>1 DEF Session!Inv, Session!ChildOK
<1>7. step \in Session!Opening /\ Session!Pages = {} /\ s8 = None /\ step' \in Session!Steps
  BY <1>1, NoPageYet DEF Session!Opening, Session!Inv, Session!Progress, Session!Closing, Session!Steps
<1>8. s8' # None <=> step' = "close"
  BY <1>1, <1>7, SessionTypes
<1>. QED
  BY <1>1, <1>2, <1>3, <1>5, <1>6, <1>7, <1>8, TalkKept, SessionTypes DEF Session!Opening, Session!Closing

\* A line is taken off the queue, and what "initialize" makes of its answer.
LEMMA TakeKept ==
  ASSUME Session!Inv, Session!Skip \/ Session!Initialized
  PROVE  Session!Inv'
<1>1. /\ UNCHANGED <<clock, s1, s2, s3, s4, s5, s6, s7, s9, s10, s11, s13, s14>>
      /\ s12 # <<>> /\ s12' = Tail(s12)
      /\ \/ step \in {"initializing", "calling"} /\ step' = step /\ s8' = s8
         \/ step = "initializing" /\ step' = "close" /\ s8' \in Session!Codes
         \/ step = "initializing" /\ step' = "initialized" /\ s8' = s8
  BY DEF Session!Skip, Session!Initialized, Session!Got, Session!Raise, Session!Codes, Session!request, Session!process
<1>2. /\ s12' \in Seq(Session!Message \cup {Session!EndOfStream})
      /\ \A i \in DOMAIN s12' : \E j \in DOMAIN s12 : s12'[i] = s12[j]
  BY <1>1, OneFewer, SessionTypes, SMTT(40)
<1>3. Session!LinesOK'
  BY <1>1, <1>2, LinesSaid, LinesNext
<1>4. Session!ChildOK'
  BY <1>1 DEF Session!Inv, Session!ChildOK
<1>5. step = "initializing" => step \in Session!Opening /\ Session!Pages = {}
  BY NoPageYet DEF Session!Opening
<1>6. s8 = None
  BY <1>1 DEF Session!Inv, Session!Progress, Session!Closing
<1>. QED
  BY <1>1, <1>2, <1>3, <1>4, <1>5, <1>6, TalkKept, SessionTypes
     DEF Session!Opening, Session!Closing, Session!Steps

\* What a step elsewhere, which moves lines only, leaves as it was.
LEMMA CarryKept ==
  ASSUME Session!Inv, UNCHANGED <<clock, step, s1, s2, s3, s4, s5, s6, s7, s8, s9>>, s13' \in BOOLEAN,
         s10' \in Seq([id : Nat, url : Nat]), s11' \in Seq(Session!Message),
         s12' \in Seq(Session!Message \cup {Session!EndOfStream}), s14' \subseteq [id : Nat, url : Nat],
         Session!LinesOK'
  PROVE  Session!Inv'
<1>1. Session!ChildOK'
  BY DEF Session!Inv, Session!ChildOK
<1>2. step \in Session!Closing => s8 # None \/ s6 \notin Session!Targets
  BY DEF Session!Inv, Session!Progress
<1>3. s8 # None => step \in Session!Closing
  BY DEF Session!Inv, Session!Progress
<1>. QED  BY <1>1, <1>2, <1>3, TalkKept, SessionTypes

LEMMA SessionReplyKept == ASSUME Session!Inv, Session!Reply PROVE Session!Inv'
<1>1. /\ s10 # <<>> /\ s10' = Tail(s10)
      /\ UNCHANGED <<clock, step, s1, s2, s3, s4, s5, s6, s7, s8, s9, s12, s13>>
  BY DEF Session!Reply, Session!request
<1>2. /\ s10' \in Seq([id : Nat, url : Nat]) /\ Head(s10) = s10[1] /\ 1 \in DOMAIN s10
      /\ \A i \in DOMAIN s10' : \E j \in DOMAIN s10 : s10'[i] = s10[j]
  BY <1>1, OneFewer, SessionTypes
<1>3. PICK asked \in [id : Nat, url : Nat] : asked = s10[1]
  BY <1>2, LinesTyped
<1>4. SaidNext(asked.id, asked.url)
  BY <1>1, <1>2, <1>3, LinesSaid
<1>5. /\ s11' \in Seq(Session!Message)
      /\ \A i \in DOMAIN s11' : \/ s11'[i].id = asked.id /\ s11'[i].about = asked.url
                                \/ i \in DOMAIN s11 /\ s11'[i] = s11[i]
  <2>1. CASE s11' = s11
    BY <2>1, SessionTypes
  <2>2. ASSUME NEW kind \in Session!Kinds,
               s11' = Append(s11, [id |-> asked.id, kind |-> kind, about |-> asked.url])
        PROVE  <1>5!1 /\ <1>5!2
    <3>1. [id |-> asked.id, kind |-> kind, about |-> asked.url] \in Session!Message
      BY DEF Session!Message
    <3>. QED  BY <2>2, <3>1, OneMore, SessionTypes, SMTT(40)
  <2>3. s11' = s11 \/ \E kind \in Session!Kinds : s11' = Append(s11, [id |-> asked.id, kind |-> kind, about |-> asked.url])
    BY <1>2, <1>3 DEF Session!Reply
  <2>. QED  BY <2>1, <2>2, <2>3
<1>6. s14' = s14 \/ s14' = s14 \cup {[id |-> asked.id, url |-> asked.url]}
  BY <1>2, <1>3 DEF Session!Reply
<1>7. s14' \subseteq [id : Nat, url : Nat]
  BY <1>6, SessionTypes
<1>8. Session!LinesOK'
  BY <1>1, <1>2, <1>4, <1>5, <1>6, LinesSaid, LinesNext
<1>. QED  BY <1>1, <1>2, <1>5, <1>7, <1>8, CarryKept, SessionTypes

LEMMA ChatterKept == ASSUME Session!Inv, Session!Chatter PROVE Session!Inv'
<1>1. UNCHANGED <<clock, step, s1, s2, s3, s4, s5, s6, s7, s8, s9, s10, s12, s13, s14>>
  BY DEF Session!Chatter, Session!request
<1>2. PICK m \in Session!Message :
        s11' = Append(s11, m) /\ SaidNext(m.id, m.about)
  <2>1. CASE s11' = Append(s11, [id |-> 0, kind |-> "noise", about |-> 0])
    <3>1. [id |-> 0, kind |-> "noise", about |-> 0] \in Session!Message
      BY DEF Session!Message, Session!Kinds
    <3>2. SaidNext(0, 0)
      BY <1>1, SessionTypes DEF SaidNext, Session!Inv, Session!Progress
    <3>. QED  BY <2>1, <3>1, <3>2
  <2>2. ASSUME NEW a \in s14, s11' = Append(s11, [id |-> a.id, kind |-> "page", about |-> a.url])
        PROVE  \E m \in Session!Message : s11' = Append(s11, m) /\ SaidNext(m.id, m.about)
    <3>1. [id |-> a.id, kind |-> "page", about |-> a.url] \in Session!Message
      BY SessionTypes DEF Session!Message, Session!Kinds
    <3>2. SaidNext(a.id, a.url)
      BY <1>1, LinesSaid
    <3>. QED  BY <2>2, <3>1, <3>2
  <2>. QED  BY <2>1, <2>2 DEF Session!Chatter
<1>3. /\ s11' \in Seq(Session!Message)
      /\ \A i \in DOMAIN s11' : s11'[i] = m \/ (i \in DOMAIN s11 /\ s11'[i] = s11[i])
  BY <1>2, OneMore, SessionTypes, SMTT(40)
<1>4. Session!LinesOK'
  BY <1>1, <1>2, <1>3, LinesSaid, LinesNext
<1>. QED  BY <1>1, <1>3, <1>4, CarryKept, SessionTypes

LEMMA ReadKept == ASSUME Session!Inv, Session!ReadLine \/ Session!ReadEnd PROVE Session!Inv'
<1>1. UNCHANGED <<clock, step, s1, s2, s3, s4, s5, s6, s7, s8, s9, s10, s14>> /\ s13' \in BOOLEAN
  BY SessionTypes DEF Session!ReadLine, Session!ReadEnd, Session!request, Session!process
<1>2. PICK m \in Session!Message \cup {Session!EndOfStream} : s12' = Append(s12, m) /\ SaidNext(m.id, m.about)
  <2>1. CASE Session!ReadLine
    <3>1. s11 # <<>> /\ s12' = Append(s12, Head(s11))
      BY <2>1 DEF Session!ReadLine
    <3>2. Head(s11) = s11[1] /\ 1 \in DOMAIN s11
      BY <3>1, OneFewer, SessionTypes
    <3>. QED  BY <1>1, <3>1, <3>2, LinesSaid, LinesTyped
  <2>2. CASE Session!ReadEnd
    <3>1. SaidNext(Session!EndOfStream.id, Session!EndOfStream.about)
      BY <1>1, SessionTypes DEF SaidNext, Session!Inv, Session!Progress, Session!EndOfStream
    <3>. QED  BY <2>2, <3>1 DEF Session!ReadEnd
  <2>. QED  BY <2>1, <2>2
<1> DEFINE Lines == Session!Message \cup {Session!EndOfStream}
<1>3. /\ s12' \in Seq(Session!Message \cup {Session!EndOfStream})
      /\ \A i \in DOMAIN s12' : s12'[i] = m \/ (i \in DOMAIN s12 /\ s12'[i] = s12[i])
  <2>1. s12 \in Seq(Lines) /\ m \in Lines
    BY SessionTypes
  <2> HIDE DEF Lines
  <2>2. /\ Append(s12, m) \in Seq(Lines)
        /\ \A i \in DOMAIN Append(s12, m) :
             Append(s12, m)[i] = m \/ (i \in DOMAIN s12 /\ Append(s12, m)[i] = s12[i])
    BY <2>1, OneMore
  <2>. QED  BY <1>2, <2>2 DEF Lines
<1>4. s11' \in Seq(Session!Message) /\ \A i \in DOMAIN s11' : \E j \in DOMAIN s11 : s11'[i] = s11[j]
  <2>1. CASE Session!ReadLine
    <3>1. s11 # <<>> /\ s11' = Tail(s11)
      BY <2>1 DEF Session!ReadLine
    <3>. QED  BY <3>1, OneFewer, SessionTypes, SMTT(40)
  <2>2. CASE Session!ReadEnd
    BY <2>2, SessionTypes DEF Session!ReadEnd, Session!process
  <2>. QED  BY <2>1, <2>2
<1>5. Session!LinesOK'
  BY <1>1, <1>2, <1>3, <1>4, LinesSaid, LinesNext
<1>. QED  BY <1>1, <1>3, <1>4, <1>5, CarryKept, SessionTypes

\* The queue of lines, when one was taken off it or none.
LEMMA QueueKept ==
  ASSUME Session!Inv, s12' = s12 \/ (s12 # <<>> /\ s12' = Tail(s12)), UNCHANGED <<s10, s11, s14>>,
         s5' \in {s5, s5 + 1}, step' # "calling"
  PROVE  Session!LinesOK' /\ s12' \in Seq(Session!Message \cup {Session!EndOfStream})
<1>1. /\ s12' \in Seq(Session!Message \cup {Session!EndOfStream})
      /\ \A i \in DOMAIN s12' : \E j \in DOMAIN s12 : s12'[i] = s12[j]
  <2>1. CASE s12' = s12
    BY <2>1, SessionTypes
  <2>2. CASE s12 # <<>> /\ s12' = Tail(s12)
    BY <2>2, OneFewer, SessionTypes, SMTT(40)
  <2>. QED  BY <2>1, <2>2
<1>2. Session!LinesOK'
  BY <1>1, LinesSaid, LinesNext
<1>. QED  BY <1>1, <1>2

\* What all results of the calls have in common.
LEMMA UnderSession ==
  ASSUME Session!Inv, step \in {"next", "calling"}, s6 \in Session!Targets
  PROVE  /\ s8 = None /\ s9 \in {"alive", "dead"} /\ s6 \in 1..NumUrls /\ s6 \in Nat
         /\ Len(s7) = s6 - 1 /\ \A i \in DOMAIN s7 : s7[i].url = i
BY SessionTypes
   DEF Session!Inv, Session!Progress, Session!Closing, Session!ChildOK, Session!Targets, Session!Urls

\* One more item, for the URL it is at.
LEMMA CollectKept ==
  ASSUME Session!Inv, step \in {"next", "calling"}, s6 \in Session!Targets,
         NEW e \in Session!Item, e.url = s6, e.error = None /\ s1 = "extract" => e.page = s6,
         s7' = Append(s7, e), s6' = s6 + 1, step' = "next",
         UNCHANGED <<clock, s1, s2, s3, s4, s5, s8, s9, s10, s11, s13, s14>>,
         s12' = s12 \/ (s12 # <<>> /\ s12' = Tail(s12))
  PROVE  Session!Inv'
<1>1. /\ s7' \in Seq(Session!Item) /\ Len(s7') = s6
      /\ \A i \in DOMAIN s7' : (i = s6 /\ s7'[i] = e) \/ (i \in DOMAIN s7 /\ s7'[i] = s7[i])
  <2>1. s7 \in Seq(Session!Item) /\ Len(s7) = s6 - 1 /\ s6 \in Nat
    BY UnderSession, SessionTypes
  <2>. QED  BY <2>1
<1>2. Session!LinesOK' /\ s12' \in Seq(Session!Message \cup {Session!EndOfStream})
  BY QueueKept, SessionTypes
<1>3. s6' \in 1..(NumUrls + 1)
  <2>1. s6 \in 1..NumUrls /\ NumUrls \in Nat
    BY UnderSession, SessionTypes
  <2>2. s6' = s6 + 1
    OBVIOUS
  <2>. QED  BY ONLY <2>1, <2>2
<1>4. Session!TypeOK'
  BY <1>1, <1>2, <1>3, SessionTypes DEF Session!TypeOK, Session!Steps
<1>5. Session!PagesBelong'
  BY <1>1 DEF Session!Inv, Session!PagesBelong
<1>6. Session!PagesSurvive'
  BY UnderSession DEF Session!PagesSurvive
<1>7. Session!Progress'
  BY <1>1, UnderSession DEF Session!Progress, Session!Opening, Session!Closing
<1>8. Session!ChildOK'
  BY UnderSession DEF Session!ChildOK
<1>. QED  BY <1>2, <1>4, <1>5, <1>6, <1>7, <1>8, SessionTypes DEF Session!Inv

\* A failed call: an error without a page, else an item for every URL that is left.
LEMMA CallFailsKept ==
  ASSUME Session!Inv, step \in {"next", "calling"}, s6 \in Session!Targets,
         NEW why \in Session!Codes, NEW others \in {"not_tried", "deadline"},
         Session!CallFails(why, others), s5' \in {s5, s5 + 1},
         UNCHANGED <<clock, s1, s2, s3, s4, s9, s10, s11, s13, s14>>,
         s12' = s12 \/ (s12 # <<>> /\ s12' = Tail(s12))
  PROVE  Session!Inv'
<1>1. step' = "close"
  BY DEF Session!CallFails, Session!Raise
<1>2. Session!LinesOK' /\ s12' \in Seq(Session!Message \cup {Session!EndOfStream})
  BY <1>1, QueueKept, SessionTypes
<1>3. Session!ChildOK'
  BY <1>1, UnderSession DEF Session!ChildOK
<1>4. step' \in Session!Steps /\ step' \in Session!Closing /\ step' \notin Session!Opening
  BY <1>1 DEF Session!Steps, Session!Closing, Session!Opening
<1>5. CASE s1 = "search" \/ Session!Pages = {}
  <2>1. s8' = why /\ UNCHANGED <<s6, s7>>
    BY <1>5 DEF Session!CallFails, Session!Raise
  <2>2. why # None
    BY SessionTypes
  <2>. QED  BY <1>1, <1>2, <1>3, <1>4, <1>5, <2>1, <2>2, TalkKept, SessionTypes
<1>6. CASE ~(s1 = "search" \/ Session!Pages = {})
  <2> DEFINE here == Session!Entry(s6, 0, why)
             left == Session!Rest(others)
  <2>1. /\ s7' = Append(s7, here) \o left /\ s6' = NumUrls + 1 /\ s8' = s8
    BY <1>6 DEF Session!CallFails
  <2>2. here \in Session!Item /\ here.url = s6 /\ here.error # None
    BY UnderSession, SessionTypes DEF Session!Entry, Session!Item, Session!Urls
  <2>3. /\ left \in Seq(Session!Item) /\ Len(left) = NumUrls - s6
        /\ \A i \in 1..(NumUrls - s6) : left[i].url = s6 + i /\ left[i].error # None
    <3>1. NumUrls - s6 \in Nat
      BY UnderSession, SessionTypes
    <3>2. left = [i \in 1..(NumUrls - s6) |-> Session!Entry(s6 + i, 0, others)]
      BY DEF Session!Rest
    <3>3. \A i \in 1..(NumUrls - s6) :
            /\ Session!Entry(s6 + i, 0, others) \in Session!Item
            /\ Session!Entry(s6 + i, 0, others).url = s6 + i /\ Session!Entry(s6 + i, 0, others).error # None
      BY UnderSession, SessionTypes, SMTT(40) DEF Session!Entry, Session!Item, Session!Urls, Session!Codes
    <3> HIDE DEF left
    <3>. QED  BY <3>1, <3>2, <3>3
  <2> HIDE DEF here, left
  <2>4. s7 \in Seq(Session!Item) /\ Len(s7) = s6 - 1 /\ s6 \in Nat /\ s6 <= NumUrls /\ NumUrls \in Nat
    BY UnderSession, SessionTypes
  <2> DEFINE first == Append(s7, here)
  <2>41. /\ first \in Seq(Session!Item) /\ Len(first) = s6
        /\ \A i \in 1..s6 : (i = s6 /\ first[i] = here) \/ (i \in DOMAIN s7 /\ first[i] = s7[i])
    BY <2>2, <2>4
  <2>42. s7' = first \o left
    BY <2>1
  <2> HIDE DEF first
  <2>43. /\ first \o left \in Seq(Session!Item) /\ Len(first \o left) = s6 + (NumUrls - s6)
        /\ \A i \in 1..NumUrls : (first \o left)[i] = IF i <= s6 THEN first[i] ELSE left[i - s6]
    BY <2>3, <2>4, <2>41
  <2>5. s7' \in Seq(Session!Item) /\ Len(s7') = NumUrls
    BY <2>4, <2>42, <2>43
  <2>6. \A i \in DOMAIN s7' :
          \/ i \in DOMAIN s7 /\ s7'[i] = s7[i]
          \/ i = s6 /\ s7'[i] = here
          \/ i - s6 \in 1..(NumUrls - s6) /\ s7'[i] = left[i - s6]
    <3> TAKE i \in DOMAIN s7'
    <3>1. i \in 1..NumUrls /\ i \in Int
      BY <2>4, <2>5
    <3>2. CASE i <= s6
      BY <3>1, <3>2, <2>4, <2>41, <2>42, <2>43
    <3>3. CASE i > s6
      <4>1. s7'[i] = left[i - s6]
        BY <3>1, <3>3, <2>4, <2>42, <2>43
      <4>. QED  BY <4>1, <3>1, <3>3, <2>4
    <3>4. i <= s6 \/ i > s6
      BY <3>1, <2>4
    <3>. QED  BY <3>2, <3>3, <3>4
  <2>7. \A i \in DOMAIN s7' : s7'[i].url = i
    <3> TAKE i \in DOMAIN s7'
    <3>1. i \in Int
      BY <2>5
    <3>2. CASE i \in DOMAIN s7 /\ s7'[i] = s7[i]
      BY <3>2, UnderSession
    <3>3. CASE i = s6 /\ s7'[i] = here
      BY <3>3, <2>2
    <3>4. CASE i - s6 \in 1..(NumUrls - s6) /\ s7'[i] = left[i - s6]
      <4>1. s7'[i].url = s6 + (i - s6)
        BY <3>4, <2>3
      <4>. QED  BY <4>1, <3>1, <2>4
    <3>. QED  BY <3>2, <3>3, <3>4, <2>6
  <2>8. Session!PagesBelong'
    BY <2>2, <2>3, <2>6 DEF Session!Inv, Session!PagesBelong
  <2>9. Session!PagesSurvive' /\ Session!Progress'
    BY <1>1, <1>4, <1>6, <2>1, <2>4, <2>5, <2>7, UnderSession, SessionTypes, SMTT(40)
       DEF Session!PagesSurvive, Session!Progress, Session!Targets, Session!Urls
  <2>10. s5' \in Nat \ {0} /\ s6' \in 1..(NumUrls + 1)
    BY <2>1, <2>4, SessionTypes
  <2>11. Session!TypeOK'
    BY <1>2, <1>4, <2>1, <2>5, <2>10, SessionTypes DEF Session!TypeOK
  <2>. QED  BY <1>2, <1>3, <2>8, <2>9, <2>11, SessionTypes DEF Session!Inv
<1>. QED  BY <1>5, <1>6

LEMMA PassOverKept == ASSUME Session!Inv, Session!PassOver PROVE Session!Inv'
<1> DEFINE e == Session!Entry(s6, 0, "deadline")
<1>1. /\ s6 \in Session!Targets /\ step = "next" /\ s7' = Append(s7, e) /\ s6' = s6 + 1 /\ step' = "next"
      /\ UNCHANGED <<clock, s1, s2, s3, s4, s5, s8, s9, s10, s11, s12, s13, s14>>
  BY DEF Session!PassOver, Session!Targets, Session!request, Session!process
<1>2. e \in Session!Item /\ e.url = s6 /\ e.error # None
  BY <1>1, UnderSession, SessionTypes DEF Session!Entry, Session!Item, Session!Urls, Session!Codes
<1>. QED  BY <1>1, <1>2, CollectKept

LEMMA CallKept == ASSUME Session!Inv, Session!Call PROVE Session!Inv'
<1>1. /\ step = "next" /\ s6 \in Session!Targets /\ s5' = s5 + 1
      /\ UNCHANGED <<clock, s1, s2, s3, s4, s9, s11, s12, s13, s14>>
  BY DEF Session!Call, Session!request
<1>2. CASE s9 = "dead"
  <2>1. Session!CallFails("donsetch_process_failed", "not_tried") /\ s10' = s10
    BY <1>2 DEF Session!Call
  <2>2. "donsetch_process_failed" \in Session!Codes
    BY DEF Session!Codes
  <2>. QED  BY <1>1, <2>1, <2>2, CallFailsKept
<1>3. CASE s9 = "alive"
  <2> DEFINE Asks    == [id : Nat, url : Nat]
             message == [id |-> s5, url |-> s6]
  <2>1. s10' = Append(s10, message) /\ step' = "calling" /\ UNCHANGED <<s6, s7, s8>>
    BY <1>3 DEF Session!Call
  <2>2. s10 \in Seq(Asks) /\ message \in Asks
    BY <1>1, UnderSession, SessionTypes
  <2>3. SaidNext(message.id, message.url) /\ s5' > 1
    BY <1>1, <2>1, SessionTypes, SMTT(40) DEF SaidNext
  <2> HIDE DEF Asks, message
  <2>4. /\ s10' \in Seq(Asks)
        /\ \A i \in DOMAIN s10' : s10'[i] = message \/ (i \in DOMAIN s10 /\ s10'[i] = s10[i])
    BY <2>1, <2>2, OneMore
  <2>5. Session!LinesOK'
    <3>1. s5' # s5
      BY <1>1, SessionTypes
    <3>. QED  BY <1>1, <2>3, <2>4, <3>1, LinesSaid, LinesNext
  <2>6. Session!ChildOK'
    BY <1>1, <1>3, <2>1 DEF Session!ChildOK
  <2>7. s8 = None /\ step' \in Session!Steps /\ step' \notin Session!Opening /\ step' \notin Session!Closing
    BY <1>1, <2>1, UnderSession DEF Session!Steps, Session!Opening, Session!Closing
  <2>8. s10' \in Seq([id : Nat, url : Nat])
    BY <2>4 DEF Asks
  <2>. QED  BY <1>1, <2>1, <2>3, <2>5, <2>6, <2>7, <2>8, TalkKept, SessionTypes
<1>. QED  BY <1>2, <1>3 DEF Session!Call

LEMMA AnsweredKept == ASSUME Session!Inv, Session!Answered PROVE Session!Inv'
<1>1. PICK n \in DOMAIN s12 :
        LET m == s12[n] IN
          /\ m # Session!EndOfStream /\ Session!Matches(m) /\ Session!Got(m)
          /\ \/ /\ m.kind \in {"page", "no_page", "noise"}
                /\ s7' = Append(s7, Session!Projected(m)) /\ s6' = s6 + 1 /\ step' = "next" /\ s8' = s8
             \/ \E why \in Session!Codes : Session!CallFails(why, "not_tried")
  BY DEF Session!Answered, Session!Codes
<1> DEFINE m == s12[n]
           e == Session!Projected(m)
<1>2. /\ step = "calling" /\ UNCHANGED <<clock, s1, s2, s3, s4, s5, s9, s10, s11, s13, s14>>
  BY DEF Session!Answered, Session!request, Session!process
<1>3. s12 # <<>> /\ s12' = Tail(s12)
  BY <1>1 DEF Session!Got
<1>4. s6 \in Session!Targets /\ m.about = s6 /\ m.id = s5 - 1
  BY <1>1, <1>2 DEF Session!Inv, Session!Progress, Session!LinesOK, Session!About, Session!Awaited, Session!Matches
<1>5. CASE s7' = Append(s7, Session!Projected(m)) /\ s6' = s6 + 1 /\ step' = "next" /\ s8' = s8
  <2>1. e \in Session!Item /\ e.url = s6 /\ (e.error = None => e.page = s6)
    BY <1>2, <1>4, UnderSession, SessionTypes
       DEF Session!Projected, Session!Entry, Session!Item, Session!Urls
  <2> HIDE DEF e
  <2>2. s7' = Append(s7, e)
    BY <1>5 DEF e
  <2>. QED  BY <1>2, <1>3, <1>4, <1>5, <2>1, <2>2, CollectKept
<1>6. ASSUME NEW why \in Session!Codes, Session!CallFails(why, "not_tried") PROVE Session!Inv'
  BY <1>2, <1>3, <1>4, <1>6, CallFailsKept
<1>. QED  BY <1>1, <1>5, <1>6

LEMMA CallBreaksKept == ASSUME Session!Inv, Session!CallBreaks PROVE Session!Inv'
<1>1. /\ step = "calling" /\ UNCHANGED <<clock, s1, s2, s3, s4, s5, s9, s10, s11, s12, s13, s14>>
      /\ \E why \in Session!Codes, others \in {"not_tried", "deadline"} : Session!CallFails(why, others)
  BY DEF Session!CallBreaks, Session!Codes, Session!request, Session!process
<1>2. s6 \in Session!Targets
  BY <1>1 DEF Session!Inv, Session!Progress
<1>. QED  BY <1>1, <1>2, CallFailsKept

LEMMA SessionKept == Session!Inv /\ Session!SessionNext => Session!Inv'
BY BeginKept, SpawnKept, InitializeFailsKept, EndingKept, ElsewhereKept, WriteKept, TakeKept,
   SessionReplyKept, ChatterKept, ReadKept, PassOverKept, CallKept, AnsweredKept, CallBreaksKept
   DEF Session!SessionNext, Session!SessionStep

LEMMA SessionTrueOf == Session!Inv => Session!EveryUrlAccounted /\ Session!ChildReaped
<1> SUFFICES ASSUME Session!Inv PROVE Session!EveryUrlAccounted /\ Session!ChildReaped
  OBVIOUS
<1>1. Session!EveryUrlAccounted
  <2> SUFFICES ASSUME step = "over", s1 = "extract", s8 = None
               PROVE  Len(s7) = NumUrls /\ \A i \in DOMAIN s7 : s7[i].url = i
    BY DEF Session!EveryUrlAccounted
  <2>1. s6 \notin 1..NumUrls /\ Len(s7) = s6 - 1 /\ \A i \in DOMAIN s7 : s7[i].url = i
    BY DEF Session!Inv, Session!Progress, Session!Closing, Session!Targets, Session!Urls
  <2>. QED  BY <2>1, SessionTypes
<1>2. Session!ChildReaped
  BY DEF Session!Inv, Session!ChildOK, Session!ChildReaped
<1>. QED  BY <1>1, <1>2

LEMMA SessionStill ==
  ASSUME Session!Inv, UNCHANGED <<clock, step, s1, s2, s3, s4, s5, s6, s7, s8, s9, s10, s11, s12, s13, s14>>
  PROVE  Session!Inv'
<1>1. Session!LinesOK'
  BY LinesSaid, LinesNext
<1>. QED  BY <1>1, CarryKept, SessionTypes

-----------------------------------------------------------------------------
(***************************************************************************)
(* FullTextStore                                                           *)
(***************************************************************************)
LEMMA StoreStarts == Store!Init => Store!Inv
<1> SUFFICES ASSUME Store!Init PROVE Store!Inv
  OBVIOUS
<1> USE StoreAssumption DEF Store!Init
<1>1. s1 \in [Store!Paths -> Store!File \cup {None}]
  BY DEF Store!File, Store!Texts
<1>2. s4 \in [Process -> Store!Paths]
  <2>1. 1 \in Store!Paths
    BY DEF Store!Paths
  <2>. QED  BY <2>1
<1>3. s2 \in [Process -> (0..StoreTime) \cup {None}] /\ s6 \in [Process -> Store!Reports]
  BY DEF Store!Reports
<1>4. clock \in 0..StoreTime /\ s7 \in 0..MaxJobs /\ s8 \in 0..StoreFaults
  OBVIOUS
<1>5. Store!TypeOK
  BY <1>1, <1>2, <1>3, <1>4 DEF Store!TypeOK
<1>. QED  BY <1>5 DEF Store!Inv, Store!LookupTrue

\* The steps that change neither a file nor what was found of them.
LEMMA StoreQuiet ==
  ASSUME Store!Inv, UNCHANGED s1, DOMAIN step' = Process, DOMAIN s5' = Process,
         \A j \in Process : s5'[j] = s5[j] \/ s5'[j] = {},
         \A j \in Process : step'[j] = "expire" => s4'[j] = s4[j] /\ (step[j] = "expire" \/ ~Store!Foreign(s4[j])),
         clock' \in 0..StoreTime, s2' \in [Process -> (0..StoreTime) \cup {None}], s3' \subseteq 0..StoreTime,
         s4' \in [Process -> Store!Paths], s6' \in [Process -> {None, "stored", "failed", "missing", "whole"}],
         s7' \in 0..MaxJobs, s8' \in 0..StoreFaults, s9' \in BOOLEAN, s10' \in BOOLEAN
  PROVE  Store!Inv'
<1>1. Store!TypeOK'
  BY DEF Store!Inv, Store!TypeOK, Store!Reports, Store!Texts
<1>2. Store!LookupTrue'
  BY DEF Store!LookupTrue
<1>. QED  BY <1>1, <1>2 DEF Store!Inv, Store!Foreign

LEMMA StoreTypes ==
  ASSUME Store!Inv
  PROVE  /\ clock \in 0..StoreTime /\ s1 \in [Store!Paths -> Store!File \cup {None}]
         /\ s2 \in [Process -> (0..StoreTime) \cup {None}] /\ s3 \subseteq 0..StoreTime
         /\ s4 \in [Process -> Store!Paths] /\ s6 \in [Process -> {None, "stored", "failed", "missing", "whole"}]
         /\ \A j \in Process : s5[j] \subseteq [path : Store!Paths, mtime : 0..StoreTime, keep : BOOLEAN]
         /\ s7 \in 0..MaxJobs /\ s8 \in 0..StoreFaults /\ s9 \in BOOLEAN /\ s10 \in BOOLEAN
         /\ DOMAIN step = Process /\ DOMAIN s5 = Process
BY DEF Store!Inv, Store!TypeOK, Store!LookupTrue

\* What a step does with the place of the process that takes it, and with its report.
LEMMA StoreGoes ==
  ASSUME Store!Inv, NEW j \in Process, NEW place
  PROVE  /\ Store!Goto(j, place) =>
              DOMAIN step' = Process /\ step'[j] = place /\ \A k \in Process \ {j} : step'[k] = step[k]
         /\ \A outcome \in {None, "stored", "failed", "missing", "whole"} :
              s6' = [s6 EXCEPT ![j] = outcome] => s6' \in [Process -> {None, "stored", "failed", "missing", "whole"}]
BY StoreTypes DEF Store!Goto, Store!Inv

\* The steps that only look.
LEMMA LookKept ==
  ASSUME Store!Inv, NEW j \in Process,
         Store!Check(j) \/ Store!Vet(j) \/ Store!Look(j) \/ Store!Verify(j) \/ Store!Conclude(j) \/ Store!Find(j) \/ Store!Read(j)
  PROVE  Store!Inv'
<1>1. UNCHANGED <<clock, s1, s2, s3, s4, s5, s7, s8, s9, s10>>
  BY DEF Store!Check, Store!Vet, Store!Look, Store!Verify, Store!Conclude, Store!Find, Store!Read
<1>2. \E place : Store!Goto(j, place) /\ (place = "expire" => ~Store!Foreign(s4[j]))
  BY DEF Store!Check, Store!Vet, Store!Look, Store!Verify, Store!Conclude, Store!Find, Store!Read, Store!End,
         Store!Owned, Store!Foreign
<1>3. s6' = s6 \/ \E outcome \in {None, "stored", "failed", "missing", "whole"} : s6' = [s6 EXCEPT ![j] = outcome]
  BY DEF Store!Check, Store!Vet, Store!Look, Store!Verify, Store!Conclude, Store!Find, Store!Read, Store!End,
         Store!Intact
<1>4. s6' \in [Process -> {None, "stored", "failed", "missing", "whole"}]
  BY <1>3, StoreGoes, StoreTypes
<1>5. DOMAIN step' = Process /\ \A k \in Process : step'[k] = "expire" => step[k] = "expire" \/ ~Store!Foreign(s4[k])
  BY <1>2, StoreGoes
<1>. QED  BY <1>1, <1>4, <1>5, StoreQuiet, StoreTypes

\* The start of a call: nothing it did before is of use.
LEMMA CallsKept ==
  ASSUME Store!Inv, NEW j \in Process, Store!Sweep(j) \/ \E p \in Store!Pages : Store!Begin(j, p)
  PROVE  Store!Inv'
<1>1. /\ UNCHANGED <<clock, s1, s2, s3, s5, s8, s9, s10>> /\ s6' = [s6 EXCEPT ![j] = None]
      /\ s7 < MaxJobs /\ s7' = s7 + 1
      /\ \E place \in {"check", "find", "scan"} : Store!Goto(j, place)
      /\ \E p \in Store!Paths : s4' = [s4 EXCEPT ![j] = p]
  BY StoreAssumption DEF Store!Sweep, Store!Begin, Store!Pages, Store!Paths
<1>2. s4' \in [Process -> Store!Paths] /\ \A k \in Process \ {j} : s4'[k] = s4[k]
  BY <1>1, StoreTypes
<1>3. /\ DOMAIN step' = Process /\ s6' \in [Process -> {None, "stored", "failed", "missing", "whole"}]
      /\ \A k \in Process : step'[k] = "expire" => k # j /\ step[k] = "expire"
  BY <1>1, StoreGoes
<1>4. s7' \in 0..MaxJobs
  BY <1>1, StoreTypes, StoreAssumption
<1>. QED  BY <1>1, <1>2, <1>3, <1>4, StoreQuiet, StoreTypes

LEMMA StoreFault == ASSUME Store!Inv, Store!Fault PROVE s8' \in 0..StoreFaults
BY StoreTypes, StoreAssumption DEF Store!Fault

\* The steps about temporary files, and the death of a process.
LEMMA TempKept ==
  ASSUME Store!Inv, NEW j \in Process, Store!WriteTemp(j) \/ Store!CleanOrphans(j) \/ Store!Die(j)
  PROVE  Store!Inv'
<1>1. /\ UNCHANGED <<clock, s1, s4, s7, s10>>
      /\ \E place \in {"link", "idle", "scan", "dead"} : Store!Goto(j, place)
      /\ s5' = s5 \/ s5' = [s5 EXCEPT ![j] = {}]
      /\ s6' = s6 \/ s6' = [s6 EXCEPT ![j] = "failed"]
  BY DEF Store!WriteTemp, Store!CleanOrphans, Store!Die, Store!End
<1>2. s2' \in [Process -> (0..StoreTime) \cup {None}] /\ s3' \subseteq 0..StoreTime
  BY StoreTypes DEF Store!WriteTemp, Store!CleanOrphans, Store!Die
<1>3. s8' \in 0..StoreFaults /\ s9' \in BOOLEAN
  BY StoreFault, StoreTypes DEF Store!WriteTemp, Store!CleanOrphans, Store!Die
<1>4. /\ DOMAIN step' = Process /\ s6' \in [Process -> {None, "stored", "failed", "missing", "whole"}]
      /\ \A k \in Process : step'[k] = "expire" => step[k] = "expire"
  BY <1>1, StoreGoes, StoreTypes
<1>5. DOMAIN s5' = Process /\ \A k \in Process : s5'[k] = s5[k] \/ s5'[k] = {}
  BY <1>1, StoreTypes
<1>. QED  BY <1>1, <1>2, <1>3, <1>4, <1>5, StoreQuiet, StoreTypes

LEMMA SweptKept == ASSUME Store!Inv, NEW j \in Process, Store!Swept(j) PROVE Store!Inv'
<1>1. /\ UNCHANGED <<clock, s1, s2, s3, s4, s6, s7, s8, s9>> /\ s10' = TRUE
      /\ s5' = [s5 EXCEPT ![j] = {}] /\ \E place \in {"idle", "conclude"} : Store!Goto(j, place)
  BY DEF Store!Swept
<1>2. DOMAIN step' = Process /\ \A k \in Process : step'[k] = "expire" => step[k] = "expire"
  BY <1>1, StoreGoes
<1>3. DOMAIN s5' = Process /\ \A k \in Process : s5'[k] = s5[k] \/ s5'[k] = {}
  BY <1>1, StoreTypes
<1>. QED  BY <1>1, <1>2, <1>3, StoreQuiet, StoreTypes

\* What was found is an entry each time, and no entry is a file of the user's.
LEMMA ScanKept == ASSUME Store!Inv, NEW j \in Process, Store!Scan(j) PROVE Store!Inv'
<1> DEFINE found == {[path |-> p, mtime |-> s1[p].mtime, keep |-> FALSE] : p \in {q \in Store!Paths : Store!Owned(q)}}
<1>1. /\ UNCHANGED <<clock, s1, s2, s3, s4, s6, s7, s8, s9, s10>>
      /\ s5' = [s5 EXCEPT ![j] = found] /\ Store!Goto(j, "evict")
  BY DEF Store!Scan
<1>2. /\ found \subseteq [path : Store!Paths, mtime : 0..StoreTime, keep : BOOLEAN]
      /\ \A e \in found : ~Store!Foreign(e.path)
  <2> SUFFICES ASSUME NEW p \in Store!Paths, Store!Owned(p)
               PROVE  /\ [path |-> p, mtime |-> s1[p].mtime, keep |-> FALSE]
                           \in [path : Store!Paths, mtime : 0..StoreTime, keep : BOOLEAN]
                      /\ ~Store!Foreign(p)
    OBVIOUS
  <2>1. s1[p] \in Store!File
    BY StoreTypes DEF Store!Owned
  <2>2. s1[p].mtime \in 0..StoreTime
    BY <2>1 DEF Store!File
  <2>. QED  BY <2>2 DEF Store!Owned, Store!Foreign
<1> HIDE DEF found
<1>3. /\ DOMAIN s5' = Process /\ s5'[j] = found /\ \A k \in Process \ {j} : s5'[k] = s5[k]
  BY <1>1, StoreTypes
<1>4. DOMAIN step' = Process /\ \A k \in Process : step'[k] = "expire" => step[k] = "expire"
  BY <1>1, StoreGoes
<1>5. Store!TypeOK' /\ Store!LookupTrue'
  BY <1>1, <1>2, <1>3 DEF Store!Inv, Store!TypeOK, Store!LookupTrue
<1>. QED  BY <1>1, <1>2, <1>3, <1>4, <1>5 DEF Store!Inv, Store!Foreign

\* Files come and go: no new one is the user's, and none of the user's goes.
LEMMA FilesKept ==
  ASSUME Store!Inv, NEW j \in Process, Store!Link(j) \/ Store!Expire(j) \/ Store!Evict(j)
  PROVE  Store!Inv' /\ Store!ForeignStays
<1>1. CASE Store!Link(j)
  <2>1. /\ UNCHANGED <<clock, s3, s4, s5, s7, s8, s9, s10>> /\ s2' = [s2 EXCEPT ![j] = None]
        /\ \E place \in {"verify", "idle"} : Store!Goto(j, place)
        /\ s6' = s6 \/ s6' = [s6 EXCEPT ![j] = "failed"]
    BY <1>1 DEF Store!Link, Store!End
  <2>2. \/ s1' = s1
        \/ /\ s2[j] # None /\ s1[s4[j]] = None
           /\ s1' = [s1 EXCEPT ![s4[j]] = [text |-> "whole", mtime |-> s2[j]]]
    BY <1>1 DEF Store!Link
  <2>3. /\ s1' \in [Store!Paths -> Store!File \cup {None}]
        /\ \A p \in Store!Paths : s1'[p] = s1[p] \/ (s1[p] = None /\ s1'[p].text = "whole")
    <3>1. s2[j] # None => [text |-> "whole", mtime |-> s2[j]] \in Store!File
      BY StoreTypes DEF Store!File, Store!Texts
    <3>. QED  BY <2>2, <3>1, StoreTypes
  <2>4. /\ DOMAIN step' = Process /\ s6' \in [Process -> {None, "stored", "failed", "missing", "whole"}]
        /\ \A k \in Process : step'[k] = "expire" => step[k] = "expire"
    BY <2>1, StoreGoes, StoreTypes
  <2>5. s2' \in [Process -> (0..StoreTime) \cup {None}]
    BY <2>1, StoreTypes
  <2>6. Store!TypeOK'
    BY <2>1, <2>3, <2>4, <2>5, StoreTypes DEF Store!TypeOK, Store!Reports, Store!Texts
  <2>7. Store!ForeignStays /\ \A p \in Store!Paths : Store!Foreign(p)' => Store!Foreign(p)
    BY <2>3 DEF Store!Foreign, Store!ForeignStays
  <2>. QED  BY <2>1, <2>4, <2>6, <2>7, StoreTypes DEF Store!Inv, Store!LookupTrue
<1>2. CASE Store!Expire(j)
  <2>1. /\ UNCHANGED <<clock, s2, s3, s4, s5, s7, s8, s9, s10>> /\ step[j] = "expire" /\ Store!Goto(j, "idle")
        /\ s1' = [s1 EXCEPT ![s4[j]] = None] /\ s6' = [s6 EXCEPT ![j] = "missing"]
    BY <1>2 DEF Store!Expire, Store!End
  <2>2. /\ s1' \in [Store!Paths -> Store!File \cup {None}] /\ ~Store!Foreign(s4[j])
        /\ \A p \in Store!Paths : s1'[p] = s1[p] \/ (p = s4[j] /\ s1'[p] = None)
    BY <2>1, StoreTypes DEF Store!Inv
  <2>3. /\ DOMAIN step' = Process /\ s6' \in [Process -> {None, "stored", "failed", "missing", "whole"}]
        /\ \A k \in Process : step'[k] = "expire" => step[k] = "expire"
    BY <2>1, StoreGoes, StoreTypes
  <2>4. Store!TypeOK'
    BY <2>1, <2>2, <2>3, StoreTypes DEF Store!TypeOK, Store!Reports, Store!Texts
  <2>5. Store!ForeignStays /\ \A p \in Store!Paths : Store!Foreign(p)' => Store!Foreign(p)
    BY <2>2 DEF Store!Foreign, Store!ForeignStays
  <2>. QED  BY <2>1, <2>3, <2>4, <2>5, StoreTypes DEF Store!Inv, Store!LookupTrue
<1>3. CASE Store!Evict(j)
  <2>1. UNCHANGED <<clock, step, s2, s3, s4, s6, s7, s9, s10>>
    BY <1>3 DEF Store!Evict
  <2>2. PICK e \in Store!Victims(s5[j]) :
          \/ s1' = [s1 EXCEPT ![e.path] = None] /\ s5' = [s5 EXCEPT ![j] = @ \ {e}] /\ s8' = s8
          \/ s1' = s1 /\ Store!Fault /\ s5' = [s5 EXCEPT ![j] = (@ \ {e}) \cup {[e EXCEPT !.keep = TRUE]}]
    BY <1>3 DEF Store!Evict
  <2>3. e \in s5[j]
    BY DEF Store!Victims
  <2>4. e \in [path : Store!Paths, mtime : 0..StoreTime, keep : BOOLEAN] /\ ~Store!Foreign(e.path)
    BY <2>3, StoreTypes DEF Store!Inv
  <2> DEFINE Found == [path : Store!Paths, mtime : 0..StoreTime, keep : BOOLEAN]
             kept  == [e EXCEPT !.keep = TRUE]
  <2>5. kept \in Found /\ kept.path = e.path
    BY <2>4
  <2> HIDE DEF Found, kept
  <2>6. /\ DOMAIN s5' = Process /\ s5'[j] \subseteq s5[j] \cup {kept} /\ \A k \in Process \ {j} : s5'[k] = s5[k]
    BY <2>2, StoreTypes DEF kept
  <2>7. /\ s1' \in [Store!Paths -> Store!File \cup {None}]
        /\ \A p \in Store!Paths : s1'[p] = s1[p] \/ (p = e.path /\ s1'[p] = None)
    BY <2>2, <2>4, StoreTypes
  <2>8. s8' \in 0..StoreFaults
    BY <2>2, StoreFault, StoreTypes
  <2>9. Store!ForeignStays /\ \A p \in Store!Paths : Store!Foreign(p)' => Store!Foreign(p)
    BY <2>4, <2>7 DEF Store!Foreign, Store!ForeignStays
  <2>10. \A k \in Process : s5'[k] \subseteq Found
    BY <2>5, <2>6, StoreTypes DEF Found
  <2>11. Store!TypeOK'
    BY <2>1, <2>7, <2>8, <2>10, StoreTypes DEF Store!TypeOK, Store!Reports, Store!Texts, Found
  <2>12. \A k \in Process : \A d \in s5'[k] : d.path \in Store!Paths /\ ~Store!Foreign(d.path)
    BY <2>4, <2>5, <2>6, <2>10 DEF Store!Inv, Found
  <2>. QED  BY <2>1, <2>6, <2>9, <2>11, <2>12, StoreTypes DEF Store!Inv, Store!LookupTrue
<1>. QED  BY <1>1, <1>2, <1>3

LEMMA StoreStill ==
  ASSUME Store!Inv, UNCHANGED <<step, s1, s2, s3, s4, s5, s6, s7, s8, s9, s10>>, clock' \in 0..StoreTime
  PROVE  Store!Inv'
BY StoreQuiet, StoreTypes DEF Store!Inv

LEMMA StoreKept == Store!Inv /\ Store!Next => Store!Inv'
<1> SUFFICES ASSUME Store!Inv, Store!Next PROVE Store!Inv'
  OBVIOUS
<1>1. CASE Store!Tick
  <2>1. clock' \in 0..StoreTime
    BY <1>1, StoreTypes, StoreAssumption DEF Store!Tick
  <2>. QED  BY <1>1, <2>1, StoreStill DEF Store!Tick
<1>2. ASSUME NEW j \in Process, Store!Store(j) \/ Store!Lookup(j) PROVE Store!Inv'
  BY <1>2, LookKept, TempKept, SweptKept, ScanKept, FilesKept DEF Store!Store, Store!Lookup
<1>3. ASSUME NEW j \in Process, Store!Die(j) PROVE Store!Inv'
  BY <1>3, TempKept
<1>. QED  BY <1>1, <1>2, <1>3, CallsKept DEF Store!Next

\* Only three steps change a file at all.
LEMMA StoreLeavesForeign == Store!Inv /\ Store!Next => Store!ForeignStays
<1> SUFFICES ASSUME Store!Inv, Store!Next PROVE Store!ForeignStays
  OBVIOUS
<1>1. ASSUME NEW j \in Process, Store!Link(j) \/ Store!Expire(j) \/ Store!Evict(j) PROVE Store!ForeignStays
  BY <1>1, FilesKept
<1>2. CASE UNCHANGED s1
  BY <1>2 DEF Store!ForeignStays
<1>. QED
  BY <1>1, <1>2
     DEF Store!Next, Store!Begin, Store!Sweep, Store!Store, Store!Lookup, Store!Die, Store!Tick, Store!Check,
         Store!Vet, Store!Look, Store!WriteTemp, Store!Verify, Store!CleanOrphans, Store!Scan, Store!Swept,
         Store!Conclude, Store!Find, Store!Read

-----------------------------------------------------------------------------
(***************************************************************************)
(* The entries fit at rest.  Who publishes an entry sweeps afterwards; the *)
(* latest look at the directory has what was there before, and what was    *)
(* published since is promised.                                            *)
(***************************************************************************)
LEMMA StoreTotal ==
  /\ \A paths : Store!Total(paths) = SumOf(Size, paths)
  /\ IsFiniteSet(Store!Paths) /\ \A p \in Store!Paths : Size[p] \in Nat
<1>1. \A paths : Store!Total(paths) = SumOf(Size, paths)
  BY DEF Store!Total, Store!FoldFunctionOnSet, Store!MapThenFoldSet, SumOf, FoldFunctionOnSet, MapThenFoldSet
<1>2. IsFiniteSet(Store!Paths)
  BY FS_Interval, StoreAssumption DEF Store!Paths
<1>3. \A p \in Store!Paths : Size[p] \in Nat
  BY StoreAssumption DEF Store!Paths
<1>. QED  BY <1>1, <1>2, <1>3

LEMMA AccountedStarts == Store!Init => Store!Accounted
BY DEF Store!Init, Store!Accounted

\* An entry promised in one state is promised in the next, unless it goes or its writer
\* looks at the directory.
LEMMA PromiseKept ==
  ASSUME NEW paths, Store!Spares(paths),
         \A p \in Store!Paths : Store!Owned(p)' /\ p \notin paths =>
           \/ s1'[p] = s1[p] /\ \A j \in Process :
                s4[j] = p /\ step[j] \in {"verify", "clean", "scan"} /\ Store!Good(p) =>
                  s4'[j] = p /\ step'[j] \in {"verify", "clean", "scan"}
           \/ Store!Promised(p)'
  PROVE  Store!Spares(paths)'
BY DEF Store!Spares, Store!Promised, Store!Owned, Store!Good

\* The steps that change no file and nothing that was found.
LEMMA QuietAccounted ==
  ASSUME Store!Accounted, UNCHANGED <<s1, s5, s9, s10>>, s8' = s8 \/ s8' # 0,
         \A j \in Process : step[j] = "dead" => step'[j] = "dead",
         \A j \in Process : step[j] = "evict" <=> step'[j] = "evict",
         \A j \in Process : step[j] \in {"verify", "clean", "scan"} /\ Store!Good(s4[j]) =>
           s4'[j] = s4[j] /\ step'[j] \in {"verify", "clean", "scan"}
  PROVE  Store!Accounted'
<1>1. CASE s8' # 0
  BY <1>1 DEF Store!Accounted
<1>2. CASE s8' = s8
  <2> SUFFICES ASSUME ~s9, s8 = 0, s10 \/ \E j \in Process : step[j] = "evict"
               PROVE  \E paths \in SUBSET Store!Paths :
                        Store!Spares(paths)' /\ (Store!Fitting(paths)' \/ Store!Reduces(paths)')
    BY <1>2 DEF Store!Accounted
  <2>1. PICK paths \in SUBSET Store!Paths : Store!Spares(paths) /\ (Store!Fitting(paths) \/ Store!Reduces(paths))
    BY DEF Store!Accounted
  <2>2. Store!Spares(paths)'
    BY <2>1, PromiseKept DEF Store!Owned, Store!Good
  <2>3. Store!Fitting(paths)' \/ Store!Reduces(paths)'
    BY <2>1 DEF Store!Fitting, Store!Reduces
  <2>. QED  BY <2>2, <2>3
<1>. QED  BY <1>1, <1>2

LEMMA LooksAccounted ==
  ASSUME Store!Inv, Store!Accounted, NEW j \in Process,
         \/ Store!Check(j) \/ Store!Vet(j) \/ Store!Look(j) \/ Store!Verify(j) \/ Store!Conclude(j)
         \/ Store!Find(j) \/ Store!Read(j) \/ Store!Sweep(j) \/ (\E p \in Store!Pages : Store!Begin(j, p))
         \/ Store!WriteTemp(j) \/ Store!CleanOrphans(j)
  PROVE  Store!Accounted'
<1> DEFINE to(from, place) == step[j] = from /\ Store!Goto(j, place)
<1>1. UNCHANGED <<s1, s5, s9, s10>>
  BY DEF Store!Check, Store!Vet, Store!Look, Store!Verify, Store!Conclude, Store!Find, Store!Read, Store!Sweep,
         Store!Begin, Store!WriteTemp, Store!CleanOrphans
<1>2. s8' = s8 \/ s8' # 0
  BY StoreTypes
     DEF Store!Check, Store!Vet, Store!Look, Store!Verify, Store!Conclude, Store!Find, Store!Read, Store!Sweep,
         Store!Begin, Store!WriteTemp, Store!CleanOrphans, Store!Fault
<1>3. \E from, place : /\ to(from, place) /\ from \notin {"dead", "evict"} /\ place # "evict"
                       /\ from \in {"verify", "clean", "scan"} /\ Store!Good(s4[j]) =>
                            s4'[j] = s4[j] /\ place \in {"verify", "clean", "scan"}
  <2>1. CASE Store!Check(j) \/ Store!Vet(j) \/ Store!Look(j)
    BY <2>1 DEF Store!Check, Store!Vet, Store!Look, Store!End
  <2>2. CASE Store!Verify(j)
    BY <2>2 DEF Store!Verify, Store!End
  <2>3. CASE Store!Conclude(j) \/ Store!Find(j) \/ Store!Read(j)
    BY <2>3 DEF Store!Conclude, Store!Find, Store!Read, Store!End
  <2>4. CASE Store!Sweep(j) \/ \E p \in Store!Pages : Store!Begin(j, p)
    BY <2>4 DEF Store!Sweep, Store!Begin
  <2>5. CASE Store!WriteTemp(j) \/ Store!CleanOrphans(j)
    BY <2>5 DEF Store!WriteTemp, Store!CleanOrphans, Store!End
  <2>. QED  BY <2>1, <2>2, <2>3, <2>4, <2>5
<1>4. \A k \in Process \ {j} : s4'[k] = s4[k]
  BY StoreTypes
     DEF Store!Check, Store!Vet, Store!Look, Store!Verify, Store!Conclude, Store!Find, Store!Read, Store!Sweep,
         Store!Begin, Store!WriteTemp, Store!CleanOrphans
<1>5. /\ \A k \in Process : step[k] = "dead" => step'[k] = "dead"
      /\ \A k \in Process : step[k] = "evict" <=> step'[k] = "evict"
      /\ \A k \in Process : step[k] \in {"verify", "clean", "scan"} /\ Store!Good(s4[k]) =>
           s4'[k] = s4[k] /\ step'[k] \in {"verify", "clean", "scan"}
  BY <1>3, <1>4, StoreGoes
<1>. QED  BY <1>1, <1>2, <1>5, QuietAccounted

\* What was just found is everything.
LEMMA ScanAccounted ==
  ASSUME Store!Inv, Store!Accounted, NEW j \in Process, Store!Scan(j)
  PROVE  Store!Accounted'
<1> DEFINE found == {[path |-> p, mtime |-> s1[p].mtime, keep |-> FALSE] : p \in {q \in Store!Paths : Store!Owned(q)}}
<1>1. /\ UNCHANGED <<s1, s8, s9>> /\ step[j] = "scan"
      /\ s5' = [s5 EXCEPT ![j] = found] /\ Store!Goto(j, "evict")
  BY DEF Store!Scan
<1>2. PICK all : all = {p \in Store!Paths : Store!Owned(p)}
  OBVIOUS
<1>3. PICK entries : entries = found
  OBVIOUS
<1>4. (\A e \in entries : ~e.keep) /\ all = {e.path : e \in entries}
  <2>1. \A e \in found : ~e.keep
    OBVIOUS
  <2>2. ASSUME NEW p \in all PROVE \E e \in found : e.path = p
    <3> DEFINE e == [path |-> p, mtime |-> s1[p].mtime, keep |-> FALSE]
    <3>1. e \in found /\ e.path = p
      BY <1>2
    <3>. QED  BY <3>1
  <2>3. \A e \in found : e.path \in all
    BY <1>2
  <2> HIDE DEF found
  <2>. QED  BY <1>3, <2>1, <2>2, <2>3
<1>5. all \in SUBSET Store!Paths /\ Store!Spares(all)'
  BY <1>1, <1>2 DEF Store!Spares, Store!Owned
<1> HIDE DEF found
<1>6. s5'[j] = entries /\ step'[j] = "evict" /\ \A k \in Process \ {j} : s5'[k] = s5[k] /\ step'[k] = step[k]
  BY <1>1, <1>3, StoreGoes, StoreTypes
<1>7. Store!Reduces(all)'
  <2>1. all = Store!PathsOf(s5[j])'
    BY <1>4, <1>6 DEF Store!PathsOf
  <2>. QED  BY <1>6, <2>1 DEF Store!Reduces
<1>8. s9' => \E k \in Process : step'[k] = "dead"
  BY <1>1, <1>6 DEF Store!Accounted
<1>9. s8' = 0 => \A k \in Process : \A e \in s5'[k] : ~e.keep
  BY <1>1, <1>4, <1>6 DEF Store!Accounted
<1>10. \E paths \in SUBSET Store!Paths : Store!Spares(paths)' /\ (Store!Fitting(paths)' \/ Store!Reduces(paths)')
  BY <1>5, <1>7
<1>. QED  BY <1>8, <1>9, <1>10 DEF Store!Accounted

\* A sweep that finds nothing more to remove has made the entries it found fit.
LEMMA NothingToRemove ==
  ASSUME Store!Inv, Store!Accounted, s8 = 0, NEW j \in Process, Store!Victims(s5[j]) = {}
  PROVE  Store!Total(Store!PathsOf(s5[j])) <= MaxBytes
<1> DEFINE entries == s5[j]
<1>1. entries \subseteq [path : Store!Paths, mtime : 0..StoreTime, keep : BOOLEAN] /\ \A e \in entries : ~e.keep
  BY StoreTypes DEF Store!Accounted
<1>2. CASE entries = {}
  <2>1. Store!PathsOf(entries) = {}
    BY <1>2 DEF Store!PathsOf
  <2>2. Store!Total({}) = 0
    BY StoreTotal, SumUnfolds
  <2>. QED  BY <2>1, <2>2, StoreAssumption
<1>3. CASE entries # {} /\ ~(Store!Total(Store!PathsOf(entries)) <= MaxBytes)
  <2> DEFINE times == {e.mtime : e \in entries}
  <2>1. times \subseteq Nat /\ times # {}
    BY <1>1, <1>3
  <2>2. PICK t \in times : \A u \in times : t <= u
    <3> HIDE DEF times
    <3>. QED  BY <2>1, LeastOf
  <2> DEFINE paths == {e.path : e \in {d \in entries : d.mtime = t}}
  <2>3. paths \subseteq Nat /\ paths # {}
    <3>1. PICK d \in entries : d.mtime = t
      OBVIOUS
    <3>2. d.path \in paths
      BY <3>1
    <3>3. \A e \in entries : e.path \in Nat
      BY <1>1 DEF Store!Paths
    <3>. QED  BY <3>2, <3>3
  <2>4. PICK p \in paths : \A r \in paths : p <= r
    <3> HIDE DEF paths
    <3>. QED  BY <2>3, LeastOf
  <2>5. PICK e \in entries : e.mtime = t /\ e.path = p
    OBVIOUS
  <2>6. ASSUME NEW d \in entries PROVE Store!Older(e, d)
    <3>1. e.mtime \in Nat /\ d.mtime \in Nat /\ e.mtime <= d.mtime
      BY <1>1, <2>2, <2>5
    <3>2. CASE d.mtime = e.mtime
      <4>1. d.path \in paths
        BY <2>5, <3>2
      <4>. QED  BY <2>4, <2>5, <3>2, <4>1 DEF Store!Older
    <3>3. CASE d.mtime # e.mtime
      BY <3>1, <3>3 DEF Store!Older
    <3>. QED  BY <3>2, <3>3
  <2>7. {x \in entries : ~x.keep} = entries
    BY <1>1
  <2> HIDE DEF entries
  <2>8. Store!Victims(entries) # {}
    BY <1>3, <2>6, <2>7 DEF Store!Victims
  <2>. QED  BY <2>8 DEF entries
<1>. QED  BY <1>2, <1>3

LEMMA SweptAccounted ==
  ASSUME Store!Inv, Store!Accounted, NEW j \in Process, Store!Swept(j)
  PROVE  Store!Accounted'
<1>1. /\ UNCHANGED <<s1, s4, s8, s9>> /\ s10' = TRUE /\ s5' = [s5 EXCEPT ![j] = {}] /\ Store!Victims(s5[j]) = {}
      /\ step[j] = "evict" /\ \E place \in {"idle", "conclude"} : Store!Goto(j, place)
  BY DEF Store!Swept, Store!Enough
<1>2. /\ s5'[j] = {} /\ step'[j] \in {"idle", "conclude"}
      /\ \A k \in Process \ {j} : s5'[k] = s5[k] /\ step'[k] = step[k]
  BY <1>1, StoreGoes, StoreTypes
<1>3. s9' => \E k \in Process : step'[k] = "dead"
  BY <1>1, <1>2 DEF Store!Accounted
<1>4. s8' = 0 => \A k \in Process : \A e \in s5'[k] : ~e.keep
  BY <1>1, <1>2 DEF Store!Accounted
<1>5. ASSUME ~s9, s8 = 0
      PROVE  \E paths \in SUBSET Store!Paths :
               Store!Spares(paths)' /\ (Store!Fitting(paths)' \/ Store!Reduces(paths)')
  <2>1. PICK paths \in SUBSET Store!Paths : Store!Spares(paths) /\ (Store!Fitting(paths) \/ Store!Reduces(paths))
    BY <1>1, <1>5 DEF Store!Accounted
  <2>2. Store!Spares(paths)'
    BY <1>1, <1>2, <2>1, PromiseKept
  <2>3. Store!Fitting(paths) => Store!Fitting(paths)'
    BY <1>1 DEF Store!Fitting
  <2>4. ASSUME NEW k \in Process, step[k] = "evict", paths = Store!PathsOf(s5[k])
        PROVE  Store!Fitting(paths)' \/ Store!Reduces(paths)'
    <3>1. CASE k = j
      <4>1. Store!Total(paths) <= MaxBytes
        BY <1>1, <1>5, <2>4, <3>1, NothingToRemove
      <4>. QED  BY <1>1, <4>1 DEF Store!Fitting
    <3>2. CASE k # j
      <4>1. step'[k] = "evict" /\ s5'[k] = s5[k]
        BY <1>2, <2>4, <3>2
      <4>. QED  BY <2>4, <4>1 DEF Store!Reduces, Store!PathsOf
    <3>. QED  BY <3>1, <3>2
  <2>5. Store!Fitting(paths)' \/ Store!Reduces(paths)'
    BY <2>1, <2>3, <2>4 DEF Store!Reduces
  <2>. QED  BY <2>2, <2>5
<1>. QED  BY <1>1, <1>3, <1>4, <1>5 DEF Store!Accounted

\* Whoever publishes an entry is yet to sweep.
LEMMA LinkAccounted ==
  ASSUME Store!Inv, Store!Accounted, NEW j \in Process, Store!Link(j)
  PROVE  Store!Accounted'
<1>1. /\ UNCHANGED <<s4, s5, s8, s9, s10>> /\ step[j] = "link"
      /\ \E place \in {"verify", "idle"} : Store!Goto(j, place)
  BY DEF Store!Link, Store!End
<1>2. /\ step'[j] \in {"verify", "idle"} /\ \A k \in Process \ {j} : step'[k] = step[k]
      /\ \A k \in Process : step'[k] = "evict" <=> step[k] = "evict"
      /\ \A k \in Process : step[k] \in {"verify", "clean", "scan", "dead"} => step'[k] = step[k]
  BY <1>1, StoreGoes
<1>3. \/ s1' = s1
      \/ /\ step'[j] = "verify" /\ s4[j] \in Store!Paths
         /\ s1'[s4[j]].text = "whole"
         /\ \A p \in Store!Paths \ {s4[j]} : s1'[p] = s1[p]
  <2> SUFFICES ASSUME s1' # s1
               PROVE  /\ step'[j] = "verify" /\ s4[j] \in Store!Paths
                      /\ s1'[s4[j]].text = "whole"
                      /\ \A p \in Store!Paths \ {s4[j]} : s1'[p] = s1[p]
    OBVIOUS
  <2>1. /\ s2[j] # None /\ s1' = [s1 EXCEPT ![s4[j]] = [text |-> "whole", mtime |-> s2[j]]] /\ Store!Goto(j, "verify")
    BY DEF Store!Link
  <2>2. s4[j] \in Store!Paths
    BY StoreTypes
  <2>4. step'[j] = "verify"
    BY <2>1, StoreGoes
  <2>. QED  BY <2>1, <2>2, <2>4, StoreTypes
<1>4. s9' => \E k \in Process : step'[k] = "dead"
  BY <1>1, <1>2 DEF Store!Accounted
<1>5. s8' = 0 => \A k \in Process : \A e \in s5'[k] : ~e.keep
  BY <1>1 DEF Store!Accounted
<1>6. ASSUME ~s9, s8 = 0, s10 \/ \E k \in Process : step[k] = "evict"
      PROVE  \E paths \in SUBSET Store!Paths :
               Store!Spares(paths)' /\ (Store!Fitting(paths)' \/ Store!Reduces(paths)')
  <2>1. PICK paths \in SUBSET Store!Paths : Store!Spares(paths) /\ (Store!Fitting(paths) \/ Store!Reduces(paths))
    BY <1>6 DEF Store!Accounted
  <2>2. Store!Spares(paths)'
    <3>1. s1' # s1 /\ Store!Owned(s4[j])' => Store!Promised(s4[j])'
      BY <1>1, <1>2, <1>3 DEF Store!Promised, Store!Good, Store!Owned
    <3>. QED  BY <1>1, <1>2, <1>3, <2>1, <3>1, PromiseKept
  <2>3. Store!Fitting(paths)' \/ Store!Reduces(paths)'
    BY <1>1, <1>2, <2>1 DEF Store!Fitting, Store!Reduces
  <2>. QED  BY <2>2, <2>3
<1>. QED  BY <1>1, <1>2, <1>4, <1>5, <1>6 DEF Store!Accounted

\* A sweep that removes an entry has it no longer among those it reduces.
LEMMA EvictAccounted ==
  ASSUME Store!Inv, Store!Accounted, NEW j \in Process, Store!Evict(j)
  PROVE  Store!Accounted'
<1>1. UNCHANGED <<s4, step, s9, s10>> /\ step[j] = "evict"
  BY DEF Store!Evict
<1>2. s9' => \E k \in Process : step'[k] = "dead"
  BY <1>1 DEF Store!Accounted
<1>3. CASE s8' # 0
  BY <1>2, <1>3 DEF Store!Accounted
<1>4. CASE s8' = 0
  <2>1. PICK e \in Store!Victims(s5[j]) :
          s1' = [s1 EXCEPT ![e.path] = None] /\ s5' = [s5 EXCEPT ![j] = s5[j] \ {e}] /\ s8' = s8
    BY <1>4, StoreTypes DEF Store!Evict, Store!Fault
  <2>2. e \in s5[j] /\ e.path \in Store!Paths
    BY StoreTypes DEF Store!Victims
  <2>3. s1'[e.path] = None /\ \A p \in Store!Paths \ {e.path} : s1'[p] = s1[p]
    BY <2>1, <2>2, StoreTypes
  <2>4. s5'[j] = s5[j] \ {e} /\ \A k \in Process \ {j} : s5'[k] = s5[k]
    BY <2>1, StoreTypes
  <2>5. \A k \in Process : \A d \in s5'[k] : ~d.keep
    BY <1>4, <2>1, <2>4 DEF Store!Accounted
  <2>6. ASSUME ~s9
        PROVE  \E paths \in SUBSET Store!Paths :
                 Store!Spares(paths)' /\ (Store!Fitting(paths)' \/ Store!Reduces(paths)')
    <3>1. PICK paths \in SUBSET Store!Paths : Store!Spares(paths) /\ (Store!Fitting(paths) \/ Store!Reduces(paths))
      BY <1>1, <1>4, <2>1, <2>6 DEF Store!Accounted
    <3>2. ASSUME NEW fewer \in SUBSET Store!Paths, paths \ {e.path} \subseteq fewer PROVE Store!Spares(fewer)'
      BY <1>1, <2>3, <3>1, <3>2 DEF Store!Spares, Store!Owned, Store!Promised, Store!Good
    <3>3. Store!Spares(paths)'
      BY <3>2
    <3>4. CASE Store!Fitting(paths)
      <4>1. Store!Fitting(paths)'
        BY <1>1, <3>4 DEF Store!Fitting
      <4>. QED  BY <3>3, <4>1
    <3>5. ASSUME NEW k \in Process, step[k] = "evict", paths = Store!PathsOf(s5[k])
          PROVE  \E fewer \in SUBSET Store!Paths : Store!Spares(fewer)' /\ Store!Reduces(fewer)'
      <4>1. CASE k = j
        <5>1. PICK fewer : fewer = Store!PathsOf(s5[j])'
          OBVIOUS
        <5>2. fewer \in SUBSET Store!Paths /\ paths \ {e.path} \subseteq fewer
          BY <2>4, <3>5, <4>1, <5>1, StoreTypes DEF Store!PathsOf
        <5>3. Store!Reduces(fewer)'
          BY <1>1, <5>1 DEF Store!Reduces
        <5>. QED  BY <3>2, <5>2, <5>3
      <4>2. CASE k # j
        <5>1. step'[k] = "evict" /\ s5'[k] = s5[k]
          BY <1>1, <2>4, <3>5, <4>2
        <5>2. Store!Reduces(paths)'
          BY <3>5, <5>1 DEF Store!Reduces, Store!PathsOf
        <5>. QED  BY <3>3, <5>2
      <4>. QED  BY <4>1, <4>2
    <3>. QED  BY <3>1, <3>4, <3>5 DEF Store!Reduces
  <2>. QED  BY <1>1, <1>2, <2>5, <2>6 DEF Store!Accounted
<1>. QED  BY <1>3, <1>4

LEMMA ExpireAccounted ==
  ASSUME Store!Inv, Store!Accounted, NEW j \in Process, Store!Expire(j)
  PROVE  Store!Accounted'
<1>1. /\ UNCHANGED <<s4, s5, s8, s9, s10>> /\ step[j] = "expire" /\ Store!Goto(j, "idle")
      /\ s1' = [s1 EXCEPT ![s4[j]] = None]
  BY DEF Store!Expire, Store!End
<1>2. step'[j] = "idle" /\ \A k \in Process \ {j} : step'[k] = step[k]
  BY <1>1, StoreGoes
<1>3. \A k \in Process : step[k] \in {"verify", "clean", "scan", "evict", "dead"} => step'[k] = step[k]
  BY <1>1, <1>2
<1>4. s4[j] \in Store!Paths /\ s1'[s4[j]] = None /\ \A p \in Store!Paths \ {s4[j]} : s1'[p] = s1[p]
  BY <1>1, StoreTypes
<1>5. s9' => \E k \in Process : step'[k] = "dead"
  BY <1>1, <1>3 DEF Store!Accounted
<1>6. s8' = 0 => \A k \in Process : \A e \in s5'[k] : ~e.keep
  BY <1>1 DEF Store!Accounted
<1>7. ASSUME ~s9, s8 = 0, s10 \/ \E k \in Process : step'[k] = "evict"
      PROVE  \E paths \in SUBSET Store!Paths :
               Store!Spares(paths)' /\ (Store!Fitting(paths)' \/ Store!Reduces(paths)')
  <2>1. s10 \/ \E k \in Process : step[k] = "evict"
    BY <1>2, <1>7
  <2>2. PICK paths \in SUBSET Store!Paths : Store!Spares(paths) /\ (Store!Fitting(paths) \/ Store!Reduces(paths))
    BY <1>7, <2>1 DEF Store!Accounted
  <2>3. Store!Spares(paths)'
    <3>1. ASSUME NEW p \in Store!Paths, Store!Owned(p)', p \notin paths PROVE Store!Promised(p)'
      <4>1. p # s4[j] /\ s1'[p] = s1[p]
        BY <1>4, <3>1 DEF Store!Owned
      <4>2. PICK k \in Process : s4[k] = p /\ step[k] \in {"verify", "clean", "scan"} /\ Store!Good(p)
        BY <2>2, <3>1, <4>1 DEF Store!Spares, Store!Owned, Store!Promised
      <4>3. s4'[k] = p /\ step'[k] \in {"verify", "clean", "scan"}
        BY <1>1, <1>3, <4>2
      <4>. QED  BY <4>1, <4>2, <4>3 DEF Store!Promised, Store!Good, Store!Owned
    <3>. QED  BY <3>1 DEF Store!Spares
  <2>4. Store!Fitting(paths)' \/ Store!Reduces(paths)'
    BY <1>1, <1>3, <2>2 DEF Store!Fitting, Store!Reduces
  <2>. QED  BY <2>3, <2>4
<1>. QED  BY <1>1, <1>5, <1>6, <1>7 DEF Store!Accounted

LEMMA DieAccounted ==
  ASSUME Store!Inv, Store!Accounted, NEW j \in Process, Store!Die(j)
  PROVE  Store!Accounted'
<1>1. s9' = TRUE /\ s8' = s8 /\ Store!Goto(j, "dead") /\ s5' = [s5 EXCEPT ![j] = {}]
  BY DEF Store!Die
<1>2. step'[j] = "dead"
  BY <1>1, StoreGoes
<1>3. \A k \in Process : s5'[k] \subseteq s5[k]
  BY <1>1, StoreTypes
<1>. QED  BY <1>1, <1>2, <1>3 DEF Store!Accounted

LEMMA AccountedKept == ASSUME Store!Inv, Store!Accounted, Store!Next PROVE Store!Accounted'
<1>1. CASE Store!Tick
  BY <1>1, QuietAccounted DEF Store!Tick
<1>2. ASSUME NEW j \in Process,
             Store!Store(j) \/ Store!Lookup(j) \/ Store!Sweep(j) \/ \E p \in Store!Pages : Store!Begin(j, p)
      PROVE  Store!Accounted'
  BY <1>2, LooksAccounted, ScanAccounted, SweptAccounted, LinkAccounted, EvictAccounted, ExpireAccounted
     DEF Store!Store, Store!Lookup
<1>. QED  BY <1>1, <1>2, DieAccounted DEF Store!Next

\* Nobody is at work: nothing is promised, nothing is still reduced.
LEMMA AccountedBounds == ASSUME Store!Inv, Store!Accounted PROVE Store!StoreBounded
<1> SUFFICES ASSUME \A j \in Process : step[j] = "idle", s10, s8 = 0
             PROVE  Store!Total({p \in Store!Paths : Store!Owned(p)}) <= MaxBytes
  BY DEF Store!StoreBounded
<1> DEFINE owned == {p \in Store!Paths : Store!Owned(p)}
<1>1. ~s9
  BY DEF Store!Accounted
<1>2. PICK paths \in SUBSET Store!Paths : Store!Spares(paths) /\ (Store!Fitting(paths) \/ Store!Reduces(paths))
  BY <1>1 DEF Store!Accounted
<1>3. owned \in SUBSET paths
  BY <1>2 DEF Store!Spares, Store!Promised
<1>4. Store!Total(paths) <= MaxBytes
  BY <1>2 DEF Store!Fitting, Store!Reduces
<1> HIDE DEF owned
<1>5. IsFiniteSet(paths) /\ \A p \in paths : Size[p] \in Nat
  BY StoreTotal, FS_Subset
<1>6. SumOf(Size, owned) <= SumOf(Size, paths) /\ SumOf(Size, owned) \in Nat /\ SumOf(Size, paths) \in Nat
  BY <1>3, <1>5, SumMonotonic, SumType, FS_Subset
<1>7. Store!Total(owned) <= MaxBytes
  BY <1>4, <1>6, StoreTotal, StoreAssumption
<1>. QED  BY <1>7 DEF owned

-----------------------------------------------------------------------------
(***************************************************************************)
(* LegacySearch                                                            *)
(***************************************************************************)
\* What the component takes from the community modules and from Selection.
LEMMA LegacyPicks ==
  /\ \A seq, S : Legacy!Among(seq, S) = Among(seq, S)
  /\ \A seq, I : Legacy!At(seq, I) = At(seq, I)
  /\ \A seqs : Legacy!Joined(seqs) = Joined(seqs)
  /\ \A f : Legacy!Range(f) = Range(f)
<1>1. \A seq, S : Legacy!Among(seq, S) = Among(seq, S)
  BY DEF Legacy!Among, Legacy!MapThenFoldSet, Among, MapThenFoldSet
<1>2. \A seq, I : Legacy!At(seq, I) = At(seq, I)
  BY <1>1 DEF Legacy!At, At, Legacy!Places, Places
<1>3. \A seqs : Legacy!Joined(seqs) = Joined(seqs)
  BY DEF Legacy!Joined, Joined
<1>4. \A f : Legacy!Range(f) = Range(f)
  BY DEF Legacy!Range, Range
<1>. QED  BY <1>1, <1>2, <1>3, <1>4

LEMMA LegacyMin ==
  ASSUME NEW m \in Nat, NEW n \in Nat
  PROVE  Legacy!Min({m, n}) \in Nat /\ Legacy!Min({m, n}) <= m /\ Legacy!Min({m, n}) <= n
<1>1. \E x \in {m, n} : \A y \in {m, n} : x <= y
  OBVIOUS
<1>. QED  BY <1>1 DEF Legacy!Min

\* The providers of a request are a list, the eligible ones are among them, and whoever is
\* not is in cooldown.
LEMMA LegacyOrder ==
  ASSUME NEW a
  PROVE  /\ Legacy!Order(a) \in Seq(Range(Legacy!Order(a))) /\ Legacy!Order(a) # <<>>
         /\ Legacy!Strict(a) => Range(Legacy!Order(a)) = {a.provider}
<1> DEFINE rest == Among(Priority, Configured \ {Legacy!Chosen(a)})
           c == Legacy!Chosen(a)
<1>1. Legacy!Order(a) = IF Legacy!Strict(a) THEN <<c>> ELSE <<c>> \o rest
  BY LegacyPicks DEF Legacy!Order
<1>2. rest \in Seq(Range(Priority))
  BY LegacyAssumption, LegacyPicks, AmongKeeps DEF Legacy!Provider
<1> DEFINE all == Range(Priority) \cup {c}
<1> HIDE DEF rest, c
<1>3. <<c>> \in Seq(all) /\ rest \in Seq(all)
  BY <1>2
<1>4. <<c>> \o rest \in Seq(all) /\ <<c>> \o rest # <<>> /\ <<c>> # <<>>
  BY <1>3
<1>5. Legacy!Order(a) \in Seq(all) /\ Legacy!Order(a) # <<>>
  BY <1>1, <1>3, <1>4
<1>6. Legacy!Order(a) \in Seq(Range(Legacy!Order(a)))
  BY <1>5 DEF Range
<1>7. ASSUME Legacy!Strict(a) PROVE Range(Legacy!Order(a)) = {a.provider}
  BY <1>1, <1>7 DEF Range, c, Legacy!Chosen, Legacy!Strict
<1>. QED  BY <1>5, <1>6, <1>7

LEMMA LegacyEligible ==
  ASSUME NEW order, order \in Seq(Range(order)), order # <<>>
  PROVE  LET cold == {p \in Range(order) : Legacy!InCooldown(p)} IN
         /\ Legacy!Eligible(order) \in Seq(Range(order)) /\ Legacy!Eligible(order) # <<>>
         /\ Range(order) \subseteq Range(Legacy!Eligible(order)) \cup cold
<1> DEFINE S == {p \in Range(order) : ~Legacy!InCooldown(p)}
           warm == Among(order, S)
           cold == {p \in Range(order) : Legacy!InCooldown(p)}
<1>1. Legacy!Eligible(order) = IF warm = <<>> THEN SubSeq(order, 1, 1) ELSE warm
  BY LegacyPicks DEF Legacy!Eligible
<1>2. /\ warm \in Seq(Range(order)) /\ \A x : x \in Range(warm) <=> x \in Range(order) /\ x \in S
      /\ warm = <<>> <=> \A x \in Range(order) : x \notin S
  <2> DEFINE T == Range(order)
  <2>1. order \in Seq(T)
    OBVIOUS
  <2> HIDE DEF T, S
  <2>2. /\ Among(order, S) \in Seq(T)
        /\ \A x : x \in Range(Among(order, S)) <=> x \in Range(order) /\ x \in S
        /\ Among(order, S) = <<>> <=> \A x \in Range(order) : x \notin S
    BY <2>1, AmongKeeps
  <2>. QED  BY <2>2 DEF T
<1>3. SubSeq(order, 1, 1) = <<order[1]>> /\ order[1] \in Range(order)
  <2> DEFINE T == Range(order)
  <2>1. order \in Seq(T)
    OBVIOUS
  <2> HIDE DEF T
  <2>2. Len(order) \in Nat /\ Len(order) >= 1 /\ order[1] \in T
    BY <2>1
  <2>3. SubSeq(order, 1, 1) \in Seq(T) /\ Len(SubSeq(order, 1, 1)) = 1 /\ SubSeq(order, 1, 1)[1] = order[1]
    BY <2>1, <2>2, SubSeqProperties
  <2>4. SubSeq(order, 1, 1) = <<order[1]>>
    <3> DEFINE u == SubSeq(order, 1, 1)
               one == <<order[1]>>
    <3>1. one \in Seq(T) /\ Len(one) = 1 /\ one[1] = order[1]
      BY <2>2
    <3> HIDE DEF u, one
    <3>2. u \in Seq(T) /\ Len(u) = Len(one) /\ \A i \in 1..Len(u) : u[i] = one[i]
      BY <2>3, <3>1 DEF u
    <3>3. u = one
      BY <3>1, <3>2, SeqEqual
    <3>. QED  BY <3>3 DEF u, one
  <2>. QED  BY <2>2, <2>4 DEF T
<1> HIDE DEF warm
<1>4. CASE warm = <<>>
  <2>1. Legacy!Eligible(order) = <<order[1]>>
    BY <1>1, <1>3, <1>4
  <2>2. cold = Range(order)
    BY <1>2, <1>4
  <2>3. <<order[1]>> \in Seq(Range(order)) /\ <<order[1]>> # <<>>
    BY <1>3
  <2>. QED  BY <2>1, <2>2, <2>3
<1>5. CASE warm # <<>>
  BY <1>1, <1>2, <1>5
<1>. QED  BY <1>4, <1>5

LEMMA LegacyStarts == Legacy!Init => Legacy!LegacyInv
<1> SUFFICES ASSUME Legacy!Init PROVE Legacy!LegacyInv
  OBVIOUS
<1>1. ASSUME NEW r \in Searches PROVE Legacy!Sound(r)
  BY DEF Legacy!Init, Legacy!Sound, Legacy!Gathered
<1>. QED  BY <1>1 DEF Legacy!Init, Legacy!LegacyInv

\* The state of a request.
LegacyOf(r) == <<step[r], s3[r], s4[r], s5[r], s6[r], s7[r], s8[r]>>

LEMMA LegacyStill ==
  ASSUME NEW r \in Searches, Legacy!Sound(r), LegacyOf(r)' = LegacyOf(r)
  PROVE  Legacy!Sound(r)'
<1>1. /\ step'[r] = step[r] /\ s3'[r] = s3[r] /\ s4'[r] = s4[r] /\ s5'[r] = s5[r]
      /\ s6'[r] = s6[r] /\ s7'[r] = s7[r] /\ s8'[r] = s8[r]
  BY DEF LegacyOf
<1>2. Legacy!Tried(r)' = Legacy!Tried(r)
  BY <1>1 DEF Legacy!Tried
<1>3. Legacy!Gathered(r)' <=> Legacy!Gathered(r)
  BY <1>1 DEF Legacy!Gathered
<1>4. Legacy!AskedOK(r)' <=> Legacy!AskedOK(r)
  BY <1>1, <1>2 DEF Legacy!AskedOK
<1>5. Legacy!AnswerTrue(r)' <=> Legacy!AnswerTrue(r)
  BY <1>1, <1>2 DEF Legacy!AnswerTrue
<1>. QED  BY <1>1, <1>3, <1>4, <1>5 DEF Legacy!Sound

\* A step of one request.
LegacyShaped ==
  /\ DOMAIN step = Searches /\ DOMAIN s3 = Searches /\ DOMAIN s4 = Searches /\ DOMAIN s5 = Searches
  /\ DOMAIN s6 = Searches /\ DOMAIN s7 = Searches /\ DOMAIN s8 = Searches

LEMMA LegacyOne ==
  ASSUME Legacy!LegacyInv, NEW r \in Searches, LegacyShaped', clock' = clock,
         \A o \in Searches : o # r => LegacyOf(o)' = LegacyOf(o),
         Legacy!Sound(r)', \A e \in s2' : Legacy!EntryOK(e)
  PROVE  Legacy!LegacyInv'
<1>1. ASSUME NEW o \in Searches PROVE Legacy!Sound(o)'
  BY LegacyStill DEF Legacy!LegacyInv
<1>. QED  BY <1>1 DEF Legacy!LegacyInv, LegacyShaped

LEMMA LegacyShape ==
  ASSUME Legacy!LegacyInv, Legacy!Next
  PROVE  LegacyShaped'
BY ZenonT(40) DEF Legacy!LegacyInv, Legacy!Next, LegacyShaped, Legacy!Goto, Legacy!Submit, Legacy!Lookup, Legacy!Unlink,
       Legacy!Answered, Legacy!NotConfigured, Legacy!Fails, Legacy!Finish, Legacy!NextTurn, Legacy!Tick

\* A request whose step is one of the component leaves the others alone.
LegacyStep(r) ==
  \/ Legacy!Submit(r) \/ Legacy!Lookup(r) \/ Legacy!Unlink(r) \/ Legacy!Answered(r)
  \/ Legacy!NotConfigured(r) \/ Legacy!Fails(r) \/ Legacy!Finish(r)

LEMMA LegacyOthers ==
  ASSUME Legacy!LegacyInv, NEW r \in Searches, LegacyStep(r)
  PROVE  clock' = clock /\ \A o \in Searches : o # r => LegacyOf(o)' = LegacyOf(o)
<1>1. clock' = clock
  BY DEF LegacyStep, Legacy!Submit, Legacy!Lookup, Legacy!Unlink,
       Legacy!Answered, Legacy!NotConfigured, Legacy!Fails, Legacy!Finish
<1>2. ASSUME NEW o \in Searches, o # r PROVE LegacyOf(o)' = LegacyOf(o)
  <2> DEFINE Same == /\ step'[o] = step[o] /\ s3'[o] = s3[o] /\ s4'[o] = s4[o] /\ s5'[o] = s5[o]
                     /\ s6'[o] = s6[o] /\ s7'[o] = s7[o] /\ s8'[o] = s8[o]
  <2>1. CASE Legacy!Submit(r)
    <3>1. Same
      BY <1>2, <2>1 DEF Legacy!Submit, Legacy!Goto, Legacy!LegacyInv
    <3>. QED  BY <3>1 DEF LegacyOf
  <2>2. CASE Legacy!Lookup(r) \/ Legacy!Unlink(r)
    <3>1. Same
      BY <1>2, <2>2 DEF Legacy!Lookup, Legacy!Unlink, Legacy!Goto, Legacy!LegacyInv
    <3>. QED  BY <3>1 DEF LegacyOf
  <2>3. CASE Legacy!Answered(r)
    <3>1. Same
      BY <1>2, <2>3 DEF Legacy!Answered, Legacy!NextTurn, Legacy!Goto, Legacy!LegacyInv
    <3>. QED  BY <3>1 DEF LegacyOf
  <2>4. CASE Legacy!NotConfigured(r) \/ Legacy!Fails(r)
    <3>1. Same
      BY <1>2, <2>4 DEF Legacy!NotConfigured, Legacy!Fails, Legacy!NextTurn, Legacy!Goto, Legacy!LegacyInv
    <3>. QED  BY <3>1 DEF LegacyOf
  <2>5. CASE Legacy!Finish(r)
    <3>1. Same
      BY <1>2, <2>5 DEF Legacy!Finish, Legacy!Goto, Legacy!LegacyInv
    <3>. QED  BY <3>1 DEF LegacyOf
  <2>. QED  BY <2>1, <2>2, <2>3, <2>4, <2>5 DEF LegacyStep
<1>. QED  BY <1>1, <1>2

LEMMA LegacySubmit ==
  ASSUME Legacy!LegacyInv, NEW r \in Searches, Legacy!Submit(r)
  PROVE  Legacy!Sound(r)' /\ s2' = s2
<1>1. PICK a \in Queries :
        /\ s3'[r] = a /\ s4'[r] = Legacy!Eligible(Legacy!Order(a))
        /\ s7'[r] = {p \in Legacy!Range(Legacy!Order(a)) : Legacy!InCooldown(p)}
        /\ step'[r] \in {"lookup", "try"}
  BY DEF Legacy!Submit, Legacy!LegacyInv, Legacy!Goto
<1>2. step[r] = "idle" /\ s5' = s5 /\ s6' = s6 /\ s2' = s2
  BY DEF Legacy!Submit
<1>3. s5[r] = <<>> /\ s6[r] = {}
  BY <1>2 DEF Legacy!LegacyInv, Legacy!Sound
<1> DEFINE order == Legacy!Order(a)
           cold == {p \in Range(order) : Legacy!InCooldown(p)}
<1>4. /\ Legacy!Eligible(order) \in Seq(Range(order))
      /\ Range(order) \subseteq Range(Legacy!Eligible(order)) \cup cold
  BY LegacyOrder, LegacyEligible
<1>5. s7'[r] = cold /\ s4'[r] = Legacy!Eligible(order)
  BY <1>1, LegacyPicks
<1>6. Legacy!Tried(r)' = {}
  BY <1>2, <1>3 DEF Legacy!Tried
<1> HIDE DEF cold
<1>7. Legacy!AskedOK(r)'
  <2>1. s3'[r] = a
    BY <1>1
  <2>. QED  BY <1>4, <1>5, <1>6, <2>1, LegacyPicks DEF Legacy!AskedOK
<1>8. Legacy!Gathered(r)'
  BY <1>2, <1>3 DEF Legacy!Gathered
<1>. QED  BY <1>1, <1>2, <1>3, <1>7, <1>8 DEF Legacy!Sound

LEMMA LegacyLookup ==
  ASSUME Legacy!LegacyInv, NEW r \in Searches, Legacy!Lookup(r)
  PROVE  Legacy!Sound(r)' /\ s2' = s2
<1>1. /\ step[r] = "lookup" /\ s2' = s2 /\ s3' = s3 /\ s4' = s4 /\ s5' = s5 /\ s6' = s6 /\ s7' = s7
      /\ s5[r] = <<>> /\ s6[r] = {}
  BY DEF Legacy!Lookup, Legacy!LegacyInv, Legacy!Sound
<1>2. Legacy!Sound(r)
  BY DEF Legacy!LegacyInv
<1>3. Legacy!AskedOK(r)' /\ Legacy!Gathered(r)' /\ Legacy!Tried(r)' = {}
  BY <1>1, <1>2 DEF Legacy!Sound, Legacy!AskedOK, Legacy!Gathered, Legacy!Tried
<1>4. CASE step'[r] \in {"unlink", "try"}
  BY <1>1, <1>2, <1>3, <1>4 DEF Legacy!Sound
<1>5. ASSUME step'[r] \notin {"unlink", "try"} PROVE step'[r] = "done" /\ Legacy!AnswerTrue(r)'
  <2>1. PICK e \in Legacy!Found(r) :
          /\ ~Legacy!Old(e)
          /\ s8' = [s8 EXCEPT ![r] = [items |-> e.items, provider |-> Legacy!Chosen(s3[r]), hit |-> TRUE,
                                      error |-> FALSE, age |-> clock - e.at]]
          /\ step'[r] = "done"
    BY <1>5 DEF Legacy!Lookup, Legacy!Goto, Legacy!LegacyInv
  <2>2. s8'[r].items = e.items /\ s8'[r].hit /\ ~s8'[r].error /\ s8'[r].age = clock - e.at
    BY <2>1 DEF Legacy!LegacyInv
  <2>3. e \in s2 /\ e.max = s3[r].max
    BY DEF Legacy!Found, Legacy!File
  <2>4. Legacy!EntryOK(e) /\ clock \in Nat
    BY <2>3 DEF Legacy!LegacyInv
  <2>5. clock - e.at <= LegacyTtl
    BY <2>1, <2>4, LegacyAssumption DEF Legacy!Old, Legacy!EntryOK
  <2>. QED  BY <1>1, <1>3, <2>1, <2>2, <2>3, <2>4, <2>5 DEF Legacy!AnswerTrue, Legacy!EntryOK
<1>. QED  BY <1>1, <1>2, <1>3, <1>4, <1>5 DEF Legacy!Sound

LEMMA LegacyUnlink ==
  ASSUME Legacy!LegacyInv, NEW r \in Searches, Legacy!Unlink(r)
  PROVE  Legacy!Sound(r)' /\ s2' \subseteq s2
<1>1. /\ step[r] = "unlink" /\ step'[r] = "try" /\ s2' \subseteq s2
      /\ s3' = s3 /\ s4' = s4 /\ s5' = s5 /\ s6' = s6 /\ s7' = s7
  BY DEF Legacy!Unlink, Legacy!LegacyInv, Legacy!Goto
<1>2. Legacy!Sound(r)
  BY DEF Legacy!LegacyInv
<1>. QED  BY <1>1, <1>2 DEF Legacy!Sound, Legacy!AskedOK, Legacy!Gathered, Legacy!Tried

\* The provider whose turn it is is tried, and is no longer eligible.
LEMMA LegacyTurn ==
  ASSUME Legacy!LegacyInv, NEW r \in Searches, Legacy!Turn(r), NEW enough, Legacy!NextTurn(r, enough),
         s3' = s3, s7' = s7, Legacy!Tried(r)' = Legacy!Tried(r) \cup {Head(s4[r])}
  PROVE  /\ Legacy!AskedOK(r)' /\ s3'[r] \in Queries /\ step'[r] \in {"try", "finish"}
         /\ step'[r] = "finish" /\ ~enough => s4'[r] = <<>>
<1> DEFINE all == Range(Legacy!Order(s3[r]))
           left == s4[r]
<1>1. /\ step[r] = "try" /\ left # <<>> /\ s4'[r] = Tail(left)
      /\ step'[r] = IF enough \/ Len(left) = 1 THEN "finish" ELSE "try"
  BY DEF Legacy!Turn, Legacy!NextTurn, Legacy!LegacyInv, Legacy!Goto
<1>2. Legacy!AskedOK(r) /\ s3[r] \in Queries
  BY <1>1 DEF Legacy!LegacyInv, Legacy!Sound
<1>3. /\ left \in Seq(all) /\ Legacy!Tried(r) \subseteq all
      /\ all \subseteq Legacy!Tried(r) \cup Range(left) \cup s7[r]
  BY <1>2, LegacyPicks DEF Legacy!AskedOK
<1> HIDE DEF all, left
<1>4. Head(left) \in Range(left) /\ Range(left) \subseteq Range(Tail(left)) \cup {Head(left)} /\ Tail(left) \in Seq(all)
  <2>1. Len(left) \in Nat /\ DOMAIN left = 1..Len(left) /\ Len(left) >= 1
    BY <1>1, <1>3
  <2>2. Tail(left) \in Seq(all) /\ Len(Tail(left)) = Len(left) - 1
        /\ \A i \in 1..Len(Tail(left)) : Tail(left)[i] = left[i + 1]
    BY <1>1, <1>3, HeadTailProperties
  <2>3. Head(left) = left[1]
    BY <1>1, <1>3
  <2>4. ASSUME NEW i \in DOMAIN left PROVE left[i] \in Range(Tail(left)) \cup {Head(left)}
    <3>1. i = 1 \/ (i - 1 \in 1..Len(Tail(left)) /\ left[i] = Tail(left)[i - 1])
      BY <2>1, <2>2
    <3>2. DOMAIN Tail(left) = 1..Len(Tail(left))
      BY <2>2
    <3>. QED  BY <2>3, <3>1, <3>2 DEF Range
  <2>5. 1 \in DOMAIN left
    BY <2>1
  <2>. QED  BY <2>2, <2>3, <2>4, <2>5 DEF Range
<1>5. Len(left) = 1 => Tail(left) = <<>>
  BY <1>1, <1>3
<1>6. Range(left) \subseteq all
  BY <1>3 DEF Range
<1>7. Legacy!Tried(r)' = Legacy!Tried(r) \cup {Head(left)}
  BY DEF left
<1>8. Legacy!AskedOK(r)'
  <2>1. /\ s4'[r] \in Seq(all) /\ Legacy!Tried(r)' \subseteq all
        /\ all \subseteq Legacy!Tried(r)' \cup Range(s4'[r]) \cup s7'[r]
    BY <1>1, <1>3, <1>4, <1>6, <1>7
  <2>2. s3'[r] = s3[r]
    OBVIOUS
  <2>. QED  BY <2>1, <2>2, LegacyPicks DEF Legacy!AskedOK, all
<1>. QED  BY <1>1, <1>2, <1>5, <1>8

\* What a provider answers is in its own name.
LEMMA LegacyPages ==
  ASSUME NEW p \in Configured, NEW pages \in AnswerPages(p)
  PROVE  LET items == [i \in DOMAIN pages |-> [page |-> pages[i], by |-> p]]
         IN items \in Seq({it \in Range(items) : it.by = p})
<1> DEFINE items == [i \in DOMAIN pages |-> [page |-> pages[i], by |-> p]]
           S == {it \in Range(items) : it.by = p}
<1>1. pages \in Seq(Legacy!Range(pages))
  BY LegacyAssumption
<1>2. Len(pages) \in Nat /\ DOMAIN pages = 1..Len(pages)
  BY <1>1
<1>3. \A i \in 1..Len(pages) : items[i] \in S
  BY <1>2 DEF Range
<1>4. items = [i \in 1..Len(pages) |-> items[i]]
  BY <1>2
<1> HIDE DEF items, S
<1>5. items \in Seq(S)
  BY <1>2, <1>3, <1>4
<1>. QED  BY <1>5 DEF items, S

LEMMA LegacyHad ==
  ASSUME NEW r \in Searches, Legacy!Gathered(r)
  PROVE  /\ s5[r] \in Seq(Range(s5[r])) /\ DOMAIN s5[r] = 1..Len(s5[r]) /\ Len(s5[r]) \in Nat
         /\ \A i \in DOMAIN s5[r] : s5[r][i].items \in Seq({it \in Range(s5[r][i].items) : it.by = s5[r][i].by})
<1>1. s5[r] \in Seq(Range(s5[r]))
  BY LegacyPicks DEF Legacy!Gathered
<1>2. DOMAIN s5[r] = 1..Len(s5[r]) /\ Len(s5[r]) \in Nat
  <2> DEFINE T == Range(s5[r])
             had == s5[r]
  <2>1. had \in Seq(T)
    BY <1>1
  <2> HIDE DEF T, had
  <2>2. DOMAIN had = 1..Len(had) /\ Len(had) \in Nat
    BY <2>1
  <2>. QED  BY <2>2 DEF had
<1>3. ASSUME NEW i \in DOMAIN s5[r]
      PROVE  s5[r][i].items \in Seq({it \in Range(s5[r][i].items) : it.by = s5[r][i].by})
  BY <1>3, LegacyPicks DEF Legacy!Gathered
<1>. QED  BY <1>1, <1>2, <1>3

LEMMA LegacyAnswered ==
  ASSUME Legacy!LegacyInv, NEW r \in Searches, Legacy!Answered(r)
  PROVE  Legacy!Sound(r)' /\ s2' = s2
<1> DEFINE p == Head(s4[r])
<1>1. /\ Legacy!Turn(r) /\ p \in Configured /\ step[r] = "try"
      /\ s2' = s2 /\ s3' = s3 /\ s6' = s6 /\ s7' = s7
  BY DEF Legacy!Answered, Legacy!Turn
<1>2. Legacy!Gathered(r) /\ s3[r] \in Queries
  BY <1>1 DEF Legacy!LegacyInv, Legacy!Sound
<1>3. PICK pages \in AnswerPages(p) :
        LET items == [i \in DOMAIN pages |-> [page |-> pages[i], by |-> p]]
        IN /\ s5' = [s5 EXCEPT ![r] = Append(@, [by |-> p, items |-> items])]
           /\ Legacy!NextTurn(r, Legacy!Enough(r, items))
  BY DEF Legacy!Answered
<1> DEFINE items == [i \in DOMAIN pages |-> [page |-> pages[i], by |-> p]]
           one == [by |-> p, items |-> items]
           had == s5[r]
<1>4. items \in Seq({it \in Range(items) : it.by = p})
  BY <1>1, LegacyPages
<1>5. s5'[r] = Append(had, one) /\ \E enough : Legacy!NextTurn(r, enough)
  BY <1>3 DEF Legacy!LegacyInv
<1> HIDE DEF items
<1>6. one.by = p /\ one.items = items
  OBVIOUS
<1> HIDE DEF one
<1>7. /\ DOMAIN had = 1..Len(had) /\ Len(had) \in Nat /\ had \in Seq(Range(had))
      /\ \A i \in DOMAIN had : had[i].items \in Seq({it \in Range(had[i].items) : it.by = had[i].by})
  BY <1>2, LegacyHad
<1>8. /\ DOMAIN s5'[r] = 1..Len(s5'[r]) /\ Len(s5'[r]) = Len(had) + 1
      /\ \A i \in DOMAIN had : s5'[r][i] = had[i]
      /\ s5'[r][Len(had) + 1] = one
  <2>1. had = [i \in 1..Len(had) |-> had[i]]
    BY <1>7
  <2> DEFINE T == Range(had) \cup {one}
  <2>2. had \in Seq(T) /\ one \in T
    BY <1>7, <2>1 DEF Range
  <2> HIDE DEF T, had
  <2>3. Append(had, one) \in Seq(T) /\ Len(Append(had, one)) = Len(had) + 1 /\ Append(had, one)[Len(had) + 1] = one
        /\ \A i \in 1..Len(had) : Append(had, one)[i] = had[i]
    BY <2>2
  <2>. QED  BY <1>5, <1>7, <2>3
<1>9. Legacy!Tried(r)' = Legacy!Tried(r) \cup {p}
  <2>1. {s5'[r][i].by : i \in DOMAIN s5'[r]} = {had[i].by : i \in DOMAIN had} \cup {p}
    <3>1. DOMAIN s5'[r] = DOMAIN had \cup {Len(had) + 1} /\ Len(had) + 1 \notin DOMAIN had
      BY <1>7, <1>8
    <3>. QED  BY <1>6, <1>8, <3>1
  <2>. QED  BY <1>1, <2>1 DEF Legacy!Tried
<1>10. Legacy!AskedOK(r)' /\ s3'[r] \in Queries /\ step'[r] \in {"try", "finish"}
  BY <1>1, <1>5, <1>9, LegacyTurn
<1>11. Legacy!Gathered(r)'
  <2>1. ASSUME NEW i \in DOMAIN s5'[r]
        PROVE  s5'[r][i].items \in Seq({it \in Range(s5'[r][i].items) : it.by = s5'[r][i].by})
    <3>1. CASE i = Len(had) + 1
      BY <1>4, <1>6, <1>8, <3>1
    <3>2. CASE i # Len(had) + 1
      <4>1. i \in DOMAIN had
        BY <1>7, <1>8, <3>2
      <4>. QED  BY <1>7, <1>8, <4>1
    <3>. QED  BY <3>1, <3>2
  <2>2. Len(s5'[r]) \in Nat
    BY <1>7, <1>8
  <2> HIDE DEF had, p
  <2>3. s3'[r] = s3[r]
    BY <1>1
  <2>4. s5'[r] \in Seq(Range(s5'[r]))
    <3>1. had \in Seq(Range(had) \cup {one})
      BY <1>7
    <3>2. s5'[r] \in Seq(Range(had) \cup {one})
      BY <1>5, <3>1
    <3>. QED  BY <3>2 DEF Range
  <2>. QED  BY <2>1, <2>3, <2>4, LegacyPicks DEF Legacy!Gathered
<1>12. s5'[r] # <<>>
  BY <1>7, <1>8
<1>. QED  BY <1>1, <1>10, <1>11, <1>12 DEF Legacy!Sound

LEMMA LegacyFailed ==
  ASSUME Legacy!LegacyInv, NEW r \in Searches, Legacy!NotConfigured(r) \/ Legacy!Fails(r)
  PROVE  Legacy!Sound(r)' /\ s2' = s2
<1> DEFINE p == Head(s4[r])
<1>1. /\ Legacy!Turn(r) /\ step[r] = "try" /\ s2' = s2 /\ s3' = s3 /\ s5' = s5 /\ s7' = s7
      /\ s6'[r] = s6[r] \cup {p} /\ Legacy!NextTurn(r, FALSE)
  BY DEF Legacy!NotConfigured, Legacy!Fails, Legacy!Turn, Legacy!LegacyInv
<1>2. Legacy!Tried(r)' = Legacy!Tried(r) \cup {p}
  BY <1>1 DEF Legacy!Tried
<1>3. /\ Legacy!AskedOK(r)' /\ s3'[r] \in Queries /\ step'[r] \in {"try", "finish"}
      /\ step'[r] = "finish" => s4'[r] = <<>>
  BY <1>1, <1>2, LegacyTurn
<1>4. Legacy!Gathered(r)'
  <2>1. Legacy!Gathered(r)
    BY DEF Legacy!LegacyInv, Legacy!Sound
  <2>2. s5'[r] = s5[r] /\ s3'[r] = s3[r]
    BY <1>1
  <2>. QED  BY <2>1, <2>2 DEF Legacy!Gathered
<1>5. s6'[r] # {}
  BY <1>1
<1>. QED  BY <1>1, <1>3, <1>4, <1>5 DEF Legacy!Sound

LEMMA LegacyMerged ==
  ASSUME NEW T, NEW lists \in Seq(T), NEW max \in Nat
  PROVE  LET items == Legacy!Merged(lists, max) IN
         /\ items \in Seq(T)
         /\ \A i, j \in DOMAIN items : i # j => items[i].page # items[j].page
<1> DEFINE new == {i \in DOMAIN lists : \A j \in 1..(i - 1) : lists[j].page # lists[i].page}
           whole == At(lists, new)
           n == Legacy!Min({Len(whole), max})
           items == SubSeq(whole, 1, n)
<1>1. Legacy!Merged(lists, max) = items
  BY LegacyPicks DEF Legacy!Merged
<1>2. DOMAIN lists = 1..Len(lists) /\ Len(lists) \in Nat
  OBVIOUS
<1>3. ASSUME NEW i \in new, NEW j \in new, lists[i].page = lists[j].page PROVE i = j
  <2>1. i \in Int /\ j \in Int /\ i >= 1 /\ j >= 1
    BY <1>2
  <2>2. ~(j < i) /\ ~(i < j)
    BY <1>3, <2>1
  <2>. QED  BY <2>1, <2>2
<1>4. new \subseteq DOMAIN lists /\ new = {i \in DOMAIN lists : i \in new}
  OBVIOUS
<1> HIDE DEF new
<1>0. PICK e : StandsFor(e, lists, new)
  BY AtStands
<1>5. e \in Seq({i \in DOMAIN lists : i \in new}) /\ IsInjective(e) /\ whole = [k \in 1..Len(e) |-> lists[e[k]]]
  BY <1>0 DEF StandsFor
<1>6. e \in Seq(new) /\ Len(e) \in Nat /\ DOMAIN e = 1..Len(e)
  BY <1>4, <1>5
<1>7. \A k \in 1..Len(e) : e[k] \in new /\ lists[e[k]] \in T
  BY <1>2, <1>4, <1>6
<1>8. whole \in Seq(T) /\ Len(whole) = Len(e) /\ \A k \in 1..Len(e) : whole[k] = lists[e[k]]
  BY <1>5, <1>6, <1>7
<1>9. \A i, j \in 1..Len(e) : whole[i].page = whole[j].page => i = j
  <2>1. ASSUME NEW i \in 1..Len(e), NEW j \in 1..Len(e), whole[i].page = whole[j].page PROVE i = j
    <3>1. e[i] \in new /\ e[j] \in new /\ lists[e[i]].page = lists[e[j]].page
      BY <1>7, <1>8, <2>1
    <3>2. e[i] = e[j]
      BY ONLY <1>3, <3>1
    <3>. QED  BY ONLY <1>5, <1>6, <2>1, <3>2 DEF IsInjective
  <2>. QED  BY ONLY <2>1
<1> HIDE DEF whole
<1>10. n \in Nat /\ n <= Len(whole)
  BY <1>6, <1>8, LegacyMin
<1> HIDE DEF n
<1>11. /\ items \in Seq(T) /\ Len(items) = n
       /\ \A i \in 1..n : items[i] = whole[i]
  <2>1. \A i \in 1..n : whole[i] \in T
    BY <1>6, <1>7, <1>8, <1>10
  <2>2. /\ SubSeq(whole, 1, n) \in Seq(T)
        /\ Len(SubSeq(whole, 1, n)) = IF 1 <= n THEN n - 1 + 1 ELSE 0
        /\ \A i \in 1..(n - 1 + 1) : SubSeq(whole, 1, n)[i] = whole[1 + i - 1]
    BY <1>10, <2>1, SubSeqProperties
  <2>3. n - 1 + 1 = n /\ \A i \in 1..n : 1 + i - 1 = i
    BY <1>10
  <2>. QED  BY <1>10, <2>2, <2>3
<1> HIDE DEF items
<1>12. DOMAIN items = 1..n
  BY <1>11
<1>13. ASSUME NEW i \in DOMAIN items, NEW j \in DOMAIN items, i # j
       PROVE  items[i].page # items[j].page
  <2>1. i \in 1..Len(e) /\ j \in 1..Len(e) /\ items[i] = whole[i] /\ items[j] = whole[j]
    BY <1>6, <1>8, <1>10, <1>11, <1>12
  <2>. QED  BY <1>9, <1>13, <2>1
<1>. QED  BY <1>1, <1>11, <1>13

\* What a request with answers is given: pages of the providers it tried, and none of
\* several twice.
LegacyItems(r) ==
  LET lists == Legacy!Joined([i \in DOMAIN s5[r] |-> s5[r][i].items])
  IN IF Len(s5[r]) = 1 THEN lists ELSE Legacy!Merged(lists, s3[r].max)

LEMMA LegacyGiven ==
  ASSUME NEW r \in Searches, Legacy!Gathered(r), s5[r] # <<>>, s3[r].max \in Nat
  PROVE  /\ ~Legacy!Unmerged(LegacyItems(r))
         /\ \A it \in Range(LegacyItems(r)) : it.by \in Legacy!Tried(r)
<1> DEFINE had == s5[r]
           n == Len(had)
           seqs == [i \in DOMAIN had |-> had[i].items]
           T == UNION {Range(had[i].items) : i \in DOMAIN had}
           lists == Joined(seqs)
<1>1. /\ had \in Seq(Range(had)) /\ DOMAIN had = 1..n /\ n \in Nat
      /\ \A i \in DOMAIN had : had[i].items \in Seq({it \in Range(had[i].items) : it.by = had[i].by})
  BY LegacyHad
<1>2. n > 0
  BY <1>1, EmptySeq
<1>3. \A x \in T : x.by \in Legacy!Tried(r)
  <2>1. ASSUME NEW i \in DOMAIN had, NEW x \in Range(had[i].items) PROVE x.by = had[i].by
    <3> DEFINE own == {it \in Range(had[i].items) : it.by = had[i].by}
    <3>1. had[i].items \in Seq(own) /\ \A it \in own : it.by = had[i].by
      BY <1>1
    <3> HIDE DEF own
    <3>2. x \in own
      BY <3>1 DEF Range
    <3>. QED  BY <3>1, <3>2
  <2>. QED  BY <2>1 DEF Legacy!Tried
<1>4. /\ lists \in Seq(T)
      /\ n = 1 => lists = had[1].items
  <2>1. \A i \in 1..n : had[i].items \in Seq(T)
    <3>1. ASSUME NEW i \in 1..n PROVE had[i].items \in Seq(T)
      <4> DEFINE own == {it \in Range(had[i].items) : it.by = had[i].by}
      <4>1. had[i].items \in Seq(own) /\ own \subseteq T
        BY <1>1
      <4> HIDE DEF own, T
      <4>. QED  BY <4>1
    <3>. QED  BY <3>1
  <2>2. DOMAIN seqs = 1..n /\ \A i \in 1..n : seqs[i] = had[i].items
    BY <1>1
  <2>3. Len(seqs) = n
    BY <1>1, <2>2
  <2> HIDE DEF T, seqs, n
  <2>4. Joined(seqs) \in Seq(T) /\ (n = 1 => Joined(seqs) = seqs[1])
    <3>1. n \in Nat /\ \A i \in 1..n : seqs[i] \in Seq(T)
      BY <1>1, <2>1, <2>2
    <3>. QED  BY <1>2, <2>2, <2>3, <3>1, JoinedIs
  <2>5. n = 1 => 1 \in 1..n
    OBVIOUS
  <2>. QED  BY <2>2, <2>4, <2>5
<1>5. LegacyItems(r) = IF n = 1 THEN lists ELSE Legacy!Merged(lists, s3[r].max)
  BY LegacyPicks DEF LegacyItems
<1> HIDE DEF T
<1>6. CASE n = 1
  <2>1. LegacyItems(r) = had[1].items /\ 1 \in DOMAIN had
    BY <1>1, <1>4, <1>5, <1>6
  <2> DEFINE items == had[1].items
             own == {it \in Range(items) : it.by = had[1].by}
  <2>2. items \in Seq(own)
    BY <1>1, <2>1
  <2>3. items \in Seq(T)
    BY <1>4, <1>6
  <2>4. \A it \in Range(items) : it \in T
    <3> HIDE DEF items
    <3>. QED  BY <2>3 DEF Range
  <2>5. \A i, j \in DOMAIN items : items[i].by = items[j].by
    <3>1. \A x \in own : x.by = had[1].by
      OBVIOUS
    <3> HIDE DEF own, items
    <3>. QED  BY <2>2, <3>1
  <2>6. ~Legacy!Unmerged(items)
    BY <2>5 DEF Legacy!Unmerged
  <2>. QED  BY <1>3, <2>1, <2>4, <2>6
<1>7. CASE n # 1
  <2> DEFINE items == Legacy!Merged(lists, s3[r].max)
  <2> HIDE DEF lists
  <2>1. /\ items \in Seq(T)
        /\ \A i, j \in DOMAIN items : i # j => items[i].page # items[j].page
    BY <1>4, LegacyMerged
  <2> HIDE DEF items
  <2>2. \A it \in Range(items) : it \in T
    BY <2>1 DEF Range
  <2>3. ~Legacy!Unmerged(items)
    BY <2>1 DEF Legacy!Unmerged
  <2>4. LegacyItems(r) = items
    BY <1>5, <1>7 DEF items
  <2>. QED  BY <1>3, <2>2, <2>3, <2>4
<1>. QED  BY <1>6, <1>7

LEMMA LegacyFinish ==
  ASSUME Legacy!LegacyInv, NEW r \in Searches, Legacy!Finish(r)
  PROVE  Legacy!Sound(r)' /\ \A e \in s2' : Legacy!EntryOK(e)
<1> DEFINE had == s5[r]
           n == Len(had)
           items == LegacyItems(r)
<1>1. /\ step[r] = "finish" /\ step'[r] = "done"
      /\ clock' = clock /\ s3' = s3 /\ s4' = s4 /\ s5' = s5 /\ s6' = s6 /\ s7' = s7
  BY DEF Legacy!Finish, Legacy!Goto, Legacy!LegacyInv
<1>2. /\ had # <<>> \/ (s6[r] # {} /\ s4[r] = <<>>)
      /\ s3[r] \in Queries /\ Legacy!AskedOK(r) /\ Legacy!Gathered(r)
  BY <1>1 DEF Legacy!LegacyInv, Legacy!Sound
<1>3. s3[r].max \in Nat /\ clock \in Nat
  BY <1>2, LegacyAssumption DEF Legacy!LegacyInv
<1>4. /\ had \in Seq(Range(had)) /\ DOMAIN had = 1..n /\ n \in Nat
  BY <1>2, LegacyHad
<1>5. Legacy!Tried(r)' = Legacy!Tried(r) /\ Legacy!Gathered(r)' /\ Legacy!AskedOK(r)'
  BY <1>1, <1>2, ZenonT(40) DEF Legacy!Tried, Legacy!Gathered, Legacy!AskedOK
<1>6. ASSUME had = <<>>, s4[r] = <<>> PROVE Legacy!Range(Legacy!Order(s3[r])) \subseteq s6[r] \cup s7[r]
  <2>1. Legacy!Tried(r) = s6[r]
    BY <1>6 DEF Legacy!Tried
  <2>2. Range(s4[r]) = {}
    BY <1>6 DEF Range
  <2>. QED  BY <1>2, <2>1, <2>2, LegacyPicks DEF Legacy!AskedOK
<1>7. CASE n = 0
  <2>1. had = <<>>
    BY <1>4, <1>7, EmptySeq
  <2>2. s8' = [s8 EXCEPT ![r] = [Legacy!NoAnswer EXCEPT !.error = TRUE, !.provider = Legacy!Chosen(s3[r])]]
        /\ s2' = s2
    BY <1>7 DEF Legacy!Finish
  <2>3. s8'[r].items = <<>> /\ s8'[r].error /\ ~s8'[r].hit
    BY <2>2 DEF Legacy!LegacyInv, Legacy!NoAnswer
  <2>4. ~Legacy!Unmerged(<<>>)
    BY DEF Legacy!Unmerged
  <2>5. Legacy!AnswerTrue(r)'
    BY <1>1, <1>2, <1>5, <1>6, <2>1, <2>3, <2>4 DEF Legacy!AnswerTrue
  <2>. QED  BY <1>1, <1>2, <1>5, <2>2, <2>5 DEF Legacy!Sound, Legacy!LegacyInv
<1>8. CASE n > 0
  <2> DEFINE last == had[n].by
  <2>1. /\ s8' = [s8 EXCEPT ![r] = [Legacy!NoAnswer EXCEPT !.items = items, !.provider = last]]
        /\ s2' = IF ~s3[r].cached THEN s2
                 ELSE {e \in s2 : ~(e.max = s3[r].max /\ e.by = last /\ SameScope(e.scope, Legacy!Chosen(s3[r])))}
                        \cup {[max |-> s3[r].max, by |-> last, scope |-> Legacy!Chosen(s3[r]), items |-> items, at |-> clock]}
    BY <1>8 DEF Legacy!Finish, LegacyItems
  <2>2. had # <<>>
    BY <1>8
  <2>3. /\ ~Legacy!Unmerged(items)
        /\ \A it \in Range(items) : it.by \in Legacy!Tried(r)
    BY <1>2, <1>3, <2>2, LegacyGiven
  <2>4. last \in {had[i].by : i \in DOMAIN had}
    BY <1>4, <1>8
  <2> HIDE DEF items, last
  <2>5. s8'[r].items = items /\ ~s8'[r].error /\ ~s8'[r].hit /\ s8'[r].provider = last
    BY <2>1 DEF Legacy!LegacyInv, Legacy!NoAnswer
  <2>6. Legacy!Strict(s3[r]) => \A it \in Legacy!Range(items) : it.by = s3[r].provider
    <3>1. Legacy!Tried(r) \subseteq Range(Legacy!Order(s3[r]))
      BY <1>2, LegacyPicks DEF Legacy!AskedOK
    <3>2. Legacy!Strict(s3[r]) => Range(Legacy!Order(s3[r])) = {s3[r].provider}
      BY LegacyOrder
    <3>. QED  BY <2>3, <3>1, <3>2, LegacyPicks
  <2>7. Legacy!AnswerTrue(r)'
    BY <1>1, <1>5, <2>3, <2>4, <2>5, <2>6 DEF Legacy!AnswerTrue
  <2>8. ASSUME NEW e \in s2' PROVE Legacy!EntryOK(e)
    <3>1. CASE e \in s2
      BY <3>1 DEF Legacy!LegacyInv
    <3>2. CASE e \notin s2
      <4>1. e = [max |-> s3[r].max, by |-> last, scope |-> Legacy!Chosen(s3[r]), items |-> items, at |-> clock]
        BY <2>1, <3>2
      <4>2. e.max = s3[r].max /\ e.items = items /\ e.at = clock
        BY <4>1
      <4>. QED  BY <1>3, <2>3, <4>2 DEF Legacy!EntryOK
    <3>. QED  BY <3>1, <3>2
  <2>. QED  BY <1>1, <1>2, <1>5, <2>7, <2>8 DEF Legacy!Sound
<1>. QED  BY <1>4, <1>7, <1>8

LEMMA LegacyKept == ASSUME Legacy!LegacyInv, Legacy!Next PROVE Legacy!LegacyInv'
<1>1. ASSUME NEW r \in Searches, LegacyStep(r) PROVE Legacy!LegacyInv'
  <2>1. Legacy!Sound(r)' /\ \A e \in s2' : Legacy!EntryOK(e)
    <3>1. \A e \in s2 : Legacy!EntryOK(e)
      BY DEF Legacy!LegacyInv
    <3>2. CASE Legacy!Submit(r)
      BY <3>1, <3>2, LegacySubmit
    <3>3. CASE Legacy!Lookup(r)
      BY <3>1, <3>3, LegacyLookup
    <3>4. CASE Legacy!Unlink(r)
      BY <3>1, <3>4, LegacyUnlink
    <3>5. CASE Legacy!Answered(r)
      BY <3>1, <3>5, LegacyAnswered
    <3>6. CASE Legacy!NotConfigured(r) \/ Legacy!Fails(r)
      BY <3>1, <3>6, LegacyFailed
    <3>7. CASE Legacy!Finish(r)
      BY <3>7, LegacyFinish
    <3>. QED  BY <1>1, <3>2, <3>3, <3>4, <3>5, <3>6, <3>7 DEF LegacyStep
  <2>2. clock' = clock /\ \A o \in Searches : o # r => LegacyOf(o)' = LegacyOf(o)
    BY <1>1, LegacyOthers
  <2>. QED  BY <2>1, <2>2, LegacyOne, LegacyShape
<1>2. CASE Legacy!Tick
  <2>1. clock' = clock + 1 /\ s2' = s2 /\ \A o \in Searches : LegacyOf(o)' = LegacyOf(o)
    BY <1>2 DEF Legacy!Tick, LegacyOf
  <2>2. \A o \in Searches : Legacy!Sound(o)'
    BY <2>1, LegacyStill DEF Legacy!LegacyInv
  <2>. QED  BY <2>1, <2>2, LegacyShape DEF Legacy!LegacyInv, LegacyShaped
<1>. QED  BY <1>1, <1>2 DEF Legacy!Next, LegacyStep

LEMMA LegacyUnmoved ==
  ASSUME Legacy!LegacyInv, UNCHANGED <<clock, step, s1, s2, s3, s4, s5, s6, s7, s8>>
  PROVE  Legacy!LegacyInv'
<1>1. \A o \in Searches : Legacy!Sound(o)'
  BY LegacyStill DEF Legacy!LegacyInv, LegacyOf
<1>. QED  BY <1>1 DEF Legacy!LegacyInv

-----------------------------------------------------------------------------
(***************************************************************************)
(* ProviderRequests                                                        *)
(***************************************************************************)
LEMMA SearchPicks ==
  /\ \A seq, S : Search!Among(seq, S) = Among(seq, S)
  /\ \A seq : Search!Distinct(seq) = Distinct(seq)
  /\ \A seq : Search!Range(seq) = Range(seq)
<1>1. \A seq, S : Search!Among(seq, S) = Among(seq, S)
  BY DEF Search!Among, Search!MapThenFoldSet, Among, MapThenFoldSet
<1>2. \A seq, I : Search!At(seq, I) = At(seq, I)
  BY <1>1 DEF Search!At, At, Search!Places, Places
<1>3. \A seq : Search!Distinct(seq) = Distinct(seq)
  BY <1>2 DEF Search!Distinct, Distinct
<1>4. \A seq : Search!Range(seq) = Range(seq)
  BY DEF Search!Range, Range
<1>. QED  BY <1>1, <1>3, <1>4

LEMMA SearchTake ==
  ASSUME NEW T, NEW seq \in Seq(T), NEW n \in Nat
  PROVE  /\ Search!Take(n, seq) \in Seq(T)
         /\ Range(Search!Take(n, seq)) \subseteq Range(seq)
         /\ seq # <<>> /\ n > 0 => Search!Take(n, seq) # <<>>
         /\ n >= Len(seq) => Search!Take(n, seq) = seq
         /\ Len(Search!Take(n, seq)) = IF n < Len(seq) THEN n ELSE Len(seq)
<1> DEFINE k == IF n < Len(seq) THEN n ELSE Len(seq)
           u == Search!Take(n, seq)
<1>1. k \in Nat /\ k <= Len(seq) /\ Len(seq) \in Nat /\ DOMAIN seq = 1..Len(seq)
  OBVIOUS
<1>2. u = SubSeq(seq, 1, k)
  BY DEF Search!Take
<1>3. \A i \in 1..k : seq[i] \in T /\ i \in DOMAIN seq
  BY <1>1
<1> HIDE DEF u
<1>4. /\ u \in Seq(T) /\ Len(u) = IF 1 <= k THEN k - 1 + 1 ELSE 0
      /\ \A i \in 1..(k - 1 + 1) : u[i] = seq[1 + i - 1]
  <2> HIDE DEF k
  <2>. QED  BY <1>1, <1>2, <1>3, SubSeqProperties
<1>5. Len(u) = k /\ DOMAIN u = 1..k /\ \A i \in 1..k : u[i] = seq[i]
  <2>1. k - 1 + 1 = k /\ \A i \in 1..k : 1 + i - 1 = i
    BY <1>1
  <2> HIDE DEF k
  <2>. QED  BY <1>1, <1>4, <2>1
<1>6. Range(u) \subseteq Range(seq)
  BY <1>3, <1>5 DEF Range
<1>7. seq # <<>> /\ n > 0 => u # <<>>
  <2>1. seq # <<>> => Len(seq) > 0
    OBVIOUS
  <2>. QED  BY <1>5, <2>1
<1>8. n >= Len(seq) => u = seq
  <2>1. ASSUME n >= Len(seq) PROVE u = seq
    <3>1. k = Len(seq)
      BY <2>1
    <3>. QED  BY <1>2, <3>1, SubSeqFull
  <2>. QED  BY <2>1
<1>. QED  BY <1>4, <1>5, <1>6, <1>7, <1>8 DEF u

\* The usable filters of a list of the caller's.
LEMMA SearchFilters ==
  ASSUME NEW list \in Seq(DOMAIN Covers)
  PROVE  /\ Search!Raw(list) \in Seq(SUBSET Site)
         /\ \A f \in Range(Search!Raw(list)) : \E t \in Range(list) : f = Covers[t]
         /\ \A t \in Range(list) : Covers[t] = {} \/ Covers[t] \in Range(Search!Raw(list))
         /\ Search!Hosts(list) \in Seq(SUBSET Site) /\ Range(Search!Hosts(list)) = Range(Search!Raw(list))
<1> DEFINE all == [i \in DOMAIN list |-> Covers[list[i]]]
           some == (SUBSET Site) \ {{}}
           raw == Among(all, some)
<1>1. Search!Raw(list) = raw /\ Search!Hosts(list) = Distinct(raw)
  BY SearchPicks DEF Search!Raw, Search!Hosts
<1>2. DOMAIN list = 1..Len(list) /\ Len(list) \in Nat /\ \A i \in DOMAIN list : Covers[list[i]] \in SUBSET Site
  BY SearchAssumption
<1>3. all \in Seq(SUBSET Site) /\ Range(all) = {Covers[t] : t \in Range(list)}
  <2>1. all \in Seq(SUBSET Site)
    <3> DEFINE T == SUBSET Site
    <3>1. \A i \in 1..Len(list) : Covers[list[i]] \in T
      BY <1>2
    <3> HIDE DEF T
    <3>2. [i \in 1..Len(list) |-> Covers[list[i]]] \in Seq(T)
      BY <1>2, <3>1
    <3>. QED  BY <1>2, <3>2 DEF T
  <2>. QED  BY <2>1 DEF Range
<1> HIDE DEF all, some
<1>4. raw \in Seq(SUBSET Site) /\ \A x : x \in Range(raw) <=> x \in Range(all) /\ x \in some
  BY <1>3, AmongKeeps
<1>5. Distinct(raw) \in Seq(SUBSET Site) /\ Range(Distinct(raw)) = Range(raw)
  BY <1>4, DistinctKeeps
<1> HIDE DEF raw
<1>6. \A f \in Range(raw) : \E t \in Range(list) : f = Covers[t]
  BY <1>3, <1>4
<1>7. \A t \in Range(list) : Covers[t] = {} \/ Covers[t] \in Range(raw)
  <2>1. ASSUME NEW t \in Range(list), Covers[t] # {} PROVE Covers[t] \in Range(raw)
    <3>1. t \in DOMAIN Covers
      BY DEF Range
    <3>2. Covers[t] \in some /\ Covers[t] \in Range(all)
      BY <1>3, <2>1, <3>1, SearchAssumption DEF some
    <3>. QED  BY <1>4, <3>2
  <2>. QED  BY <2>1
<1>. QED  BY <1>1, <1>4, <1>5, <1>6, <1>7

\* The lists of the request, and what is left of them.
LEMMA SearchLists ==
  ASSUME s1 \in Requests
  PROVE  /\ Search!Excluded \in Seq(SUBSET Site)
         /\ \A t \in Range(s1.exclude) : Covers[t] = {} \/ Covers[t] \in Range(Search!Excluded)
         /\ Search!Included \in Seq(SUBSET Site)
         /\ \A f \in Range(Search!Included) : \E t \in Range(s1.include) : f = Covers[t]
         /\ Search!Included # <<>> => Search!Raw(s1.include) # <<>>
<1>1. s1.include \in Seq(DOMAIN Covers) /\ s1.exclude \in Seq(DOMAIN Covers)
  BY SearchAssumption
<1> DEFINE hosts == Search!Hosts(s1.include)
           others == Range(hosts) \ Range(Search!Excluded)
<1>2. hosts \in Seq(SUBSET Site) /\ Range(hosts) = Range(Search!Raw(s1.include))
      /\ \A f \in Range(Search!Raw(s1.include)) : \E t \in Range(s1.include) : f = Covers[t]
  BY <1>1, SearchFilters
<1>3. Search!Included = Among(hosts, others)
  BY SearchPicks DEF Search!Included
<1> HIDE DEF hosts, others
<1>4. /\ Search!Included \in Seq(SUBSET Site)
      /\ \A f : f \in Range(Search!Included) <=> f \in Range(hosts) /\ f \in others
      /\ Search!Included = <<>> <=> \A f \in Range(hosts) : f \notin others
  BY <1>2, <1>3, AmongKeeps
<1>5. Search!Included # <<>> => Search!Raw(s1.include) # <<>>
  BY <1>2, <1>4 DEF Range
<1>6. /\ Search!Excluded \in Seq(SUBSET Site)
      /\ \A t \in Range(s1.exclude) : Covers[t] = {} \/ Covers[t] \in Range(Search!Excluded)
  BY <1>1, SearchFilters DEF Search!Excluded
<1>. QED  BY <1>2, <1>4, <1>5, <1>6

\* What the adapters build of one request for one provider.
LEMMA SearchSame ==
  ASSUME s1' = s1, s2' = s2
  PROVE  /\ Search!Messages' = Search!Messages /\ (Search!Raises' <=> Search!Raises)
         /\ (Search!NothingLeft' <=> Search!NothingLeft)
         /\ s4' = s4 => Search!Tell' = Search!Tell
<1>1. Search!provider' = Search!provider
  BY DEF Search!provider
<1>2. Search!Excluded' = Search!Excluded
  BY DEF Search!Excluded
<1>3. Search!Included' = Search!Included
  BY <1>2 DEF Search!Included
<1>4. Search!NothingLeft' <=> Search!NothingLeft
  BY <1>3 DEF Search!NothingLeft
<1>5. Search!HasSuffix' <=> Search!HasSuffix
  BY DEF Search!HasSuffix
<1>6. Search!Auto' <=> Search!Auto
  BY DEF Search!Auto
<1>7. ASSUME NEW x
      PROVE  Search!Country(x)' = Search!Country(x) /\ Search!Language(x)' = Search!Language(x)
  <2>1. Search!OwnCountry(x)' = Search!OwnCountry(x) /\ Search!OwnLanguage(x)' = Search!OwnLanguage(x)
    BY DEF Search!OwnCountry, Search!OwnLanguage
  <2>2. Search!HomeCountry(x)' = Search!HomeCountry(x)
    BY <1>6, <2>1 DEF Search!HomeCountry
  <2>3. Search!Country(x)' = Search!Country(x)
    BY <2>1, <2>2 DEF Search!Country
  <2>4. Search!Language(x)' = Search!Language(x)
    BY <1>6, <2>1 DEF Search!Language
  <2>. QED  BY <2>3, <2>4
<1>8. Search!Recency' = Search!Recency /\ Search!SdkRecency' = Search!SdkRecency
  BY DEF Search!Recency, Search!SdkRecency
<1>9. /\ Search!Country(Search!provider)' = Search!Country(Search!provider)
      /\ Search!Language(Search!provider)' = Search!Language(Search!provider)
  BY <1>1, <1>7
<1>10. Search!Operators' = Search!Operators
  BY <1>2, <1>3, <1>9 DEF Search!Operators
<1>11. Search!Brave' = Search!Brave
  BY <1>8, <1>10 DEF Search!Brave, Search!Fit
<1>12. Search!Octen' = Search!Octen
  BY <1>8 DEF Search!Octen
<1>13. Search!Messages' = Search!Messages
  <2>1. Search!Serper' = Search!Serper /\ Search!SerpBase' = Search!SerpBase /\ Search!You' = Search!You
    BY <1>8, <1>10 DEF Search!Serper, Search!SerpBase, Search!You
  <2>2. Search!Tavily' = Search!Tavily /\ Search!Querit' = Search!Querit
    BY <1>2, <1>3, <1>8, <1>9 DEF Search!Tavily, Search!Querit
  <2>3. Search!Linkup' = Search!Linkup /\ Search!Exa' = Search!Exa /\ Search!Parallel' = Search!Parallel
    BY <1>8 DEF Search!Linkup, Search!Exa, Search!Parallel
  <2>4. Search!Firecrawl' = Search!Firecrawl /\ Search!SearXNG' = Search!SearXNG
    BY <1>2, <1>3, <1>8, <1>9 DEF Search!Firecrawl, Search!SearXNG
  <2>5. Search!Keenable' = Search!Keenable /\ Search!TinyFish' = Search!TinyFish
    BY <1>8, <1>12 DEF Search!Keenable, Search!TinyFish
  <2>. QED  BY <1>11, <1>12, <2>1, <2>2, <2>3, <2>4, <2>5 DEF Search!Messages
<1>14. Search!Raises' <=> Search!Raises
  BY <1>1, <1>5, <1>10 DEF Search!Raises, Search!Gate
<1>15. s4' = s4 => Search!Tell' = Search!Tell
  <2>1. SUFFICES ASSUME s4' = s4 PROVE Search!Tell' = Search!Tell
    OBVIOUS
  <2>2. Search!ToldRecency(Search!provider)' = Search!ToldRecency(Search!provider)
    BY <1>1, <1>8, <2>1 DEF Search!ToldRecency
  <2>3. Search!ToldType(Search!provider)' = Search!ToldType(Search!provider)
    BY <1>1 DEF Search!ToldType
  <2>. QED  BY <1>1, <1>9, <2>1, <2>2, <2>3 DEF Search!Tell, Search!Teller
<1>. QED  BY <1>4, <1>13, <1>14, <1>15

LEMMA SearchNothingLeft == s1' = s1 => (Search!NothingLeft' <=> Search!NothingLeft)
<1>1. SUFFICES ASSUME s1' = s1 PROVE Search!NothingLeft' <=> Search!NothingLeft
  OBVIOUS
<1>2. Search!Excluded' = Search!Excluded
  BY <1>1 DEF Search!Excluded
<1>3. Search!Included' = Search!Included
  BY <1>1, <1>2 DEF Search!Included
<1>. QED  BY <1>1, <1>3 DEF Search!NothingLeft

LEMMA SearchStarts == Search!Init => Search!SearchInv
BY SearchAssumption DEF Search!Init, Search!SearchInv, Search!SourceOnly

LEMMA SearchCheck == ASSUME Search!SearchInv, Search!Check PROVE Search!SearchInv'
<1> DEFINE S == {x \in Range(s2) : x = "tavily" => ~Search!HasSuffix}
           able == Among(s2, S)
<1>1. s2 \in Seq(Search!Adapted) /\ s1 \in Requests /\ s4' = s4 /\ s1' = s1 /\ Search!SourceOnly'
  BY DEF Search!SearchInv, Search!Check, Search!SourceOnly
<1>2. able \in Seq(Search!Adapted)
  BY <1>1, AmongKeeps
<1>3. \/ step' = "refused" /\ s2' = s2
      \/ step' = "dispatch" /\ s2' = able /\ able # <<>> /\ ~Search!NothingLeft
  BY SearchPicks DEF Search!Check
<1>4. Search!NothingLeft' <=> Search!NothingLeft
  BY <1>1, SearchNothingLeft
<1> HIDE DEF able
<1>. QED  BY <1>1, <1>2, <1>3, <1>4 DEF Search!SearchInv

LEMMA SearchNextProvider ==
  ASSUME Search!SearchInv, step \in {"dispatch", "sent"}, Search!NextProvider, s1' = s1, s4' = s4
  PROVE  Search!SearchInv'
<1>1. s2 \in Seq(Search!Adapted) /\ s2 # <<>> /\ s1 \in Requests /\ ~Search!NothingLeft /\ Search!SourceOnly'
  BY DEF Search!SearchInv, Search!SourceOnly
<1>2. \/ step' = "failed" /\ s2' = s2
      \/ step' = "dispatch" /\ s2' = Tail(s2) /\ Len(s2) > 1
  BY DEF Search!NextProvider
<1>3. Len(s2) > 1 => Tail(s2) # <<>>
  <2> DEFINE rest == Tail(s2)
  <2>1. Len(rest) = Len(s2) - 1 /\ Len(s2) \in Nat
    BY <1>1, HeadTailProperties
  <2> HIDE DEF rest
  <2>2. Len(s2) > 1 => rest # <<>>
    BY <2>1
  <2>. QED  BY <2>2 DEF rest
<1>4. Tail(s2) \in Seq(Search!Adapted)
  BY <1>1
<1>5. ~Search!NothingLeft'
  BY <1>1, SearchNothingLeft
<1>. QED  BY <1>1, <1>2, <1>3, <1>4, <1>5 DEF Search!SearchInv

LEMMA SearchAdapted ==
  ASSUME s2 \in Seq(Search!Adapted), s2 # <<>>
  PROVE  Search!provider \in Search!Adapted
BY DEF Search!provider

\* No adapter that does not raise asks for a synthesized answer.
LEMMA SearchSourceOnly ==
  ASSUME s2 \in Seq(Search!Adapted), s2 # <<>>, ~Search!Raises
  PROVE  ~Search!Messages[Search!provider].answers
<1> DEFINE p == Search!provider
<1>1. p \in Search!Adapted
  BY SearchAdapted
<1>2. p \in {"linkup", "exa"} => ~s1.answers
  BY DEF Search!Raises, Search!Gate
<1>3. ~Search!Operators.answers /\ Search!Linkup.answers = s1.answers /\ Search!Exa.answers = s1.answers
  BY DEF Search!Operators, Search!Plain, Search!Linkup, Search!Exa
<1>4. ~Search!Serper.answers /\ ~Search!SerpBase.answers /\ ~Search!You.answers
  BY DEF Search!Operators, Search!Plain, Search!Serper, Search!SerpBase, Search!You
<1>5. ~Search!Brave.answers
  BY DEF Search!Operators, Search!Plain, Search!Brave, Search!Fit
<1>6. ~Search!Tavily.answers /\ ~Search!Querit.answers /\ ~Search!Firecrawl.answers /\ ~Search!Parallel.answers
  BY DEF Search!Plain, Search!Tavily, Search!Querit, Search!Firecrawl, Search!Parallel
<1>7. ~Search!SearXNG.answers /\ ~Search!Keenable.answers /\ ~Search!Octen.answers /\ ~Search!TinyFish.answers
  BY DEF Search!Plain, Search!SearXNG, Search!Keenable, Search!Octen, Search!TinyFish
<1> HIDE DEF p
<1>. QED  BY <1>1, <1>2, <1>3, <1>4, <1>5, <1>6, <1>7 DEF Search!Adapted, Search!Messages, p

LEMMA SearchKept == ASSUME Search!SearchInv, Search!Next PROVE Search!SearchInv'
<1>1. CASE Search!Check
  BY <1>1, SearchCheck
<1>2. CASE Search!Fails
  BY <1>2, SearchNextProvider DEF Search!Fails
<1>3. CASE Search!Dispatch
  <2>1. CASE Search!Raises
    BY <1>3, <2>1, SearchNextProvider DEF Search!Dispatch
  <2>2. CASE ~Search!Raises
    <3>1. /\ step = "dispatch" /\ step' = "sent" /\ s1' = s1 /\ s2' = s2
          /\ s4' = Search!Messages[Search!provider]
      BY <1>3, <2>2 DEF Search!Dispatch
    <3>2. /\ Search!Messages' = Search!Messages /\ ~Search!Raises' /\ ~Search!NothingLeft'
          /\ Search!provider' = Search!provider
      BY <2>2, <3>1, SearchSame DEF Search!SearchInv, Search!provider
    <3>3. ~s4'.answers
      BY <2>2, <3>1, SearchSourceOnly DEF Search!SearchInv
    <3>. QED  BY <3>1, <3>2, <3>3 DEF Search!SearchInv, Search!SourceOnly
  <2>. QED  BY <2>1, <2>2
<1>4. CASE Search!Answers
  <2>1. /\ step = "sent" /\ step' = "answered" /\ s1' = s1 /\ s2' = s2 /\ s4' = s4
        /\ s5' \subseteq Search!Matches(s4) /\ s6' = Search!Tell
    BY <1>4 DEF Search!Answers
  <2>2. /\ Search!Messages' = Search!Messages /\ ~Search!Raises' /\ ~Search!NothingLeft'
        /\ Search!provider' = Search!provider /\ Search!Tell' = Search!Tell
    BY <2>1, SearchSame DEF Search!SearchInv, Search!provider
  <2>3. s4' = Search!Messages[Search!provider]' /\ Search!SourceOnly'
    BY <2>1, <2>2 DEF Search!SearchInv, Search!SourceOnly
  <2>. QED  BY <2>1, <2>2, <2>3 DEF Search!SearchInv
<1>. QED  BY <1>1, <1>2, <1>3, <1>4 DEF Search!Next

LEMMA SearchUnmoved ==
  ASSUME Search!SearchInv, UNCHANGED <<step, s1, s2, s3, s4, s5, s6>>
  PROVE  Search!SearchInv'
<1>1. /\ Search!Messages' = Search!Messages /\ (Search!Raises' <=> Search!Raises) /\ Search!Tell' = Search!Tell
      /\ (Search!NothingLeft' <=> Search!NothingLeft) /\ Search!provider' = Search!provider
  BY SearchSame DEF Search!provider
<1>. QED  BY <1>1 DEF Search!SearchInv, Search!SourceOnly

\* What a message asks for is part of what the caller asked for, and it leaves out all
\* that the caller left out, but for the exceptions Asked names.
IncludesOnly(m) ==
  \/ s1.include = <<>> \/ s1.ownSite \/ Search!TooLong(s1.include)
  \/ m.include # <<>> /\ \A f \in Range(m.include) : \E t \in Range(s1.include) : f = Covers[t]

ExcludesAll(m) ==
  \/ Search!TooLong(s1.exclude) \/ m.dropped > 0 \/ Len(Search!Excluded) > SiteLimit
  \/ \A t \in Range(s1.exclude) : Covers[t] = {} \/ Covers[t] \in Range(m.exclude)

LEMMA SearchHonoured ==
  ASSUME NEW m, IncludesOnly(m), ExcludesAll(m), s6.dropped = m.dropped, NEW s \in Search!Matches(m)
  PROVE  Search!Asked(s)
<1>1. /\ m.include = <<>> \/ \E f \in Range(m.include) : s \in f
      /\ \A f \in Range(m.exclude) : s \notin f
  BY SearchPicks DEF Search!Matches
<1>2. \/ s1.include = <<>> \/ s1.ownSite \/ Search!TooLong(s1.include)
      \/ \E t \in Range(s1.include) : s \in Covers[t]
  BY <1>1 DEF IncludesOnly
<1>3. \/ Search!TooLong(s1.exclude)
      \/ \A t \in Range(s1.exclude) : s \notin Covers[t]
      \/ s6.dropped > 0
      \/ Len(Search!Excluded) > SiteLimit
  BY <1>1 DEF ExcludesAll
<1>. QED  BY <1>2, <1>3, SearchPicks DEF Search!Asked

\* The five ways an adapter has to say it.
LEMMA SearchSaid ==
  ASSUME s1 \in Requests, ~Search!NothingLeft
  PROVE  /\ \A m : m.include = Search!Included => IncludesOnly(m)
         /\ \A m : m.include = Search!Raw(s1.include) => IncludesOnly(m)
         /\ \A m : m.include = Search!Take(SiteLimit, Search!Included) => IncludesOnly(m)
         /\ \A m : m.exclude = Search!Excluded => ExcludesAll(m)
         /\ \A m : m.exclude = Search!Raw(s1.exclude) => ExcludesAll(m)
         /\ \A m : m.exclude = Search!Take(SiteLimit, Search!Excluded) => ExcludesAll(m)
<1>1. s1.include \in Seq(DOMAIN Covers) /\ s1.exclude \in Seq(DOMAIN Covers) /\ SiteLimit \in Nat /\ SiteLimit > 0
  BY SearchAssumption
<1>2. /\ Search!Excluded \in Seq(SUBSET Site) /\ Search!Included \in Seq(SUBSET Site)
      /\ \A t \in Range(s1.exclude) : Covers[t] = {} \/ Covers[t] \in Range(Search!Excluded)
      /\ \A f \in Range(Search!Included) : \E t \in Range(s1.include) : f = Covers[t]
      /\ Search!Included # <<>> => Search!Raw(s1.include) # <<>>
  BY SearchLists
<1>3. s1.include # <<>> => Search!Included # <<>>
  BY DEF Search!NothingLeft
<1>4. ASSUME NEW m, m.include = Search!Included PROVE IncludesOnly(m)
  BY <1>2, <1>3, <1>4 DEF IncludesOnly
<1>5. ASSUME NEW m, m.include = Search!Raw(s1.include) PROVE IncludesOnly(m)
  <2>1. \A f \in Range(Search!Raw(s1.include)) : \E t \in Range(s1.include) : f = Covers[t]
    BY <1>1, SearchFilters
  <2>. QED  BY <1>2, <1>3, <1>5, <2>1 DEF IncludesOnly
<1>6. ASSUME NEW m, m.include = Search!Take(SiteLimit, Search!Included) PROVE IncludesOnly(m)
  <2>1. /\ Range(Search!Take(SiteLimit, Search!Included)) \subseteq Range(Search!Included)
        /\ Search!Included # <<>> => Search!Take(SiteLimit, Search!Included) # <<>>
    BY <1>1, <1>2, SearchTake
  <2>. QED  BY <1>2, <1>3, <1>6, <2>1 DEF IncludesOnly
<1>7. ASSUME NEW m, m.exclude = Search!Excluded PROVE ExcludesAll(m)
  BY <1>2, <1>7 DEF ExcludesAll
<1>8. ASSUME NEW m, m.exclude = Search!Raw(s1.exclude) PROVE ExcludesAll(m)
  <2>1. \A t \in Range(s1.exclude) : Covers[t] = {} \/ Covers[t] \in Range(Search!Raw(s1.exclude))
    BY <1>1, SearchFilters
  <2>. QED  BY <1>8, <2>1 DEF ExcludesAll
<1>9. ASSUME NEW m, m.exclude = Search!Take(SiteLimit, Search!Excluded) PROVE ExcludesAll(m)
  <2>1. Len(Search!Excluded) > SiteLimit \/ Search!Take(SiteLimit, Search!Excluded) = Search!Excluded
    <3>1. SiteLimit >= Len(Search!Excluded) => Search!Take(SiteLimit, Search!Excluded) = Search!Excluded
      BY <1>1, <1>2, SearchTake
    <3>2. Len(Search!Excluded) \in Nat
      BY <1>2
    <3>. QED  BY <1>1, <3>1, <3>2
  <2>. QED  BY <1>2, <1>9, <2>1 DEF ExcludesAll
<1>. QED  BY <1>4, <1>5, <1>6, <1>7, <1>8, <1>9

\* Linkup takes a list whole that is not too long.
LEMMA SearchLinkup ==
  ASSUME s1 \in Requests, ~Search!NothingLeft, Search!provider = "linkup"
  PROVE  IncludesOnly(Search!Linkup) /\ ExcludesAll(Search!Linkup)
<1>1. s1.include \in Seq(DOMAIN Covers) /\ s1.exclude \in Seq(DOMAIN Covers) /\ LinkupLimit \in Nat
  BY SearchAssumption
<1>2. /\ Search!Linkup.include = Search!Raw(Search!Take(LinkupLimit, s1.include))
      /\ Search!Linkup.exclude = Search!Raw(Search!Take(LinkupLimit, s1.exclude))
  BY DEF Search!Linkup, Search!Plain
<1>3. Search!TooLong(s1.include) \/ Search!Linkup.include = Search!Raw(s1.include)
  <2>1. LinkupLimit >= Len(s1.include) => Search!Take(LinkupLimit, s1.include) = s1.include
    BY <1>1, SearchTake
  <2>2. Len(s1.include) \in Nat
    BY <1>1
  <2>. QED  BY <1>1, <1>2, <2>1, <2>2 DEF Search!TooLong
<1>4. Search!TooLong(s1.exclude) \/ Search!Linkup.exclude = Search!Raw(s1.exclude)
  <2>1. LinkupLimit >= Len(s1.exclude) => Search!Take(LinkupLimit, s1.exclude) = s1.exclude
    BY <1>1, SearchTake
  <2>2. Len(s1.exclude) \in Nat
    BY <1>1
  <2>. QED  BY <1>1, <1>2, <2>1, <2>2 DEF Search!TooLong
<1>. QED  BY <1>3, <1>4, SearchSaid DEF IncludesOnly, ExcludesAll

LEMMA SearchOperators ==
  ASSUME s1 \in Requests, ~Search!NothingLeft
  PROVE  /\ \A m : m.include = Search!Operators.include => IncludesOnly(m)
         /\ \A m : m.exclude = Search!Operators.exclude => ExcludesAll(m)
<1>1. /\ Search!Operators.include = IF s1.ownSite THEN <<>> ELSE Search!Take(SiteLimit, Search!Included)
      /\ Search!Operators.exclude = Search!Take(SiteLimit, Search!Excluded)
  BY DEF Search!Operators, Search!Plain
<1>2. s1.ownSite => \A m : IncludesOnly(m)
  BY DEF IncludesOnly
<1>. QED  BY <1>1, <1>2, SearchSaid

\* What Brave's limit costs is told.
LEMMA SearchBrave ==
  ASSUME s1 \in Requests, ~Search!NothingLeft, Search!provider = "brave", ~Search!Raises
  PROVE  IncludesOnly(Search!Brave) /\ ExcludesAll(Search!Brave)
<1> DEFINE m == Search!Operators
           room == s1.room - Len(m.include)
           kept == Search!Take(room, m.exclude)
<1>1. /\ Search!Brave.include = m.include /\ Search!Brave.exclude = kept
      /\ Search!Brave.dropped = Len(m.exclude) - Len(kept)
  BY DEF Search!Brave, Search!Fit, Search!Operators, Search!Plain
<1>2. ~(Len(m.include) > s1.room) /\ s1.room \in Int /\ SiteLimit \in Nat
  BY SearchAssumption DEF Search!Raises
<1>3. m.include \in Seq(SUBSET Site) /\ m.exclude \in Seq(SUBSET Site)
  <2>1. /\ m.include = IF s1.ownSite THEN <<>> ELSE Search!Take(SiteLimit, Search!Included)
        /\ m.exclude = Search!Take(SiteLimit, Search!Excluded)
    BY DEF Search!Operators, Search!Plain
  <2>2. /\ Search!Take(SiteLimit, Search!Included) \in Seq(SUBSET Site)
        /\ Search!Take(SiteLimit, Search!Excluded) \in Seq(SUBSET Site)
    BY <1>2, SearchLists, SearchTake
  <2>. QED  BY <2>1, <2>2
<1> HIDE DEF m
<1>4. Len(m.include) \in Nat /\ Len(m.exclude) \in Nat
  BY <1>3
<1>5. room \in Nat
  BY <1>2, <1>4
<1> HIDE DEF room
<1>6. /\ Len(kept) = IF room < Len(m.exclude) THEN room ELSE Len(m.exclude)
      /\ room >= Len(m.exclude) => kept = m.exclude
  BY <1>3, <1>5, SearchTake
<1>7. Search!Brave.dropped > 0 \/ kept = m.exclude
  BY <1>1, <1>4, <1>5, <1>6
<1>8. IncludesOnly(Search!Brave)
  BY <1>1, SearchOperators DEF m
<1>9. kept = m.exclude => ExcludesAll(Search!Brave)
  BY <1>1, SearchOperators DEF m
<1>10. Search!Brave.dropped > 0 => ExcludesAll(Search!Brave)
  BY DEF ExcludesAll
<1>. QED  BY <1>7, <1>8, <1>9, <1>10

LEMMA SearchMessages ==
  ASSUME s1 \in Requests, ~Search!NothingLeft, ~Search!Raises, s2 \in Seq(Search!Adapted), s2 # <<>>,
         Search!provider \notin {"searxng", "keenable"}
  PROVE  LET m == Search!Messages[Search!provider] IN IncludesOnly(m) /\ ExcludesAll(m)
<1> DEFINE m == Search!Messages[Search!provider]
           p == Search!provider
<1>1. p \in Search!Adapted
  BY SearchAdapted
<1>2. CASE p \in {"serper", "serpbase", "you"}
  <2>1. m \in {Search!Serper, Search!SerpBase, Search!You}
    BY <1>2 DEF Search!Messages
  <2>2. m.include = Search!Operators.include /\ m.exclude = Search!Operators.exclude
    <3>1. \A x \in {Search!Serper, Search!SerpBase, Search!You} :
             x.include = Search!Operators.include /\ x.exclude = Search!Operators.exclude
      BY ZenonT(40) DEF Search!Serper, Search!SerpBase, Search!You, Search!Operators, Search!Plain
    <3>. QED  BY <2>1, <3>1
  <2>. QED  BY <2>2, SearchOperators
<1>3. CASE p = "brave"
  <2>1. m = Search!Brave
    BY <1>3 DEF Search!Messages
  <2>. QED  BY <1>3, <2>1, SearchBrave
<1>4. CASE p = "tavily"
  <2>1. m = Search!Tavily
    BY <1>4 DEF Search!Messages
  <2>2. m.include = Search!Included /\ m.exclude = Search!Excluded
    BY <2>1 DEF Search!Tavily, Search!Plain
  <2>. QED  BY <2>2, SearchSaid
<1>5. CASE p = "linkup"
  <2>1. m = Search!Linkup
    BY <1>5 DEF Search!Messages
  <2>. QED  BY <1>5, <2>1, SearchLinkup
<1>6. CASE p = "firecrawl"
  <2>1. m = Search!Firecrawl
    BY <1>6 DEF Search!Messages
  <2>2. /\ m.include = Search!Take(SiteLimit, Search!Included)
        /\ m.exclude = Search!Take(SiteLimit, Search!Excluded)
    BY <2>1 DEF Search!Firecrawl, Search!Plain
  <2>. QED  BY <2>2, SearchSaid
<1>7. CASE p \in {"querit", "exa", "parallel", "octen", "tinyfish"}
  <2>1. m \in {Search!Querit, Search!Exa, Search!Parallel, Search!Octen, Search!TinyFish}
    BY <1>7 DEF Search!Messages
  <2>2. m.include = Search!Raw(s1.include) /\ m.exclude = Search!Raw(s1.exclude)
    <3>1. /\ Search!Querit.include = Search!Raw(s1.include) /\ Search!Querit.exclude = Search!Raw(s1.exclude)
          /\ Search!Exa.include = Search!Raw(s1.include) /\ Search!Exa.exclude = Search!Raw(s1.exclude)
          /\ Search!Parallel.include = Search!Raw(s1.include) /\ Search!Parallel.exclude = Search!Raw(s1.exclude)
      BY DEF Search!Querit, Search!Exa, Search!Parallel, Search!Plain
    <3>2. /\ Search!Octen.include = Search!Raw(s1.include) /\ Search!Octen.exclude = Search!Raw(s1.exclude)
          /\ Search!TinyFish.include = Search!Raw(s1.include) /\ Search!TinyFish.exclude = Search!Raw(s1.exclude)
      BY DEF Search!Octen, Search!TinyFish, Search!Plain
    <3>. QED  BY <2>1, <3>1, <3>2
  <2>. QED  BY <2>2, SearchSaid
<1>. QED  BY <1>1, <1>2, <1>3, <1>4, <1>5, <1>6, <1>7 DEF Search!Adapted

LEMMA SearchRestricted == ASSUME Search!SearchInv PROVE Search!Restricted
<1> SUFFICES ASSUME step = "answered", Search!provider \notin {"searxng", "keenable"}, NEW s \in s5
             PROVE  Search!Asked(s)
  BY DEF Search!Restricted
<1>1. /\ s1 \in Requests /\ s2 \in Seq(Search!Adapted) /\ s2 # <<>> /\ ~Search!NothingLeft /\ ~Search!Raises
      /\ s4 = Search!Messages[Search!provider] /\ s \in Search!Matches(s4) /\ s6 = Search!Tell
  BY DEF Search!SearchInv
<1>2. IncludesOnly(s4) /\ ExcludesAll(s4)
  BY <1>1, SearchMessages
<1>3. s6.dropped = s4.dropped
  BY <1>1 DEF Search!Tell
<1>. QED  BY <1>1, <1>2, <1>3, SearchHonoured

\* What the answer tells of recency, vertical and locale is what the message says.
LEMMA SearchTold == ASSUME Search!SearchInv PROVE Search!ToldTruly
<1> SUFFICES ASSUME step = "answered"
             PROVE  LET sdk == Search!provider \in {"octen", "tinyfish"} IN
                    /\ Search!Recency \in Search!Unified /\ (sdk => Search!Recency = Search!SdkRecency)
                         => s6.recency = s4.recency
                    /\ ~sdk => s6.type = s4.type
                    /\ Search!provider \in Search!TellsCountry => s6.country = s4.country
                    /\ Search!provider \in Search!TellsLanguage =>
                         s6.language = s4.language \/ (Search!provider = "brave" /\ s4.language = None)
  BY DEF Search!ToldTruly
<1> DEFINE p == Search!provider
<1>1. /\ s2 \in Seq(Search!Adapted) /\ s2 # <<>> /\ s4 = Search!Messages[p] /\ s6 = Search!Tell
  BY DEF Search!SearchInv
<1>2. p \in Search!Adapted
  BY <1>1, SearchAdapted
<1>3. /\ s6.recency = Search!ToldRecency(p) /\ s6.type = Search!ToldType(p)
      /\ p \in Search!TellsCountry => s6.country = Search!Country(p)
      /\ p \in Search!TellsLanguage => s6.language = Search!Language(p)
  BY <1>1 DEF Search!Tell, Search!Teller
<1>4. ASSUME Search!Recency \in Search!Unified, p \in {"octen", "tinyfish"} => Search!Recency = Search!SdkRecency
      PROVE  s6.recency = s4.recency
  <2>1. Search!Recency # "hour"
    BY <1>4 DEF Search!Unified
  <2>2. CASE p = "exa"
    BY <1>3, <2>2 DEF Search!ToldRecency
  <2>3. CASE p \in {"serper", "you", "tavily", "querit"}
    <3>1. /\ Search!Serper.recency = Search!Recency /\ Search!You.recency = Search!Recency
          /\ Search!Tavily.recency = Search!Recency /\ Search!Querit.recency = Search!Recency
      BY DEF Search!Serper, Search!You, Search!Tavily, Search!Querit, Search!Operators, Search!Plain
    <3>2. s4.recency = Search!Recency
      BY <1>1, <2>3, <3>1 DEF Search!Messages
    <3>. QED  BY <1>3, <1>4, <2>3, <3>2 DEF Search!ToldRecency, Search!TellsRecency
  <2>4. CASE p \in {"firecrawl", "searxng", "keenable"}
    <3>1. /\ Search!Firecrawl.recency = Search!Recency /\ Search!SearXNG.recency = Search!Recency
          /\ Search!Keenable.recency = Search!Recency
      BY DEF Search!Firecrawl, Search!SearXNG, Search!Keenable, Search!Plain
    <3>2. s4.recency = Search!Recency
      BY <1>1, <2>4, <3>1 DEF Search!Messages
    <3>. QED  BY <1>3, <1>4, <2>4, <3>2 DEF Search!ToldRecency, Search!TellsRecency
  <2>5. CASE p = "brave"
    <3>1. Search!Brave.recency = Search!Recency
      BY <2>1 DEF Search!Brave, Search!Fit, Search!Operators, Search!Plain
    <3>2. s4.recency = Search!Recency
      BY <1>1, <2>5, <3>1 DEF Search!Messages
    <3>. QED  BY <1>3, <1>4, <2>5, <3>2 DEF Search!ToldRecency, Search!TellsRecency
  <2>6. CASE p \in {"octen", "tinyfish"}
    <3>1. Search!Octen.recency = Search!SdkRecency /\ Search!TinyFish.recency = Search!SdkRecency
      BY DEF Search!Octen, Search!TinyFish, Search!Plain
    <3>2. s4.recency = Search!Recency
      BY <1>1, <1>4, <2>6, <3>1 DEF Search!Messages
    <3>. QED  BY <1>3, <1>4, <2>6, <3>2 DEF Search!ToldRecency, Search!TellsRecency
  <2>7. CASE p \in {"serpbase", "linkup", "parallel"}
    <3>1. Search!SerpBase.recency = None /\ Search!Linkup.recency = None /\ Search!Parallel.recency = None
      BY DEF Search!SerpBase, Search!Linkup, Search!Parallel, Search!Operators, Search!Plain
    <3>2. s4.recency = None
      BY <1>1, <2>7, <3>1 DEF Search!Messages
    <3>. QED  BY <1>3, <2>7, <3>2 DEF Search!ToldRecency, Search!TellsRecency
  <2> HIDE DEF p
  <2>. QED  BY <1>2, <2>2, <2>3, <2>4, <2>5, <2>6, <2>7 DEF Search!Adapted
<1>5. ASSUME p \notin {"octen", "tinyfish"} PROVE s6.type = s4.type
  <2>1. Search!Serper.type = s1.type
    BY DEF Search!Serper, Search!Operators, Search!Plain
  <2>2. /\ Search!SerpBase.type = "search" /\ Search!You.type = "search" /\ Search!Brave.type = "search"
    BY DEF Search!SerpBase, Search!You, Search!Brave, Search!Fit, Search!Operators, Search!Plain
  <2>3. /\ Search!Tavily.type = "search" /\ Search!Querit.type = "search" /\ Search!Linkup.type = "search"
        /\ Search!Exa.type = "search" /\ Search!Firecrawl.type = "search"
    BY DEF Search!Tavily, Search!Querit, Search!Linkup, Search!Exa, Search!Firecrawl, Search!Plain
  <2>4. /\ Search!Parallel.type = "search" /\ Search!SearXNG.type = "search" /\ Search!Keenable.type = "search"
    BY DEF Search!Parallel, Search!SearXNG, Search!Keenable, Search!Plain
  <2> HIDE DEF p
  <2>5. s4.type = IF p = "serper" THEN s1.type ELSE "search"
    BY <1>1, <1>2, <1>5, <2>1, <2>2, <2>3, <2>4 DEF Search!Adapted, Search!Messages
  <2>. QED  BY <1>3, <2>5 DEF Search!ToldType
<1>6. Search!Operators.country = Search!Country(p) /\ Search!Operators.language = Search!Language(p)
  BY DEF Search!Operators, Search!Plain
<1>7. ASSUME p \in Search!TellsCountry PROVE s6.country = s4.country
  <2>1. /\ Search!Serper.country = Search!Operators.country /\ Search!SerpBase.country = Search!Operators.country
        /\ Search!You.country = Search!Operators.country
    BY DEF Search!Serper, Search!SerpBase, Search!You, Search!Operators, Search!Plain
  <2>2. Search!Brave.country = Search!Operators.country
    BY DEF Search!Brave, Search!Fit, Search!Operators, Search!Plain
  <2>3. Search!Querit.country = Search!Country(p) /\ Search!Firecrawl.country = Search!Country(p)
    BY DEF Search!Querit, Search!Firecrawl, Search!Plain
  <2>4. s4.country = Search!Country(p)
    BY <1>1, <1>6, <1>7, <2>1, <2>2, <2>3 DEF Search!TellsCountry, Search!Messages
  <2>. QED  BY <1>3, <1>7, <2>4
<1>8. ASSUME p \in Search!TellsLanguage
      PROVE  s6.language = s4.language \/ (p = "brave" /\ s4.language = None)
  <2>1. /\ Search!Serper.language = Search!Operators.language /\ Search!SerpBase.language = Search!Operators.language
        /\ Search!You.language = Search!Operators.language
    BY DEF Search!Serper, Search!SerpBase, Search!You, Search!Operators, Search!Plain
  <2>2. Search!Brave.language = Search!Operators.language \/ Search!Brave.language = None
    BY DEF Search!Brave, Search!Fit, Search!Operators, Search!Plain
  <2>3. Search!Querit.language = Search!Language(p) /\ Search!SearXNG.language = Search!Language(p)
    BY DEF Search!Querit, Search!SearXNG, Search!Plain
  <2>4. s4.language = Search!Language(p) \/ (p = "brave" /\ s4.language = None)
    BY <1>1, <1>6, <1>8, <2>1, <2>2, <2>3 DEF Search!TellsLanguage, Search!Messages
  <2>. QED  BY <1>3, <1>8, <2>4
<1>. QED  BY <1>4, <1>5, <1>7, <1>8

-----------------------------------------------------------------------------
(***************************************************************************)
(* Side by side                                                            *)
(***************************************************************************)
LEMMA OnePartMoves ==
  ASSUME ServicesNext
  PROVE  /\ part' = part
         /\ part = "server" => Server!Next
         /\ part = "pool" => Pool!Next
         /\ part = "pacer" => Pacer!Next
         /\ part = "store" => Store!Next
         /\ part = "batch" => Batch!Next
         /\ part = "session" => Session!SessionNext
         /\ part = "legacy" => Legacy!Next
         /\ part = "search" => Search!Next
BY DEF ServicesNext, CacheMoves, SessionMoves, PoolMoves, PacerMoves, StoreMoves, LegacyMoves,
       ServerMoves, BatchMoves, SearchMoves, InSession, InServer, InBatch

LEMMA NothingMoves ==
  UNCHANGED allVars =>
    UNCHANGED <<part, clock, step, s1, s2, s3, s4, s5, s6, s7, s8, s9, s10, s11, s12, s13, s14, s15>>
BY DEF allVars, slots, after5

THEOREM ServerTrue == ServicesSpec => []ServerHolds
<1> DEFINE Kept == part = "server" => Server!Inv
<1>1. ServicesInit => Kept
  BY ServerStarts DEF ServicesInit
<1>2. Kept /\ [ServicesNext]_allVars => Kept'
  <2> SUFFICES ASSUME Kept, [ServicesNext]_allVars, part' = "server"
               PROVE  Server!Inv'
    OBVIOUS
  <2>1. CASE ServicesNext
    BY <2>1, OnePartMoves, ServerKept
  <2>2. CASE UNCHANGED allVars
    BY <2>2, NothingMoves
       DEF Server!Inv, Server!TypeOK, Server!SuccessIsReal, Server!CallOK, Server!NotRunYet
  <2>. QED  BY <2>1, <2>2
<1>3. Kept => ServerHolds
  BY DEF ServerHolds, Server!Inv, Server!CallOK, Server!OneExecution
<1>. QED
  BY <1>1, <1>2, <1>3, PTL DEF ServicesSpec, Services

THEOREM TransportTrue == ServicesSpec => []TransportHolds
<1> DEFINE Kept == (part = "pool" => Pool!Inv) /\ (part = "pacer" => PacerInv)
<1>1. ServicesInit => Kept
  BY PoolStarts, PacerStarts DEF ServicesInit
<1>2. Kept /\ [ServicesNext]_allVars => Kept'
  <2> SUFFICES ASSUME Kept, [ServicesNext]_allVars PROVE Kept'
    OBVIOUS
  <2>1. CASE ServicesNext
    BY <2>1, OnePartMoves, PoolKept, PacerKept
  <2>2. CASE UNCHANGED allVars
    <3>1. UNCHANGED <<part, clock, step, s1, s2, s3, s4, s5>>
      BY <2>2, NothingMoves
    <3>2. ASSUME Pool!Inv PROVE Pool!Inv'
      <4>1. Pool!TypeOK' /\ PoolRest'
        BY <3>1, <3>2 DEF Pool!Inv, Pool!TypeOK, PoolRest, Pool!AnswersAreOwn
      <4>2. PoolIdle'
        BY <3>1, <3>2 DEF Pool!Inv, PoolIdle, Pool!Lies, Pool!IdleOK, Pool!Quiet, Pool!Using
      <4>3. PoolUse'
        BY <3>1, <3>2, SMTT(40) DEF Pool!Inv, PoolUse, Pool!UseOK, Pool!Quiet, Pool!Using, Pool!Pool
      <4>. QED  BY <4>1, <4>2, <4>3 DEF Pool!Inv, PoolIdle, PoolUse, PoolRest
    <3>3. ASSUME PacerInv PROVE PacerInv'
      BY <3>1, <3>3 DEF PacerInv, Pacer!TypeOK, Pacer!SlotsSpaced, Pacer!StartsInTime
    <3>. QED  BY <3>1, <3>2, <3>3
  <2>. QED  BY <2>1, <2>2
<1>3. Kept => TransportHolds
  BY PoolShared DEF TransportHolds, PacerInv, Pool!Inv
<1>. QED
  BY <1>1, <1>2, <1>3, PTL DEF ServicesSpec, Services

\* A sweep ends with what it found inside the limit, whoever publishes sweeps after.
THEOREM StoreTrue == ServicesSpec => []StoreHolds
<1> DEFINE Kept == part = "store" => Store!Inv /\ Store!Accounted
<1>1. ServicesInit => Kept
  BY StoreStarts, AccountedStarts DEF ServicesInit
<1>2. Kept /\ [ServicesNext]_allVars => Kept'
  <2> SUFFICES ASSUME Kept, [ServicesNext]_allVars, part' = "store"
               PROVE  Store!Inv' /\ Store!Accounted'
    OBVIOUS
  <2>1. CASE ServicesNext
    BY <2>1, OnePartMoves, StoreKept, AccountedKept
  <2>2. CASE UNCHANGED allVars
    BY <2>2, NothingMoves, StoreStill, StoreTypes, QuietAccounted
  <2>. QED  BY <2>1, <2>2
<1>3. Kept => StoreHolds
  BY AccountedBounds DEF StoreHolds, Store!Inv
<1>. QED
  BY <1>1, <1>2, <1>3, PTL DEF ServicesSpec, Services

\* What the older search answers is what its providers gave it.
THEOREM LegacyTrue == ServicesSpec => []LegacyHolds
<1> DEFINE Kept == part = "legacy" => Legacy!LegacyInv
<1>1. ServicesInit => Kept
  BY LegacyStarts DEF ServicesInit
<1>2. Kept /\ [ServicesNext]_allVars => Kept'
  <2> SUFFICES ASSUME Kept, [ServicesNext]_allVars, part' = "legacy"
               PROVE  Legacy!LegacyInv'
    OBVIOUS
  <2>1. CASE ServicesNext
    BY <2>1, OnePartMoves, LegacyKept
  <2>2. CASE UNCHANGED allVars
    BY <2>2, NothingMoves, LegacyUnmoved
  <2>. QED  BY <2>1, <2>2
<1>3. Kept => LegacyHolds
  BY DEF LegacyHolds, Legacy!LegacyInv, Legacy!Sound, Legacy!AnswersTrue
<1>. QED
  BY <1>1, <1>2, <1>3, PTL DEF ServicesSpec, Services

\* A search keeps to the domains it was given and tells what was sent.
THEOREM SearchTrue == ServicesSpec => []SearchHolds
<1> DEFINE Kept == part = "search" => Search!SearchInv
<1>1. ServicesInit => Kept
  BY SearchStarts DEF ServicesInit
<1>2. Kept /\ [ServicesNext]_allVars => Kept'
  <2> SUFFICES ASSUME Kept, [ServicesNext]_allVars, part' = "search"
               PROVE  Search!SearchInv'
    OBVIOUS
  <2>1. CASE ServicesNext
    BY <2>1, OnePartMoves, SearchKept
  <2>2. CASE UNCHANGED allVars
    BY <2>2, NothingMoves, SearchUnmoved
  <2>. QED  BY <2>1, <2>2
<1>3. Kept => SearchHolds
  BY SearchRestricted, SearchTold DEF SearchHolds, Search!SearchInv
<1>. QED
  BY <1>1, <1>2, <1>3, PTL DEF ServicesSpec, Services

\* The one property here that is about steps.
THEOREM ForeignKept == ServicesSpec => ForeignTextsKept
<1> DEFINE Kept == part = "store" => Store!Inv
<1>1. ServicesInit => Kept
  BY StoreStarts DEF ServicesInit
<1>2. Kept /\ [ServicesNext]_allVars => Kept'
  <2> SUFFICES ASSUME Kept, [ServicesNext]_allVars, part' = "store"
               PROVE  Store!Inv'
    OBVIOUS
  <2>1. CASE ServicesNext
    BY <2>1, OnePartMoves, StoreKept
  <2>2. CASE UNCHANGED allVars
    BY <2>2, NothingMoves, StoreStill, StoreTypes
  <2>. QED  BY <2>1, <2>2
<1>3. Kept /\ [ServicesNext]_allVars => [part = "store" => Store!ForeignStays]_allVars
  BY OnePartMoves, StoreLeavesForeign
<1>. QED
  BY <1>1, <1>2, <1>3, PTL DEF ServicesSpec, Services, ForeignTextsKept

THEOREM BatchTrue == ServicesSpec => []BatchHolds
<1> DEFINE Kept == part = "batch" => Batch!Inv
<1>1. ServicesInit => Kept
  BY BatchStarts DEF ServicesInit
<1>2. Kept /\ [ServicesNext]_allVars => Kept'
  <2> SUFFICES ASSUME Kept, [ServicesNext]_allVars, part' = "batch"
               PROVE  Batch!Inv'
    OBVIOUS
  <2>1. CASE ServicesNext
    BY <2>1, OnePartMoves, BatchKept
  <2>2. CASE UNCHANGED allVars
    BY <2>2, NothingMoves, BatchStill
  <2>. QED  BY <2>1, <2>2
<1>3. Kept => BatchHolds
  BY BatchTrueOf DEF BatchHolds, Batch!Inv
<1>. QED
  BY <1>1, <1>2, <1>3, PTL DEF ServicesSpec, Services

THEOREM SessionTrue == ServicesSpec => []SessionHolds
<1> DEFINE Kept == part = "session" => Session!Inv
<1>1. ServicesInit => Kept
  BY SessionStarts DEF ServicesInit
<1>2. Kept /\ [ServicesNext]_allVars => Kept'
  <2> SUFFICES ASSUME Kept, [ServicesNext]_allVars, part' = "session"
               PROVE  Session!Inv'
    OBVIOUS
  <2>1. CASE ServicesNext
    BY <2>1, OnePartMoves, SessionKept
  <2>2. CASE UNCHANGED allVars
    BY <2>2, NothingMoves, SessionStill
  <2>. QED  BY <2>1, <2>2
<1>3. Kept => SessionHolds
  BY SessionTrueOf DEF SessionHolds, Session!Inv
<1>. QED
  BY <1>1, <1>2, <1>3, PTL DEF ServicesSpec, Services
=============================================================================
