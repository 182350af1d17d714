--------------------------- MODULE MigrationProofs ---------------------------
(***************************************************************************)
(* The shared JSON files and their migration, for any number of threads,   *)
(* processes and providers: no sample of a latency is lost, updates of the *)
(* health file follow one another within a process, what a migration       *)
(* imports is one state of the two files, and a rollback that reports      *)
(* success has restored its backup's database and secret.                  *)
(***************************************************************************)
EXTENDS StateMigration, SequenceTheorems, TLAPS

Fields == {"pc", "op", "on", "seen"}
Steps  == {"idle", "waits", "locked", "loaded"}

ShapeOK(t) ==
  /\ DOMAIN job[t] = Fields
  /\ job[t].pc \in Steps
  /\ job[t].pc # "idle" => job[t].on \in Provider
  /\ job[t].pc = "waits" => job[t].op = "record"

\* Who is between locking and saving.
OwnsHealth(t) == job[t].pc \in {"locked", "loaded"} /\ job[t].op # "record"
OwnsStats(t)  == job[t].pc \in {"locked", "loaded"} /\ job[t].op = "record"

Shapes == DOMAIN job = Thread /\ DOMAIN healthLock = Process /\ \A t \in Thread : ShapeOK(t)

LocksHeld ==
  \A t \in Thread : /\ OwnsHealth(t) => healthLock[ProcessOf[t]] = t
                    /\ OwnsStats(t) => fileLock = t

\* What a thread read of the statistics is still in the file when it saves.
SeenFresh ==
  \A t \in Thread : OwnsStats(t) /\ job[t].pc = "loaded" =>
    /\ job[t].seen \in {stats, NoSamples}
    /\ ~misread => job[t].seen = stats

\* Samples are numbered as they are saved, and the file holds the last of them.
Numbered(f) ==
  /\ f \in [Provider -> Seq(Nat)]
  /\ \A p \in Provider : \A i \in 1 .. Len(f[p]) : f[p][i] <= Len(recorded[p])

StatsOK ==
  /\ recorded \in [Provider -> Seq(Nat)]
  /\ Numbered(stats)
  /\ NoSampleLost

FilesInv == Shapes /\ LocksHeld /\ SeenFresh /\ StatsOK /\ HealthUpdatesInTurn
-----------------------------------------------------------------------------
(***************************************************************************)
(* Sequences.                                                              *)
(***************************************************************************)

LEMMA LastOfType ==
  ASSUME NEW s \in Seq(Nat), NEW n \in Nat \ {0}
  PROVE  /\ LastOf(s, n) \in Seq(Nat)
         /\ Len(LastOf(s, n)) = IF Len(s) <= n THEN Len(s) ELSE n
         /\ \A i \in 1 .. Len(LastOf(s, n)) :
              LastOf(s, n)[i] = IF Len(s) <= n THEN s[i] ELSE s[Len(s) - n + i]
<1>1. CASE Len(s) <= n
  BY <1>1 DEF LastOf
<1>2. CASE ~(Len(s) <= n)
  <2> DEFINE m == Len(s) - n + 1
  <2>1. m \in 1 .. Len(s) + 1 /\ Len(s) \in m - 1 .. Len(s) /\ Len(s) - m + 1 = n
    BY <1>2
  <2>2. LastOf(s, n) = SubSeq(s, m, Len(s))
    BY <1>2 DEF LastOf
  <2>3. SubSeq(s, m, Len(s)) \in Seq(Nat) /\ Len(SubSeq(s, m, Len(s))) = n
        /\ \A i \in 1 .. n : SubSeq(s, m, Len(s))[i] = s[m + i - 1]
    <3> HIDE DEF m
    <3> QED BY <2>1
  <2> QED BY <1>2, <2>2, <2>3
<1> QED BY <1>1, <1>2

\* Whether the oldest samples are dropped at every save or only once makes no
\* difference.
LEMMA LastOfAppend ==
  ASSUME NEW s \in Seq(Nat), NEW e \in Nat, NEW n \in Nat \ {0}
  PROVE  LastOf(Append(LastOf(s, n), e), n) = LastOf(Append(s, e), n)
<1>1. CASE Len(s) <= n
  BY <1>1 DEF LastOf
<1>2. CASE ~(Len(s) <= n)
  <2> DEFINE a == Append(LastOf(s, n), e)
             b == Append(s, e)
  <2>1. LastOf(s, n) \in Seq(Nat) /\ Len(LastOf(s, n)) = n
        /\ \A i \in 1 .. n : LastOf(s, n)[i] = s[Len(s) - n + i]
    BY <1>2, LastOfType
  <2>2. a \in Seq(Nat) /\ Len(a) = n + 1 /\ b \in Seq(Nat) /\ Len(b) = Len(s) + 1
    BY <2>1
  <2>3. \A i \in 1 .. n : a[1 + i] = b[Len(s) + 1 - n + i]
    <3> TAKE i \in 1 .. n
    <3>1. CASE i = n
      <4>1. a[n + 1] = e
        BY <2>1, AppendProperties, SMTT(40)
      <4>2. b[Len(s) + 1] = e
        BY AppendProperties
      <4>3. 1 + i = n + 1 /\ Len(s) + 1 - n + i = Len(s) + 1
        BY <3>1
      <4> HIDE DEF a, b
      <4> QED BY <4>1, <4>2, <4>3
    <3>2. CASE i # n
      <4>1. 1 + i \in 1 .. n /\ Len(s) + 1 - n + i \in 1 .. Len(s)
        BY <1>2, <3>2
      <4>2. a[1 + i] = LastOf(s, n)[1 + i]
        BY <2>1, <4>1
      <4>3. b[Len(s) + 1 - n + i] = s[Len(s) + 1 - n + i]
        BY <4>1
      <4> QED BY <2>1, <4>1, <4>2, <4>3, SMTT(40)
    <3> QED BY <3>1, <3>2
  <2>4. LastOf(a, n) \in Seq(Nat) /\ Len(LastOf(a, n)) = n
        /\ \A i \in 1 .. n : LastOf(a, n)[i] = a[1 + i]
    <3> HIDE DEF a
    <3>1. ~(Len(a) <= n) /\ \A i \in 1 .. n : Len(a) - n + i = 1 + i
      BY <1>2, <2>2
    <3>2. /\ LastOf(a, n) \in Seq(Nat)
          /\ Len(LastOf(a, n)) = IF Len(a) <= n THEN Len(a) ELSE n
          /\ \A i \in 1 .. Len(LastOf(a, n)) :
               LastOf(a, n)[i] = IF Len(a) <= n THEN a[i] ELSE a[Len(a) - n + i]
      BY <2>2, LastOfType
    <3> QED BY <3>1, <3>2
  <2>5. LastOf(b, n) \in Seq(Nat) /\ Len(LastOf(b, n)) = n
        /\ \A i \in 1 .. n : LastOf(b, n)[i] = b[Len(s) + 1 - n + i]
    <3> HIDE DEF b
    <3>1. ~(Len(b) <= n) /\ \A i \in 1 .. n : Len(b) - n + i = Len(s) + 1 - n + i
      BY <1>2, <2>2
    <3>2. /\ LastOf(b, n) \in Seq(Nat) /\ Len(LastOf(b, n)) = n
          /\ \A i \in 1 .. n : LastOf(b, n)[i] = b[Len(b) - n + i]
      <4>1. /\ LastOf(b, n) \in Seq(Nat)
            /\ Len(LastOf(b, n)) = IF Len(b) <= n THEN Len(b) ELSE n
            /\ \A i \in 1 .. Len(LastOf(b, n)) :
                 LastOf(b, n)[i] = IF Len(b) <= n THEN b[i] ELSE b[Len(b) - n + i]
        BY <2>2, LastOfType
      <4> QED BY <3>1, <4>1
    <3> QED BY <3>1, <3>2
  <2> HIDE DEF a, b
  <2>6. LastOf(a, n) = LastOf(b, n)
    BY <2>3, <2>4, <2>5, SeqEqual
  <2> QED BY <2>6 DEF a, b
<1> QED BY <1>1, <1>2

\* What a save keeps is the new sample and some of the old ones.
LEMMA LastOfKept ==
  ASSUME NEW s \in Seq(Nat), NEW e \in Nat, NEW n \in Nat \ {0}
  PROVE  /\ LastOf(Append(s, e), n) \in Seq(Nat)
         /\ \A i \in 1 .. Len(LastOf(Append(s, e), n)) :
              \/ LastOf(Append(s, e), n)[i] = e
              \/ \E k \in 1 .. Len(s) : LastOf(Append(s, e), n)[i] = s[k]
<1> DEFINE a == Append(s, e)
           l == LastOf(a, n)
<1>1. a \in Seq(Nat) /\ Len(a) = Len(s) + 1 /\ a[Len(a)] = e
      /\ \A i \in 1 .. Len(s) : a[i] = s[i]
  BY AppendProperties
<1>2. /\ l \in Seq(Nat) /\ Len(l) = IF Len(a) <= n THEN Len(a) ELSE n
      /\ \A i \in 1 .. Len(l) : l[i] = IF Len(a) <= n THEN a[i] ELSE a[Len(a) - n + i]
  <2> HIDE DEF a
  <2> QED BY <1>1, LastOfType
<1> HIDE DEF a, l
<1>3. ASSUME NEW i \in 1 .. Len(l) PROVE \E k \in 1 .. Len(a) : l[i] = a[k]
  <2>1. CASE Len(a) <= n
    <3>1. i \in 1 .. Len(a) /\ l[i] = a[i]
      BY <1>1, <1>2, <2>1
    <3> QED BY <3>1
  <2>2. CASE ~(Len(a) <= n)
    <3>1. Len(l) = n /\ Len(a) \in Nat
      BY <1>1, <1>2, <2>2
    <3>2. Len(a) - n + i \in 1 .. Len(a)
      BY <2>2, <3>1
    <3>3. l[i] = a[Len(a) - n + i]
      BY <1>2, <2>2, <3>1
    <3> QED BY <3>2, <3>3
  <2> QED BY <2>1, <2>2
<1>4. \A i \in 1 .. Len(l) : l[i] = e \/ \E k \in 1 .. Len(s) : l[i] = s[k]
  <2> TAKE i \in 1 .. Len(l)
  <2>1. PICK k \in 1 .. Len(a) : l[i] = a[k]
    BY <1>3
  <2>2. CASE k = Len(a)
    BY <1>1, <2>1, <2>2
  <2>3. CASE k # Len(a)
    <3>1. k \in 1 .. Len(s) /\ l[i] = s[k]
      BY <1>1, <2>1, <2>3
    <3> QED BY <3>1
  <2> QED BY <2>2, <2>3
<1> QED BY <1>2, <1>4 DEF a, l

LEMMA LastOfNewest ==
  ASSUME NEW s \in Seq(Nat), NEW e \in Nat, NEW n \in Nat \ {0}
  PROVE  \E i \in 1 .. Len(LastOf(Append(s, e), n)) : LastOf(Append(s, e), n)[i] = e
<1> DEFINE a == Append(s, e)
           l == LastOf(a, n)
<1>1. a \in Seq(Nat) /\ Len(a) = Len(s) + 1 /\ a[Len(a)] = e
  BY AppendProperties
<1>2. /\ l \in Seq(Nat) /\ Len(l) = IF Len(a) <= n THEN Len(a) ELSE n
      /\ \A i \in 1 .. Len(l) : l[i] = IF Len(a) <= n THEN a[i] ELSE a[Len(a) - n + i]
  <2> HIDE DEF a
  <2> QED BY <1>1, LastOfType
<1> HIDE DEF a, l
<1>3. Len(l) \in 1 .. Len(l)
  BY <1>1, <1>2
<1>4. l[Len(l)] = e
  <2>1. CASE Len(a) <= n
    BY <1>1, <1>2, <1>3, <2>1
  <2>2. CASE ~(Len(a) <= n)
    <3>1. Len(l) = n /\ Len(a) - n + n = Len(a)
      BY <1>1, <1>2, <2>2
    <3> QED BY <1>1, <1>2, <1>3, <2>2, <3>1
  <2> QED BY <2>1, <2>2
<1>5. \E i \in 1 .. Len(l) : l[i] = e
  BY <1>3, <1>4
<1> QED BY <1>5 DEF a, l
-----------------------------------------------------------------------------
(***************************************************************************)
(* The files.                                                              *)
(***************************************************************************)

LEMMA FilesInvInit == FilesInit => FilesInv
<1> SUFFICES ASSUME FilesInit PROVE FilesInv
  OBVIOUS
<1> USE SharedFilesAssumption DEF FilesInit, Idle, NoSamples
<1>1. Shapes
  BY DEF Shapes, ShapeOK, Fields, Steps
<1>2. LocksHeld /\ SeenFresh /\ HealthUpdatesInTurn
  BY DEF LocksHeld, OwnsHealth, OwnsStats, SeenFresh, HealthUpdatesInTurn
<1>3. StatsOK
  <2>1. \A p \in Provider : recorded[p] = <<>> /\ stats[p] = <<>>
    OBVIOUS
  <2>2. LastOf(<<>>, Window) = <<>>
    BY DEF LastOf
  <2>3. <<>> \in Seq(Nat) /\ Len(<<>>) = 0
    OBVIOUS
  <2>4. recorded \in [Provider -> Seq(Nat)] /\ stats \in [Provider -> Seq(Nat)]
    BY <2>3
  <2> QED BY <2>1, <2>2, <2>3, <2>4 DEF StatsOK, Numbered, NoSampleLost
<1> QED BY <1>1, <1>2, <1>3 DEF FilesInv

LEMMA FilesInvStays ==
  FilesInv /\ UNCHANGED <<files, locks, job, recorded, healthBy, misread>> => FilesInv'
BY DEF FilesInv, files, locks, Shapes, ShapeOK, LocksHeld, OwnsHealth, OwnsStats, SeenFresh,
       StatsOK, Numbered, NoSampleLost, HealthUpdatesInTurn

\* A step that leaves the files alone and does not make a read of them.
LEMMA LockStep ==
  ASSUME FilesInv, NEW t \in Thread,
         \/ \E p \in Provider : LockHealth(t, "mark", p) \/ LockHealth(t, "reset", p)
         \/ \E p \in Provider : LockStats(t, p)
         \/ LockFile(t)
  PROVE  FilesInv'
<1> USE SharedFilesAssumption DEF FilesInv, files
<1>1. ASSUME NEW p \in Provider, NEW op \in {"mark", "reset"}, LockHealth(t, op, p) PROVE FilesInv'
  <2>1. \A u \in Thread : u # t => job'[u] = job[u]
    BY <1>1 DEF LockHealth, Shapes
  <2>2. job'[t] = [pc |-> "locked", op |-> op, on |-> p, seen |-> None]
    BY <1>1 DEF LockHealth, Shapes
  <2>3. Shapes'
    BY <1>1, <2>1, <2>2 DEF LockHealth, Shapes, ShapeOK, Fields, Steps
  <2>4. LocksHeld'
    BY <1>1, <2>1, <2>2 DEF LockHealth, LocksHeld, OwnsHealth, OwnsStats, Shapes
  <2>5. SeenFresh'
    BY <1>1, <2>1, <2>2 DEF LockHealth, SeenFresh, OwnsStats
  <2>6. StatsOK'
    BY <1>1 DEF LockHealth, StatsOK, Numbered, NoSampleLost
  <2>7. HealthUpdatesInTurn'
    BY <1>1, <2>1, <2>2 DEF LockHealth, HealthUpdatesInTurn
  <2> QED BY <2>3, <2>4, <2>5, <2>6, <2>7
<1>2. ASSUME NEW p \in Provider, LockStats(t, p) PROVE FilesInv'
  <2>1. \A u \in Thread : u # t => job'[u] = job[u]
    BY <1>2 DEF LockStats, Shapes
  <2>2. job'[t] = [pc |-> "waits", op |-> "record", on |-> p, seen |-> None]
    BY <1>2 DEF LockStats, Shapes
  <2>3. Shapes'
    BY <1>2, <2>1, <2>2 DEF LockStats, Shapes, ShapeOK, Fields, Steps
  <2>4. LocksHeld'
    BY <1>2, <2>1, <2>2 DEF LockStats, LocksHeld, OwnsHealth, OwnsStats
  <2>5. SeenFresh'
    BY <1>2, <2>1, <2>2 DEF LockStats, SeenFresh, OwnsStats
  <2>6. StatsOK'
    BY <1>2 DEF LockStats, StatsOK, Numbered, NoSampleLost
  <2>7. HealthUpdatesInTurn'
    BY <1>2, <2>1, <2>2 DEF LockStats, HealthUpdatesInTurn
  <2> QED BY <2>3, <2>4, <2>5, <2>6, <2>7
<1>3. ASSUME LockFile(t) PROVE FilesInv'
  <2>1. \A u \in Thread : u # t => job'[u] = job[u]
    BY <1>3 DEF LockFile, Shapes
  <2>2. job'[t] = [job[t] EXCEPT !.pc = "locked"]
    BY <1>3 DEF LockFile, Shapes
  <2>3. /\ job'[t].pc = "locked" /\ job'[t].op = job[t].op /\ job'[t].on = job[t].on
        /\ DOMAIN job'[t] = Fields
    BY <2>2 DEF Shapes, ShapeOK, Fields
  <2>4. Shapes'
    BY <1>3, <2>1, <2>3 DEF LockFile, Shapes, ShapeOK, Fields, Steps
  <2>5. LocksHeld'
    BY <1>3, <2>1, <2>3 DEF LockFile, FileLockFree, LocksHeld, OwnsHealth, OwnsStats, Shapes, ShapeOK
  <2>6. SeenFresh'
    BY <1>3, <2>1, <2>3 DEF LockFile, history, SeenFresh, OwnsStats
  <2>7. StatsOK'
    BY <1>3 DEF LockFile, history, StatsOK, Numbered, NoSampleLost
  <2>8. HealthUpdatesInTurn'
    BY <1>3, <2>1, <2>3 DEF LockFile, history, HealthUpdatesInTurn
  <2> QED BY <2>4, <2>5, <2>6, <2>7, <2>8
<1> QED BY <1>1, <1>2, <1>3

\* A read of a file, which may fail.
LEMMA LoadStep ==
  ASSUME FilesInv, NEW t \in Thread, Load(t)
  PROVE  FilesInv'
<1> USE DEF FilesInv, files, locks
<1> DEFINE stored == IF job[t].op = "record" THEN stats ELSE health
           blank  == IF job[t].op = "record" THEN NoSamples ELSE NoHealth
<1>1. \A u \in Thread : u # t => job'[u] = job[u]
  BY DEF Load, Shapes
<1>2. PICK seen \in {stored, blank} :
        /\ job'[t] = [job[t] EXCEPT !.pc = "loaded", !.seen = seen]
        /\ (seen = stored /\ misread' = misread) \/ misread' = TRUE
  BY DEF Load, Shapes
<1>3. /\ job'[t].pc = "loaded" /\ job'[t].op = job[t].op /\ job'[t].on = job[t].on
      /\ job'[t].seen = seen /\ DOMAIN job'[t] = Fields
  BY <1>2 DEF Shapes, ShapeOK, Fields
<1>4. Shapes'
  BY <1>1, <1>3 DEF Load, Shapes, ShapeOK, Fields, Steps
<1>5. LocksHeld'
  BY <1>1, <1>3 DEF Load, LocksHeld, OwnsHealth, OwnsStats
<1>6. SeenFresh'
  <2>1. UNCHANGED stats /\ (misread => misread')
    BY <1>2 DEF Load
  <2>2. ASSUME NEW u \in Thread, u # t, OwnsStats(u)', job'[u].pc = "loaded"
        PROVE  job'[u].seen \in {stats', NoSamples} /\ (~misread' => job'[u].seen = stats')
    BY <1>1, <2>1, <2>2 DEF SeenFresh, OwnsStats
  <2>3. ASSUME OwnsStats(t)'
        PROVE  job'[t].seen \in {stats', NoSamples} /\ (~misread' => job'[t].seen = stats')
    BY <1>2, <1>3, <2>1, <2>3 DEF OwnsStats
  <2> QED BY <2>2, <2>3 DEF SeenFresh
<1>7. StatsOK'
  BY <1>2 DEF Load, StatsOK, Numbered, NoSampleLost
<1>8. HealthUpdatesInTurn'
  <2>1. UNCHANGED <<health, healthBy>> /\ (misread => misread')
    BY <1>2 DEF Load
  <2>2. ASSUME job'[t].op # "record", ~misread' PROVE job'[t].seen = health'
    BY <1>2, <1>3, <2>1, <2>2
  <2> QED BY <1>1, <2>1, <2>2 DEF HealthUpdatesInTurn
<1> QED BY <1>4, <1>5, <1>6, <1>7, <1>8

\* A save of the health file.
LEMMA SaveHealthStep ==
  ASSUME FilesInv, NEW t \in Thread, SaveFailure(t) \/ SaveReset(t)
  PROVE  FilesInv'
<1> USE SharedFilesAssumption DEF FilesInv, files, locks
<1>1. /\ job' = [job EXCEPT ![t] = Idle]
      /\ healthLock' = [healthLock EXCEPT ![ProcessOf[t]] = None]
      /\ UNCHANGED <<stats, statsLock, fileLock, recorded, misread>>
      /\ OwnsHealth(t)
      /\ healthBy' = ProcessOf[t] \/ UNCHANGED <<health, healthBy>>
  BY DEF SaveFailure, SaveReset, FreeHealth, Rest, OwnsHealth
<1>2. job'[t] = Idle /\ Idle.pc = "idle" /\ Idle.op = "none" /\ DOMAIN Idle = Fields
  BY <1>1 DEF Shapes, Idle, Fields
<1>3. \A u \in Thread : u # t => job'[u] = job[u]
  BY <1>1 DEF Shapes
<1>4. Shapes'
  BY <1>1, <1>2, <1>3 DEF Shapes, ShapeOK, Fields, Steps
<1>5. LocksHeld'
  <2>1. ASSUME NEW u \in Thread, u # t, OwnsHealth(u) PROVE healthLock'[ProcessOf[u]] = u
    <3>1. healthLock[ProcessOf[u]] = u /\ healthLock[ProcessOf[t]] = t
      BY <1>1, <2>1 DEF LocksHeld
    <3>2. ProcessOf[u] # ProcessOf[t]
      BY <2>1, <3>1
    <3> QED BY <1>1, <3>1, <3>2 DEF Shapes
  <2> QED BY <1>1, <1>2, <1>3, <2>1 DEF LocksHeld, OwnsHealth, OwnsStats
<1>6. SeenFresh'
  BY <1>1, <1>2, <1>3 DEF SeenFresh, OwnsStats
<1>7. StatsOK'
  BY <1>1 DEF StatsOK, Numbered, NoSampleLost
<1>8. HealthUpdatesInTurn'
  <2> SUFFICES ASSUME NEW u \in Thread, u # t, OwnsHealth(u), healthBy' = ProcessOf[t]
               PROVE  ProcessOf[u] # ProcessOf[t]
    BY <1>1, <1>2, <1>3 DEF HealthUpdatesInTurn, OwnsHealth
  <2> QED BY <1>1 DEF LocksHeld
<1> QED BY <1>4, <1>5, <1>6, <1>7, <1>8

\* A save of the statistics: the thread alone holds the lock of the file, so what
\* it read is what it replaces.
LEMMA SaveSampleStep ==
  ASSUME FilesInv, NEW t \in Thread, SaveSample(t)
  PROVE  FilesInv'
<1> USE SharedFilesAssumption DEF FilesInv, files, locks
<1> DEFINE p == job[t].on
           e == Len(recorded[p]) + 1
<1>1. /\ job' = [job EXCEPT ![t] = Idle]
      /\ stats' = [job[t].seen EXCEPT ![p] = LastOf(Append(@, e), Window)]
      /\ recorded' = [recorded EXCEPT ![p] = Append(@, e)]
      /\ OwnsStats(t) /\ job[t].pc = "loaded"
      /\ UNCHANGED <<health, healthLock, healthBy, misread>>
  BY DEF SaveSample, FreeStats, Rest, OwnsStats
<1>2. job'[t] = Idle /\ Idle.pc = "idle" /\ Idle.op = "none" /\ DOMAIN Idle = Fields
  BY <1>1 DEF Shapes, Idle, Fields
<1>3. \A u \in Thread : u # t => job'[u] = job[u] /\ ~OwnsStats(u)
  BY <1>1 DEF Shapes, LocksHeld
<1>4. p \in Provider /\ recorded \in [Provider -> Seq(Nat)]
  BY <1>1 DEF Shapes, ShapeOK, StatsOK
<1>5. Shapes'
  BY <1>1, <1>2, <1>3 DEF Shapes, ShapeOK, Fields, Steps
<1>6. LocksHeld'
  BY <1>1, <1>2, <1>3 DEF LocksHeld, OwnsHealth, OwnsStats
<1>7. SeenFresh'
  BY <1>2, <1>3 DEF SeenFresh, OwnsStats
<1>8. HealthUpdatesInTurn'
  BY <1>1, <1>2, <1>3 DEF HealthUpdatesInTurn
<1>9. StatsOK'
  <2> DEFINE old == job[t].seen
  <2>1. e \in Nat /\ recorded[p] \in Seq(Nat)
    BY <1>4
  <2>2. Numbered(old) /\ (~misread => old = stats)
    <3>1. Numbered(NoSamples)
      <4>1. <<>> \in Seq(Nat) /\ Len(<<>>) = 0
        OBVIOUS
      <4> QED BY <4>1 DEF Numbered, NoSamples
    <3> QED BY <1>1, <3>1 DEF SeenFresh, StatsOK
  <2>3. recorded' \in [Provider -> Seq(Nat)]
    BY <1>1, <1>4, <2>1, AppendProperties
  <2>4. recorded'[p] = Append(recorded[p], e) /\ Len(recorded'[p]) = e
    BY <1>1, <1>4, <2>1, AppendProperties
  <2>5. \A o \in Provider : o # p => recorded'[o] = recorded[o] /\ stats'[o] = old[o]
    BY <1>1, <1>4, <2>2 DEF Numbered
  <2>6. stats'[p] = LastOf(Append(old[p], e), Window) /\ old[p] \in Seq(Nat)
    BY <1>1, <1>4, <2>2 DEF Numbered
  <2>7. /\ stats'[p] \in Seq(Nat)
        /\ \A i \in 1 .. Len(stats'[p]) : stats'[p][i] = e \/ \E k \in 1 .. Len(old[p]) : stats'[p][i] = old[p][k]
    <3>1. Window \in Nat \ {0}
      OBVIOUS
    <3> DEFINE s == old[p]
    <3>2. s \in Seq(Nat) /\ stats'[p] = LastOf(Append(s, e), Window)
      BY <2>6
    <3>3. SUFFICES /\ stats'[p] \in Seq(Nat)
                   /\ \A i \in 1 .. Len(stats'[p]) :
                        stats'[p][i] = e \/ \E k \in 1 .. Len(s) : stats'[p][i] = s[k]
      OBVIOUS
    <3> HIDE DEF p, e, old, s
    <3>4. /\ LastOf(Append(s, e), Window) \in Seq(Nat)
          /\ \A i \in 1 .. Len(LastOf(Append(s, e), Window)) :
               \/ LastOf(Append(s, e), Window)[i] = e
               \/ \E k \in 1 .. Len(s) : LastOf(Append(s, e), Window)[i] = s[k]
      BY <2>1, <3>1, <3>2, LastOfKept
    <3> QED BY <3>2, <3>4
  <2>8. \A i \in 1 .. Len(stats'[p]) : stats'[p][i] <= Len(recorded'[p])
    <3>1. \A k \in 1 .. Len(old[p]) : old[p][k] <= e
      BY <1>4, <2>1, <2>2, <2>6, SMTT(40) DEF Numbered
    <3> TAKE i \in 1 .. Len(stats'[p])
    <3> HIDE DEF p, e, old
    <3>2. CASE stats'[p][i] = e
      BY <2>1, <2>4, <3>2
    <3>3. CASE \E k \in 1 .. Len(old[p]) : stats'[p][i] = old[p][k]
      <4> PICK k \in 1 .. Len(old[p]) : stats'[p][i] = old[p][k]
        BY <3>3
      <4> QED BY <2>4, <3>1
    <3> QED BY <2>7, <3>2, <3>3
  <2>9. stats' \in [Provider -> Seq(Nat)]
    BY <1>1, <1>4, <2>2, <2>6, <2>7 DEF Numbered
  <2>10. Numbered(stats)'
    <3> SUFFICES ASSUME NEW o \in Provider, NEW i \in 1 .. Len(stats'[o])
                 PROVE  stats'[o][i] <= Len(recorded'[o])
      BY <2>9 DEF Numbered
    <3> HIDE DEF p, e, old
    <3> QED BY <2>2, <2>5, <2>8 DEF Numbered
  <2>11. NoSampleLost'
    <3> SUFFICES ASSUME ~misread, NEW o \in Provider
                 PROVE  stats'[o] = LastOf(recorded'[o], Window)
      BY <1>1 DEF NoSampleLost
    <3>1. old = stats /\ stats[o] = LastOf(recorded[o], Window)
      BY <2>2 DEF StatsOK, NoSampleLost
    <3>2. CASE o = p
      <4>1. LastOf(Append(LastOf(recorded[p], Window), e), Window) = LastOf(Append(recorded[p], e), Window)
        BY <2>1, LastOfAppend
      <4> QED BY <2>4, <2>6, <3>1, <3>2, <4>1
    <3>3. CASE o # p
      BY <2>5, <3>1, <3>3
    <3> QED BY <3>2, <3>3
  <2> QED BY <2>3, <2>10, <2>11 DEF StatsOK
<1> QED BY <1>5, <1>6, <1>7, <1>8, <1>9

\* A write that fails and a process that dies give their locks back.
LEMMA FaultStep ==
  ASSUME FilesInv, (\E t \in Thread : SaveFails(t)) \/ (\E c \in Process : Die(c))
  PROVE  FilesInv'
<1> USE SharedFilesAssumption DEF FilesInv, files, locks
<1>0. Idle.pc = "idle" /\ Idle.op = "none" /\ DOMAIN Idle = Fields
  BY DEF Idle, Fields
<1>1. ASSUME NEW t \in Thread, SaveFails(t) PROVE FilesInv'
  <2>1. job'[t] = Idle /\ \A u \in Thread : u # t => job'[u] = job[u]
    BY <1>1 DEF SaveFails, Rest, Shapes
  <2>2. UNCHANGED <<health, stats, recorded, healthBy, misread>>
    BY <1>1 DEF SaveFails
  <2>3. /\ DOMAIN job' = Thread /\ DOMAIN healthLock' = Process
    BY <1>1 DEF SaveFails, Rest, FreeHealth, FreeStats, Shapes
  <2>4. Shapes'
    BY <1>0, <2>1, <2>3 DEF Shapes, ShapeOK, Fields, Steps
  <2>5. ASSUME NEW u \in Thread, u # t, OwnsHealth(u) PROVE healthLock'[ProcessOf[u]] = u
    <3>1. healthLock[ProcessOf[u]] = u
      BY <2>5 DEF LocksHeld
    <3>2. CASE job[t].op = "record"
      BY <1>1, <3>1, <3>2 DEF SaveFails
    <3>3. CASE job[t].op # "record"
      <4>1. healthLock[ProcessOf[t]] = t /\ healthLock' = [healthLock EXCEPT ![ProcessOf[t]] = None]
        BY <1>1, <3>3 DEF SaveFails, FreeHealth, LocksHeld, OwnsHealth
      <4>2. ProcessOf[u] # ProcessOf[t]
        BY <2>5, <3>1, <4>1
      <4> QED BY <3>1, <4>1, <4>2 DEF Shapes
    <3> QED BY <3>2, <3>3
  <2>6. ASSUME NEW u \in Thread, u # t, OwnsStats(u) PROVE fileLock' = u
    BY <1>1, <2>6 DEF SaveFails, FreeStats, LocksHeld
  <2>7. LocksHeld'
    BY <1>0, <2>1, <2>5, <2>6 DEF LocksHeld, OwnsHealth, OwnsStats
  <2>8. SeenFresh' /\ HealthUpdatesInTurn'
    BY <1>0, <2>1, <2>2 DEF SeenFresh, OwnsStats, HealthUpdatesInTurn
  <2>9. StatsOK'
    BY <2>2 DEF StatsOK, Numbered, NoSampleLost
  <2> QED BY <2>4, <2>7, <2>8, <2>9
<1>2. ASSUME NEW c \in Process, Die(c) PROVE FilesInv'
  <2>1. \A u \in Thread : job'[u] = IF ProcessOf[u] = c THEN Idle ELSE job[u]
    BY <1>2 DEF Die
  <2>2. UNCHANGED <<health, stats, recorded, healthBy, misread>>
    BY <1>2 DEF Die
  <2>3. Shapes'
    BY <1>0, <1>2, <2>1 DEF Die, Shapes, ShapeOK, Fields, Steps
  <2>4. LocksHeld'
    BY <1>0, <1>2, <2>1 DEF Die, LocksHeld, OwnsHealth, OwnsStats, Shapes
  <2>5. SeenFresh' /\ HealthUpdatesInTurn'
    BY <1>0, <2>1, <2>2 DEF SeenFresh, OwnsStats, HealthUpdatesInTurn
  <2>6. StatsOK'
    BY <2>2 DEF StatsOK, Numbered, NoSampleLost
  <2> QED BY <2>3, <2>4, <2>5, <2>6
<1> QED BY <1>1, <1>2

LEMMA FilesInvStep == FilesInv /\ FilesNext => FilesInv'
BY LockStep, LoadStep, SaveHealthStep, SaveSampleStep, FaultStep DEF FilesNext, FilesStep
-----------------------------------------------------------------------------
(***************************************************************************)
(* The migration and the users of the database read the files, and never   *)
(* write them.                                                             *)
(***************************************************************************)
FilesStand == UNCHANGED <<files, locks, job, recorded, healthBy, misread>>

LEMMA OthersLeaveFiles ==
  ASSUME [Next]_vars, ~FilesMove
  PROVE  FilesStand
<1> USE DEF FilesStand
<1>1. CASE UNCHANGED vars
  BY <1>1 DEF vars, fileVars, history
<1>2. CASE \E u \in User : MakeSecret(u) \/ Connect(u) \/ Commit(u)
  BY <1>2 DEF MakeSecret, Connect, Commit, fileVars, history
<1>3. CASE Checkpoint
  BY <1>3 DEF Checkpoint, fileVars, history
<1>4. CASE MigrationStep
  <2>1. CASE \E dry \in BOOLEAN : Migrate(dry)
    BY <2>1 DEF Migrate, fileVars, history
  <2>2. CASE Read \/ Preflight
    BY <2>2 DEF Read, Preflight, OnlyMig
  <2>3. CASE Normalize \/ MakeDir
    BY <2>3 DEF Normalize, MakeDir, fileVars, history
  <2>4. CASE VerifySource \/ Copy \/ WriteManifest
    BY <2>4 DEF VerifySource, Copy, WriteManifest, OnlyMig
  <2>5. CASE OpenStore \/ Import
    BY <2>5 DEF OpenStore, Import, OnlyMig
  <2>6. CASE \E b \in DOMAIN backups : Rollback(b)
    BY <2>6 DEF Rollback, fileVars, history
  <2>7. CASE Validate \/ UnlinkLog \/ RestoreDb \/ RestoreSecret \/ MigDies
    BY <2>7 DEF Validate, UnlinkLog, RestoreDb, RestoreSecret, MigDies, OnlyMig
  <2> QED BY <1>4, <2>1, <2>2, <2>3, <2>4, <2>5, <2>6, <2>7 DEF MigrationStep
<1> QED BY <1>1, <1>2, <1>3, <1>4 DEF Next

LEMMA FilesInvNext == FilesInv /\ [Next]_vars => FilesInv'
<1> SUFFICES ASSUME FilesInv, [Next]_vars PROVE FilesInv'
  OBVIOUS
<1>1. CASE FilesMove
  BY <1>1, FilesInvStep DEF FilesMove
<1>2. CASE ~FilesMove
  BY <1>2, OthersLeaveFiles, FilesInvStays DEF FilesStand
<1> QED BY <1>1, <1>2

LEMMA FilesInvAlways == Spec => []FilesInv
<1>1. Init => FilesInv
  BY FilesInvInit DEF Init
<1> QED BY <1>1, FilesInvNext, PTL DEF Spec

\* With any number of threads and processes recording at the same time, failing
\* and dying, under a migration or a rollback, the statistics hold the latest
\* samples of every provider in the order in which they were saved, unless a
\* failed read was taken for an empty file (provider_stats.py:95-105).
THEOREM NoSampleKept == Spec => []NoSampleLost
<1>1. FilesInv => NoSampleLost
  BY DEF FilesInv, StatsOK
<1> QED BY <1>1, FilesInvAlways, PTL

\* Within a process no update of the health file is computed from contents that
\* another thread has replaced meanwhile (provider_health.py:88-119).
THEOREM HealthInTurn == Spec => []HealthUpdatesInTurn
<1>1. FilesInv => HealthUpdatesInTurn
  BY DEF FilesInv
<1> QED BY <1>1, FilesInvAlways, PTL
-----------------------------------------------------------------------------
(***************************************************************************)
(* The import.  The migration reads hashes of both files, the files, and   *)
(* hashes again, the health file first each time.  The statistics never    *)
(* return to contents they had: a save adds a number larger than all       *)
(* before.  So if they read the same twice, they stood still in between,   *)
(* and the health file was read in that time.                              *)
(***************************************************************************)
MigFields == {"pc", "dry", "seen", "checked", "stage", "id", "auto", "status"}

AfterRead == {"preflight", "verify", "mkdir", "copyDb", "copyHealth", "copyStats",
              "copySecret", "manifest", "open", "import"}

Seen(n) == Len(mig.seen) >= n

MigShape ==
  /\ DOMAIN mig = MigFields
  /\ \E S : mig.seen \in Seq(S)
  /\ mig.stage \in {"before", "copied", "written"}

ReadSoFar ==
  /\ <<health, stats>> \in held
  /\ Seen(2) => Numbered(mig.seen[2])
  /\ Seen(3) /\ stats = mig.seen[2] => <<mig.seen[3], mig.seen[2]>> \in held
  /\ Seen(4) /\ stats = mig.seen[2] => mig.seen[4] = mig.seen[2]
  /\ Seen(6) /\ mig.seen[6] = mig.seen[2] => <<mig.seen[3], mig.seen[4]>> \in held

SnapInv ==
  /\ MigShape
  /\ mig.pc = "read" => ReadSoFar
  /\ mig.pc \in AfterRead => <<ReadHealth, ReadStats>> \in held

\* A step of the files leaves the statistics as they are or gives them contents
\* that no earlier file had.
LEMMA NeverAgain ==
  ASSUME FilesInv, FilesNext, NEW f, Numbered(f)
  PROVE  /\ stats' = f => stats' = stats
         /\ \A p \in Provider : \A i \in 1 .. Len(f[p]) : f[p][i] <= Len(recorded'[p])
<1> USE SharedFilesAssumption DEF FilesInv, files, locks
<1>1. CASE \E t \in Thread : SaveSample(t)
  <2> PICK t \in Thread : SaveSample(t)
    BY <1>1
  <2> DEFINE p == job[t].on
             e == Len(recorded[p]) + 1
             old == job[t].seen
  <2>1. /\ stats' = [old EXCEPT ![p] = LastOf(Append(@, e), Window)]
        /\ recorded' = [recorded EXCEPT ![p] = Append(@, e)]
        /\ OwnsStats(t) /\ job[t].pc = "loaded"
    BY DEF SaveSample, OwnsStats
  <2>2. p \in Provider /\ recorded \in [Provider -> Seq(Nat)] /\ f \in [Provider -> Seq(Nat)]
    BY <2>1 DEF Shapes, ShapeOK, StatsOK, Numbered
  <2>3. e \in Nat /\ recorded[p] \in Seq(Nat) /\ f[p] \in Seq(Nat) /\ Window \in Nat \ {0}
    BY <2>2
  <2>4. Len(recorded'[p]) = e
    BY <2>1, <2>2, <2>3, AppendProperties
  <2>5. \A o \in Provider : o # p => recorded'[o] = recorded[o]
    BY <2>1, <2>2
  <2>6. \A i \in 1 .. Len(f[p]) : f[p][i] <= Len(recorded[p])
    BY <2>2 DEF Numbered
  <2>7. old[p] \in Seq(Nat) /\ stats'[p] = LastOf(Append(old[p], e), Window)
    <3>1. old \in [Provider -> Seq(Nat)]
      <4>1. NoSamples \in [Provider -> Seq(Nat)]
        BY DEF NoSamples
      <4> QED BY <2>1, <4>1 DEF SeenFresh, StatsOK, Numbered
    <3> QED BY <2>1, <2>2, <3>1
  <2>8. stats'[p] # f[p]
    <3> DEFINE s == old[p]
    <3>1. s \in Seq(Nat) /\ stats'[p] = LastOf(Append(s, e), Window)
      BY <2>7
    <3> HIDE DEF e, s
    <3>2. \E i \in 1 .. Len(LastOf(Append(s, e), Window)) : LastOf(Append(s, e), Window)[i] = e
      BY <2>3, <3>1, LastOfNewest
    <3>3. PICK i \in 1 .. Len(stats'[p]) : stats'[p][i] = e
      BY <3>1, <3>2
    <3>4. Len(recorded[p]) < e
      BY <2>3 DEF e
    <3>5. Len(recorded[p]) \in Nat
      BY <2>3
    <3>6. ASSUME stats'[p] = f[p] PROVE FALSE
      <4>1. i \in 1 .. Len(f[p]) /\ f[p][i] = e
        BY <3>3, <3>6
      <4>2. f[p][i] <= Len(recorded[p])
        BY <2>6, <4>1
      <4> QED BY <2>3, <3>4, <3>5, <4>1, <4>2
    <3> QED BY <3>6
  <2>9. \A o \in Provider : \A i \in 1 .. Len(f[o]) : f[o][i] <= Len(recorded'[o])
    <3> TAKE o \in Provider
    <3> TAKE i \in 1 .. Len(f[o])
    <3>1. f[o][i] <= Len(recorded[o])
      BY DEF Numbered
    <3>2. CASE o = p
      <4>1. f[o] \in Seq(Nat) /\ f[o][i] \in Nat
        BY <2>2
      <4>2. Len(recorded[p]) \in Nat /\ Len(recorded'[p]) = Len(recorded[p]) + 1
        BY <2>3, <2>4
      <4> HIDE DEF p
      <4> QED BY <3>1, <3>2, <4>1, <4>2
    <3>3. CASE o # p
      BY <2>5, <3>1, <3>3
    <3> QED BY <3>2, <3>3
  <2> QED BY <2>8, <2>9
<1>2. CASE ~\E t \in Thread : SaveSample(t)
  <2>1. UNCHANGED <<stats, recorded>>
    BY <1>2 DEF FilesNext, FilesStep, LockHealth, LockStats, LockFile, Load, SaveFailure,
                SaveReset, SaveFails, Die, history
  <2> QED BY <2>1 DEF Numbered
<1> QED BY <1>1, <1>2

LEMMA SnapFiles ==
  ASSUME FilesInv, SnapInv, FilesMove
  PROVE  SnapInv'
<1>1. mig' = mig /\ MigShape' /\ UNCHANGED <<ReadHealth, ReadStats>>
  BY DEF FilesMove, SnapInv, MigShape, ReadHealth, ReadStats
<1>2. mig.pc # "idle" => held' = held \cup {<<health', stats'>>}
  BY DEF FilesMove
<1>3. ASSUME mig.pc = "read" PROVE ReadSoFar'
  <2> USE DEF SnapInv, ReadSoFar
  <2>1. held' = held \cup {<<health', stats'>>}
    BY <1>2, <1>3
  <2>2. ASSUME Seen(2)
        PROVE  (stats' = mig.seen[2] => stats' = stats) /\ Numbered(mig.seen[2])'
    <3>1. Numbered(mig.seen[2])
      BY <1>3, <2>2
    <3>2. /\ stats' = mig.seen[2] => stats' = stats
          /\ \A p \in Provider : \A i \in 1 .. Len(mig.seen[2][p]) :
               mig.seen[2][p][i] <= Len(recorded'[p])
      BY <3>1, NeverAgain DEF FilesMove
    <3> QED BY <1>1, <3>1, <3>2 DEF Numbered
  <2>3. \A n \in 2 .. 6 : Seen(n)' => Seen(n) /\ Seen(2)
    BY <1>1 DEF Seen, MigShape
  <2> QED BY <1>1, <1>3, <2>1, <2>2, <2>3
<1>4. mig.pc \in AfterRead => <<ReadHealth, ReadStats>>' \in held'
  BY <1>1, <1>2 DEF SnapInv, AfterRead
<1> QED BY <1>1, <1>3, <1>4 DEF SnapInv

LEMMA SnapRead ==
  ASSUME FilesInv, SnapInv, Read
  PROVE  SnapInv'
<1>1. CASE mig' = Reported("blocked", 0)
  BY <1>1 DEF SnapInv, MigShape, Reported, MigFields, AfterRead
<1>2. CASE mig' = [mig EXCEPT !.seen = Append(@, IF Len(@) % 2 = 0 THEN health ELSE stats)]
  <2> DEFINE x == IF Len(mig.seen) % 2 = 0 THEN health ELSE stats
             s == mig.seen
  <2>1. PICK S : s \in Seq(S)
    BY DEF SnapInv, MigShape
  <2>2. mig'.pc = "read" /\ mig'.seen = Append(s, x) /\ mig'.stage = mig.stage /\ DOMAIN mig' = MigFields
    BY <1>2 DEF Read, SnapInv, MigShape, MigFields
  <2>3. UNCHANGED <<health, stats, recorded, held>>
    BY DEF Read, OnlyMig, files
  <2>4. ReadSoFar /\ Len(s) \in Nat /\ Len(s) < 6
    BY <2>1 DEF Read, SnapInv
  <2>4a. Len(s) \in 0 .. 5
    <3>1. \A n \in Nat : n < 6 => n \in 0 .. 5
      OBVIOUS
    <3> QED BY <2>4, <3>1
  <2>5. s \in Seq(S \cup {x}) /\ x \in S \cup {x}
    <3> HIDE DEF s, x
    <3> QED BY <2>1, SeqMonotonic
  <2>6. /\ mig'.seen \in Seq(S \cup {x}) /\ Len(mig'.seen) = Len(s) + 1
        /\ \A i \in 1 .. Len(s) : mig'.seen[i] = s[i]
        /\ mig'.seen[Len(s) + 1] = x
    <3> HIDE DEF s, x
    <3> QED BY <2>2, <2>5, AppendProperties
  <2>7. MigShape'
    BY <2>2, <2>6 DEF MigShape, SnapInv
  <2>8. ReadSoFar'
    <3> USE DEF ReadSoFar, Seen
    <3>1. CASE Len(s) = 0
      BY <2>3, <2>4, <2>6, <3>1
    <3>2. CASE Len(s) = 1
      <4>1. mig'.seen[2] = stats
        BY <2>6, <3>2
      <4> QED BY <2>3, <2>4, <2>6, <3>2, <4>1 DEF FilesInv, StatsOK, Numbered
    <3>3. CASE Len(s) = 2
      <4>1. mig'.seen[3] = health /\ mig'.seen[2] = mig.seen[2] /\ Len(mig'.seen) = 3
        BY <2>6, <3>3
      <4> QED BY <2>3, <2>4, <3>3, <4>1, SMTT(40) DEF Numbered
    <3>4. CASE Len(s) = 3
      <4>1. /\ mig'.seen[4] = stats /\ mig'.seen[2] = mig.seen[2] /\ mig'.seen[3] = mig.seen[3]
            /\ Len(mig'.seen) = 4
        BY <2>6, <3>4
      <4> QED BY <2>3, <2>4, <3>4, <4>1 DEF Numbered
    <3>5. CASE Len(s) = 4
      <4>1. /\ mig'.seen[4] = mig.seen[4] /\ mig'.seen[2] = mig.seen[2]
            /\ mig'.seen[3] = mig.seen[3] /\ Len(mig'.seen) = 5
        BY <2>6, <3>5
      <4> QED BY <2>3, <2>4, <3>5, <4>1 DEF Numbered
    <3>6. CASE Len(s) = 5
      <4>1. /\ mig'.seen[4] = mig.seen[4] /\ mig'.seen[2] = mig.seen[2]
            /\ mig'.seen[3] = mig.seen[3] /\ Len(mig'.seen) = 6 /\ mig'.seen[6] = stats
        BY <2>6, <3>6
      <4>2. /\ Numbered(mig.seen[2])
            /\ stats = mig.seen[2] => <<mig.seen[3], mig.seen[4]>> \in held
        BY <2>4, <3>6
      <4>3. Numbered(mig.seen[2])'
        BY <2>3, <4>1, <4>2 DEF Numbered
      <4> QED BY <2>3, <2>4, <3>6, <4>1, <4>2, <4>3
    <3> QED BY <2>4a, <3>1, <3>2, <3>3, <3>4, <3>5, <3>6
  <2> QED BY <2>2, <2>7, <2>8 DEF SnapInv, AfterRead
<1> QED BY <1>1, <1>2 DEF Read

\* After the reading, what was read is kept until the migration is over.
LEMMA SnapLater ==
  ASSUME SnapInv, [Next]_vars, ~FilesMove, ~Read
  PROVE  SnapInv'
<1> USE DEF SnapInv, MigShape, MigFields, AfterRead
<1>0. ASSUME NEW st, NEW id, mig' = Reported(st, id) PROVE SnapInv'
  BY <1>0 DEF Reported
<1>1. CASE UNCHANGED <<health, stats, recorded, held, mig>>
  BY <1>1 DEF ReadSoFar, Seen, Numbered, ReadHealth, ReadStats
<1>2. CASE \E dry \in BOOLEAN : Migrate(dry)
  <2>1. mig'.pc = "read" /\ mig'.seen = <<>> /\ MigShape'
    BY <1>2 DEF Migrate, Reported
  <2>2. UNCHANGED <<health, stats>> /\ held' = {<<health, stats>>}
    BY <1>2 DEF Migrate, fileVars, files
  <2> QED BY <2>1, <2>2 DEF ReadSoFar, Seen
<1>3. CASE \E b \in DOMAIN backups : Rollback(b)
  BY <1>3 DEF Rollback, Reported
<1>4. CASE Normalize
  <2>1. held' = held /\ mig.pc = "read" /\ Len(mig.seen) = 6
    BY <1>4 DEF Normalize
  <2>2. CASE mig' = [mig EXCEPT !.pc = "preflight"] /\ SourcesStood
    BY <2>1, <2>2 DEF SourcesStood, ReadSoFar, Seen, ReadHealth, ReadStats
  <2> QED BY <1>0, <1>4, <2>2 DEF Normalize
\* The other steps go from one control point after the reading to the next.
<1>5. CASE /\ held' = held /\ DOMAIN mig' = MigFields /\ mig'.seen = mig.seen
           /\ mig.pc \in AfterRead \/ mig'.pc \notin AfterRead
           /\ mig'.pc # "read" /\ mig'.stage \in {"before", "copied", "written"}
  BY <1>5 DEF ReadHealth, ReadStats
<1>6. CASE Preflight
  BY <1>0, <1>5, <1>6 DEF Preflight
<1>7. CASE VerifySource
  BY <1>0, <1>5, <1>7 DEF VerifySource, BackupFails
<1>8. CASE MakeDir \/ Copy \/ WriteManifest
  <2>1. CASE mig.pc \in {"mkdir", "copyDb", "copyHealth", "copyStats", "copySecret", "manifest"}
             /\ \/ mig' = [mig EXCEPT !.pc = "copyDb", !.id = Len(backups) + 1]
                \/ \E pc \in {"copyHealth", "copyStats", "copySecret"} : mig' = [mig EXCEPT !.pc = pc]
                \/ mig' = [mig EXCEPT !.pc = "verify", !.stage = "copied"]
                \/ mig' = [mig EXCEPT !.pc = "verify", !.stage = "written"]
    BY <1>5, <1>8, <2>1 DEF MakeDir, Copy, WriteManifest
  <2>2. CASE MakeDir
    BY <2>1, <2>2 DEF MakeDir
  <2>3. CASE Copy
    BY <1>0, <2>1, <2>3 DEF Copy, NextCopy, BackupFails
  <2>4. CASE WriteManifest
    BY <1>0, <2>1, <2>4 DEF WriteManifest, BackupFails
  <2> QED BY <1>8, <2>2, <2>3, <2>4
<1>9. CASE OpenStore \/ Import
  BY <1>0, <1>5, <1>9 DEF OpenStore, Import, RollBackNow
<1>10. CASE Validate \/ UnlinkLog \/ RestoreDb \/ RestoreSecret \/ MigDies
  BY <1>0, <1>5, <1>10 DEF Validate, UnlinkLog, RestoreDb, RestoreSecret, MigDies, RollbackFails
<1>11. CASE UNCHANGED vars \/ Checkpoint \/ \E u \in User : MakeSecret(u) \/ Connect(u) \/ Commit(u)
  BY <1>1, <1>11 DEF vars, dbVars, fileVars, files, history, Checkpoint, MakeSecret, Connect, Commit
<1> QED BY <1>2, <1>3, <1>4, <1>6, <1>7, <1>8, <1>9, <1>10, <1>11 DEF Next, MigrationStep

LEMMA SnapAlways == Spec => [](FilesInv /\ SnapInv)
<1>1. Init => SnapInv
  <2> SUFFICES ASSUME Init PROVE SnapInv
    OBVIOUS
  <2>1. mig = Reported("none", 0)
    BY DEF Init
  <2> QED BY <2>1 DEF SnapInv, MigShape, MigFields, Reported, AfterRead
<1>2. FilesInv /\ SnapInv /\ [Next]_vars => SnapInv'
  BY SnapFiles, SnapRead, SnapLater
<1> QED BY <1>1, <1>2, FilesInvAlways, PTL DEF Spec

\* However the two files move while the migration reads one after the other, what
\* it imports was in both at one moment (state_migration_v3.py:390-396).
THEOREM ImportOfOneMoment == Spec => []ImportIsSnapshot
<1>1. SnapInv => ImportIsSnapshot
  BY DEF SnapInv, ImportIsSnapshot, AfterRead
<1> QED BY <1>1, SnapAlways, PTL
-----------------------------------------------------------------------------
(***************************************************************************)
(* The rollback.  As long as nobody is connected, nothing but the rollback *)
(* itself writes the database between its three steps.                     *)
(***************************************************************************)
Connected(u) == conn[u] \in {"open", "stale"}

RollInv ==
  /\ DOMAIN conn = User
  /\ mig.pc # "idle" => mig.status = "none"
  /\ RollingBack /\ ~disturbed => \A u \in User : ~Connected(u)
  /\ mig.pc \in {"restoreDb", "restoreSecret"} /\ ~disturbed => wal = None
  /\ mig.pc = "restoreSecret" /\ ~disturbed => main = backups[mig.id].db

LEMMA RollUsers ==
  ASSUME RollInv, \/ FilesMove \/ Checkpoint \/ UNCHANGED vars
                  \/ \E u \in User : MakeSecret(u) \/ Connect(u) \/ Commit(u)
  PROVE  RollInv' /\ mig' = mig
<1> USE DEF RollInv, RollingBack, Connected
<1>1. CASE FilesMove \/ UNCHANGED vars
  BY <1>1 DEF FilesMove, vars, dbVars
<1>2. CASE Checkpoint
  BY <1>2 DEF Checkpoint
<1>3. CASE \E u \in User : MakeSecret(u)
  BY <1>3 DEF MakeSecret
<1>4. CASE \E u \in User : Connect(u)
  BY <1>4 DEF Connect
<1>5. CASE \E u \in User : Commit(u)
  BY <1>5 DEF Commit
<1> QED BY <1>1, <1>2, <1>3, <1>4, <1>5

LEMMA RollSteps ==
  ASSUME RollInv, SnapInv, MigrationStep
  PROVE  RollInv' /\ (mig.pc = "restoreSecret" => RestoreSecret \/ mig'.status \in {"none", "blocked"})
<1> USE DEF RollInv, RollingBack, Connected, SnapInv, MigShape, MigFields
<1>0. ASSUME NEW st, NEW id, mig' = Reported(st, id)
      PROVE  mig'.pc = "idle" /\ mig'.status = st
  BY <1>0 DEF Reported
\* A step of a migration, or one that ends.
<1>1. CASE /\ conn' = conn
           /\ mig.pc # "restoreSecret"
           /\ \/ mig'.pc = "idle"
              \/ mig'.pc \notin {"unlinkLog", "restoreDb", "restoreSecret"} /\ mig'.status = "none"
  BY <1>1
<1>2. CASE \/ \E dry \in BOOLEAN : Migrate(dry)
           \/ \E b \in DOMAIN backups : Rollback(b)
  BY <1>1, <1>2 DEF Migrate, Rollback, Reported
<1>3. CASE Read \/ Normalize \/ Preflight
  BY <1>0, <1>1, <1>3 DEF Read, Normalize, Preflight
<1>4. CASE VerifySource
  BY <1>0, <1>1, <1>4 DEF VerifySource, BackupFails
<1>5. CASE MakeDir \/ WriteManifest
  BY <1>0, <1>1, <1>5 DEF MakeDir, WriteManifest, BackupFails
<1>6. CASE Copy
  <2>1. conn' = conn /\ mig.pc \in {"copyDb", "copyHealth", "copyStats", "copySecret"}
    BY <1>6 DEF Copy
  <2>2. CASE mig.pc # "copySecret" /\ mig' = [mig EXCEPT !.pc = NextCopy[mig.pc]]
    BY <1>1, <2>1, <2>2 DEF NextCopy
  <2>3. CASE mig' = [mig EXCEPT !.pc = "verify", !.stage = "copied"]
    BY <1>1, <2>1, <2>3
  <2>4. CASE BackupFails
    BY <1>0, <1>1, <2>1, <2>4 DEF BackupFails
  <2> QED BY <1>6, <2>2, <2>3, <2>4 DEF Copy
<1>7. CASE OpenStore \/ Import
  <2>1. conn' = conn /\ mig.pc \in {"open", "import"}
    BY <1>7 DEF OpenStore, Import
  <2>2. CASE RollBackNow
    BY <1>1, <2>1, <2>2 DEF RollBackNow
  <2>3. CASE mig' = [mig EXCEPT !.pc = "import"]
    BY <1>1, <2>1, <2>3
  <2>4. CASE mig' = Reported("applied", mig.id)
    BY <1>0, <1>1, <2>1, <2>4
  <2> QED BY <1>7, <2>2, <2>3, <2>4 DEF OpenStore, Import
<1>8. CASE Validate
  <2>1. CASE mig' = [mig EXCEPT !.pc = "unlinkLog"] /\ (disturbed' = \E u \in User : Connected(u))
    BY <1>8, <2>1 DEF Validate
  <2>2. CASE RollbackFails
    BY <1>0, <1>1, <1>8, <2>2 DEF Validate, RollbackFails
  <2> QED BY <1>8, <2>1, <2>2 DEF Validate
<1>9. CASE UnlinkLog
  <2>1. CASE wal' = WithoutLog /\ Exchanged /\ mig' = [mig EXCEPT !.pc = "restoreDb"]
    BY <1>9, <2>1 DEF UnlinkLog, WithoutLog, Exchanged
  <2>2. CASE RollbackFails /\ UNCHANGED conn
    BY <1>0, <1>1, <1>9, <2>2 DEF UnlinkLog, RollbackFails
  <2> QED BY <1>9, <2>1, <2>2 DEF UnlinkLog
<1>10. CASE RestoreDb
  <2>1. CASE main' = backups[mig.id].db /\ Exchanged /\ mig' = [mig EXCEPT !.pc = "restoreSecret"]
    BY <1>10, <2>1 DEF RestoreDb, Exchanged
  <2>2. CASE RollbackFails /\ UNCHANGED conn
    BY <1>0, <1>1, <1>10, <2>2 DEF RestoreDb, RollbackFails
  <2> QED BY <1>10, <2>1, <2>2 DEF RestoreDb
<1>11. CASE RestoreSecret
  BY <1>0, <1>11 DEF RestoreSecret, RollbackFails
<1>12. CASE MigDies
  BY <1>0, <1>12 DEF MigDies
<1> QED BY <1>2, <1>3, <1>4, <1>5, <1>6, <1>7, <1>8, <1>9, <1>10, <1>11, <1>12 DEF MigrationStep

\* A rollback that reports success has restored the database without what a log
\* would add to it, and the secret that belongs to it, whatever died or failed
\* before, for any number of users, unless one was connected meanwhile
\* (state_migration_v3.py:663-726).
THEOREM RollbackIsTrue == Spec => RollbackRestores
<1>1. Init => RollInv
  BY DEF Init, Reported, RollInv, RollingBack, Connected
<1>2. RollInv /\ SnapInv /\ [Next]_vars => RollInv'
  BY RollUsers, RollSteps DEF Next
<1>3. RollInv /\ SnapInv /\ [Next]_vars =>
        [(mig.pc = "restoreSecret" /\ mig'.status \in {"rolled_back", "degraded"} /\ ~disturbed)
           => /\ main' = backups[mig.id].db
              /\ wal' = None
              /\ secret' = backups[mig.id].secret]_vars
  <2> SUFFICES ASSUME RollInv, SnapInv, [Next]_vars, mig.pc = "restoreSecret",
                      mig'.status \in {"rolled_back", "degraded"}, ~disturbed
               PROVE  main' = backups[mig.id].db /\ wal' = None /\ secret' = backups[mig.id].secret
    OBVIOUS
  <2>1. RestoreSecret
    BY RollUsers, RollSteps DEF Next, RollInv
  <2> QED BY <2>1 DEF RestoreSecret, RollInv, RollbackFails, Reported
<1> QED BY <1>1, <1>2, <1>3, SnapAlways, PTL DEF Spec, RollbackRestores
=============================================================================
