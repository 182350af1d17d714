----------------------------- MODULE SharedFiles -----------------------------
(***************************************************************************)
(* The two JSON files all processes share: provider_health.json            *)
(* (provider_health.py) and provider_stats.json (provider_stats.py).  Each *)
(* update reads the whole file, changes one provider's entry and replaces  *)
(* the file.  Updates of the health file are serialised by a lock of the   *)
(* process, those of the statistics also by a lock on a file.              *)
(*                                                                         *)
(* A read that fails counts as an empty file, a process may die between    *)
(* any two steps; MaxFaults bounds both, MaxUpdates the updates.           *)
(***************************************************************************)
EXTENDS Naturals, Sequences

CONSTANTS
  Thread,          \* threads that record outcomes
  Process,
  ProcessOf,       \* thread -> its process
  HealthThread,    \* the threads that also mark and reset providers
  Provider,
  Ladder,          \* steps of the cooldown ladder
  Window,          \* MAX_SAMPLES_PER_PROVIDER
  MaxUpdates, MaxFaults,
  None

ASSUME SharedFilesAssumption ==
  /\ ProcessOf \in [Thread -> Process] /\ HealthThread \subseteq Thread
  /\ Ladder \in Nat \ {0} /\ Window \in Nat \ {0}
  /\ MaxUpdates \in Nat /\ MaxFaults \in Nat
  /\ None \notin Thread \cup Process

VARIABLES
  health,       \* provider -> step of the cooldown ladder, 0 without an entry
  stats,        \* provider -> its samples, oldest first
  healthLock,   \* process -> holder of its _HEALTH_LOCK
  statsLock,    \* process -> holder of its _STATS_LOCK
  fileLock,     \* holder of the lock on provider_stats.json.lock
  job,          \* thread -> the update it is making
  \* History, for the properties only.
  recorded,     \* provider -> all samples saved
  healthBy,     \* the process that replaced the health file last
  misread,      \* some update took a failed read for an empty file
  updates, faults

files    == <<health, stats>>
locks    == <<healthLock, statsLock, fileLock>>
history  == <<recorded, healthBy, misread, updates, faults>>
fileVars == <<files, locks, job, history>>

NoHealth  == [p \in Provider |-> 0]
NoSamples == [p \in Provider |-> <<>>]

\* A sample is known by its number among those of its provider.
Stats  == [Provider -> Seq(Nat)]
Health == [Provider -> 0..Ladder]

Idle == [pc |-> "idle", op |-> "none", on |-> CHOOSE p \in Provider : TRUE, seen |-> None]

\* An update: what it does to which provider, and the file as it was read.
JobOK(j) ==
  /\ DOMAIN j = {"pc", "op", "on", "seen"}
  /\ j.pc \in {"idle", "waits", "locked", "loaded"}
  /\ j.op \in {"none", "mark", "reset", "record"}
  /\ j.pc # "idle" => j.on \in Provider
  /\ j.pc = "loaded" => j.seen \in IF j.op = "record" THEN Stats ELSE Health

FilesInit ==
  /\ health = NoHealth /\ stats = NoSamples
  /\ healthLock = [c \in Process |-> None]
  /\ statsLock = [c \in Process |-> None]
  /\ fileLock = None
  /\ job = [t \in Thread |-> Idle]
  /\ recorded = NoSamples /\ healthBy = None /\ misread = FALSE
  /\ updates = 0 /\ faults = 0

LastOf(s, n) == IF Len(s) <= n THEN s ELSE SubSeq(s, Len(s) - n + 1, Len(s))
-----------------------------------------------------------------------------
(***************************************************************************)
(* Locks.  A health update takes one, a statistics update two.             *)
(***************************************************************************)
LockHealth(t, op, p) ==
  /\ t \in HealthThread /\ job[t].pc = "idle" /\ updates < MaxUpdates
  /\ healthLock[ProcessOf[t]] = None
  /\ healthLock' = [healthLock EXCEPT ![ProcessOf[t]] = t]
  /\ job' = [job EXCEPT ![t] = [pc |-> "locked", op |-> op, on |-> p, seen |-> None]]
  /\ updates' = updates + 1
  /\ UNCHANGED <<files, statsLock, fileLock, recorded, healthBy, misread, faults>>

LockStats(t, p) ==
  /\ job[t].pc = "idle" /\ updates < MaxUpdates
  /\ statsLock[ProcessOf[t]] = None
  /\ statsLock' = [statsLock EXCEPT ![ProcessOf[t]] = t]
  /\ job' = [job EXCEPT ![t] = [pc |-> "waits", op |-> "record", on |-> p, seen |-> None]]
  /\ updates' = updates + 1
  /\ UNCHANGED <<files, healthLock, fileLock, recorded, healthBy, misread, faults>>

BugFileLockFree == TRUE
FileLockFree == fileLock = None

LockFile(t) ==
  /\ job[t].pc = "waits" /\ FileLockFree
  /\ fileLock' = t
  /\ job' = [job EXCEPT ![t].pc = "locked"]
  /\ UNCHANGED <<files, healthLock, statsLock, history>>

FreeHealth(t) == healthLock' = [healthLock EXCEPT ![ProcessOf[t]] = None]
FreeStats(t)  == /\ statsLock' = [statsLock EXCEPT ![ProcessOf[t]] = None]
                 /\ fileLock' = IF fileLock = t THEN None ELSE fileLock
Rest(t)       == job' = [job EXCEPT ![t] = Idle]
-----------------------------------------------------------------------------
(***************************************************************************)
(* The update itself.                                                      *)
(***************************************************************************)
\* _load_provider_health, _load_stats: what cannot be read or parsed counts as
\* an empty file.
Load(t) ==
  /\ job[t].pc = "locked"
  /\ LET stored == IF job[t].op = "record" THEN stats ELSE health
         blank  == IF job[t].op = "record" THEN NoSamples ELSE NoHealth
     IN \/ /\ job' = [job EXCEPT ![t].pc = "loaded", ![t].seen = stored]
           /\ UNCHANGED <<misread, faults>>
        \/ /\ faults < MaxFaults /\ faults' = faults + 1
           /\ misread' = TRUE
           /\ job' = [job EXCEPT ![t].pc = "loaded", ![t].seen = blank]
  /\ UNCHANGED <<files, locks, recorded, healthBy, updates>>

\* mark_provider_failure: one step up the ladder, or the first step again when
\* the last failure is long past.
SaveFailure(t) ==
  LET p == job[t].on  known == job[t].seen[p] IN
  /\ job[t].pc = "loaded" /\ job[t].op = "mark"
  /\ \E count \in IF known = 0 THEN {0} ELSE {0, known} :
       health' = [job[t].seen EXCEPT ![p] = IF count = Ladder THEN Ladder ELSE count + 1]
  /\ healthBy' = ProcessOf[t]
  /\ FreeHealth(t) /\ Rest(t)
  /\ UNCHANGED <<stats, statsLock, fileLock, recorded, misread, updates, faults>>

\* reset_provider_health: the file is left alone when it has no entry.
SaveReset(t) ==
  LET p == job[t].on IN
  /\ job[t].pc = "loaded" /\ job[t].op = "reset"
  /\ \/ /\ job[t].seen[p] # 0
        /\ health' = [job[t].seen EXCEPT ![p] = 0]
        /\ healthBy' = ProcessOf[t]
     \/ /\ job[t].seen[p] = 0
        /\ UNCHANGED <<health, healthBy>>
  /\ FreeHealth(t) /\ Rest(t)
  /\ UNCHANGED <<stats, statsLock, fileLock, recorded, misread, updates, faults>>

\* record_provider_outcome: the new sample goes last, the oldest drop out.
SaveSample(t) ==
  LET p == job[t].on  sample == Len(recorded[p]) + 1 IN
  /\ job[t].pc = "loaded" /\ job[t].op = "record"
  /\ stats' = [job[t].seen EXCEPT ![p] = LastOf(Append(@, sample), Window)]
  /\ recorded' = [recorded EXCEPT ![p] = Append(@, sample)]
  /\ FreeStats(t) /\ Rest(t)
  /\ UNCHANGED <<health, healthLock, healthBy, misread, updates, faults>>

\* The write fails: its temporary file is removed, the locks are released and
\* the file keeps what it held.
SaveFails(t) ==
  /\ job[t].pc = "loaded" /\ faults < MaxFaults
  /\ faults' = faults + 1
  /\ IF job[t].op = "record" THEN FreeStats(t) /\ UNCHANGED healthLock
     ELSE FreeHealth(t) /\ UNCHANGED <<statsLock, fileLock>>
  /\ Rest(t)
  /\ UNCHANGED <<files, recorded, healthBy, misread, updates>>

\* A process dies: its locks go with it, the kernel releases the file lock.
Die(c) ==
  /\ \E t \in Thread : ProcessOf[t] = c /\ job[t].pc # "idle"
  /\ faults < MaxFaults /\ faults' = faults + 1
  /\ job' = [t \in Thread |-> IF ProcessOf[t] = c THEN Idle ELSE job[t]]
  /\ healthLock' = [healthLock EXCEPT ![c] = None]
  /\ statsLock' = [statsLock EXCEPT ![c] = None]
  /\ fileLock' = IF fileLock # None /\ ProcessOf[fileLock] = c THEN None ELSE fileLock
  /\ UNCHANGED <<files, recorded, healthBy, misread, updates>>

FilesStep(t) ==
  \/ \E p \in Provider : LockHealth(t, "mark", p) \/ LockHealth(t, "reset", p) \/ LockStats(t, p)
  \/ LockFile(t) \/ Load(t)
  \/ SaveFailure(t) \/ SaveReset(t) \/ SaveSample(t) \/ SaveFails(t)

FilesNext ==
  \/ \E t \in Thread : FilesStep(t)
  \/ \E c \in Process : Die(c)
-----------------------------------------------------------------------------
(***************************************************************************)
(* Properties.                                                             *)
(***************************************************************************)
FilesTypeOK ==
  /\ health \in Health /\ stats \in Stats
  /\ healthLock \in [Process -> Thread \cup {None}]
  /\ statsLock \in [Process -> Thread \cup {None}]
  /\ fileLock \in Thread \cup {None}
  /\ DOMAIN job = Thread /\ \A t \in Thread : JobOK(job[t])
  /\ recorded \in Stats /\ healthBy \in Process \cup {None} /\ misread \in BOOLEAN
  /\ updates \in 0..MaxUpdates /\ faults \in 0..MaxFaults

\* Whatever threads and processes record at the same time, and whoever dies
\* while it records, the statistics hold the latest samples of every provider in
\* the order in which they were saved (provider_stats.py:95-105), as long as the
\* file could be read each time.
NoSampleLost ==
  ~misread => \A p \in Provider : stats[p] = LastOf(recorded[p], Window)

\* A health update is never computed from a file another thread of the same
\* process has replaced meanwhile (provider_health.py:88-119); another process
\* may have, the lock does not reach that far.
HealthUpdatesInTurn ==
  \A t \in Thread :
    job[t].pc = "loaded" /\ job[t].op # "record" /\ ~misread /\ health # job[t].seen
      => healthBy # ProcessOf[t]
=============================================================================
