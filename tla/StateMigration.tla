---------------------------- MODULE StateMigration ----------------------------
(***************************************************************************)
(* The migration of the two shared JSON files into the state database, and *)
(* its rollback (state_migration_v3.py), run by an operator while other    *)
(* processes update the files (SharedFiles) and use the database.          *)
(*                                                                         *)
(* The database is a main file and a write-ahead log: what was committed   *)
(* last is in the log until a checkpoint copies it into the main file.  A  *)
(* log left beside a main file that was exchanged under it is foreign to   *)
(* that file.  The users' own tables are abstracted to the number of       *)
(* transactions they committed (ledger), the imported ones to the contents *)
(* of the two files they were read from (rows).                            *)
(*                                                                         *)
(* MaxRuns bounds the migrations and rollbacks, MaxCommits the             *)
(* transactions of the users; faults are those of SharedFiles, and every   *)
(* step of the migration may fail or be its last.                          *)
(***************************************************************************)
EXTENDS SharedFiles

CONSTANTS User, MaxRuns, MaxCommits

ASSUME MigrationAssumption == MaxRuns \in Nat /\ MaxCommits \in Nat

VARIABLES
  main, wal,    \* state.sqlite3 and state.sqlite3-wal
  secret,       \* state.sqlite3.secret, a number for its bytes
  conn,         \* user -> its connection
  backups,      \* backup number -> what is in its directory
  mig,          \* the migration or rollback that runs
  runs, commits,
  \* History, for the properties only.
  held,         \* pairs of contents the two files had since the migration began
  disturbed     \* a user was connected while a rollback ran

store    == <<main, wal, secret, backups>>
dbVars   == <<main, wal, secret, conn, backups, mig, runs, commits, held, disturbed>>
vars     == <<fileVars, dbVars>>

Rows     == [health : Health, stats : Stats] \cup {None}
Content  == [ledger : Nat, rows : Rows]
Log      == [ledger : Nat, rows : Rows, foreign : BOOLEAN]
Empty    == [ledger |-> 0, rows |-> None]
Backup   == [db : Content \cup {None}, secret : Nat, health : Health, stats : Stats,
             dbExisted : BOOLEAN, secretExisted : BOOLEAN, manifest : BOOLEAN]

MigSteps == {"idle", "read", "preflight", "verify", "mkdir", "copyDb", "copyHealth",
             "copyStats", "copySecret", "manifest", "open", "import", "check", "unlinkLog",
             "restoreDb", "restoreSecret"}
Statuses == {"none", "blocked", "degraded", "unchanged", "ready", "applied", "rolled_back"}

\* The local variables of migrate_legacy_state and rollback_legacy_state.
\* seen holds what it read of the files, health first and in turn.
MigOK(m) ==
  /\ DOMAIN m = {"pc", "dry", "seen", "checked", "stage", "id", "auto", "status"}
  /\ m.pc \in MigSteps /\ m.status \in Statuses
  /\ m.dry \in BOOLEAN /\ m.auto \in BOOLEAN
  /\ \A i \in 1..Len(m.seen) : m.seen[i] \in IF i % 2 = 1 THEN Health ELSE Stats
  /\ m.checked \in {0, 1} /\ m.stage \in {"before", "copied", "written"}
  /\ m.id \in 0..Len(backups)

\* Between two runs only what the operator was told last is left.
Reported(status, id) ==
  [pc |-> "idle", dry |-> FALSE, seen |-> <<>>, checked |-> 0, stage |-> "before", id |-> id,
   auto |-> FALSE, status |-> status]

\* What a reader of the database sees.
View == IF wal = None THEN main ELSE [ledger |-> wal.ledger, rows |-> wal.rows]

Init ==
  /\ FilesInit
  /\ \/ main = None /\ secret = 0
     \/ main = Empty /\ secret = 1
  /\ wal = None
  /\ conn = [u \in User |-> "none"]
  /\ backups = <<>>
  /\ mig = Reported("none", 0)
  /\ runs = 0 /\ commits = 0 /\ held = {} /\ disturbed = FALSE

RollingBack == mig.pc \in {"unlinkLog", "restoreDb", "restoreSecret"}
-----------------------------------------------------------------------------
(***************************************************************************)
(* The users of the database (SQLiteStateStore): the secret first, then    *)
(* the schema, then one transaction per connection.                        *)
(***************************************************************************)
\* A secret is made once, and never overwritten.
SecretMade(s) == IF s = 0 THEN runs + 2 ELSE s

MakeSecret(u) ==
  /\ conn[u] = "none" /\ commits < MaxCommits
  /\ secret' = SecretMade(secret)
  /\ conn' = [conn EXCEPT ![u] = "secret"]
  /\ UNCHANGED <<fileVars, main, wal, backups, mig, runs, commits, held, disturbed>>

Connect(u) ==
  /\ conn[u] = "secret"
  /\ main' = IF main = None THEN Empty ELSE main
  /\ conn' = [conn EXCEPT ![u] = "open"]
  /\ disturbed' = (disturbed \/ RollingBack)
  /\ UNCHANGED <<fileVars, wal, secret, backups, mig, runs, commits, held>>

\* A connection whose files were exchanged under it commits into a file that has
\* no name any more, or makes a log that is foreign to the new main file.
Commit(u) ==
  /\ conn[u] \in {"open", "stale"} /\ commits < MaxCommits
  /\ commits' = commits + 1
  /\ conn' = [conn EXCEPT ![u] = "none"]
  /\ \/ /\ conn[u] = "open" /\ main # None
        /\ wal' = [ledger |-> View.ledger + 1, rows |-> View.rows, foreign |-> FALSE]
     \/ /\ conn[u] = "stale"
        /\ wal' \in {wal, [ledger |-> 1, rows |-> None, foreign |-> TRUE]}
  /\ UNCHANGED <<fileVars, main, secret, backups, mig, runs, held, disturbed>>

Checkpoint ==
  /\ wal # None /\ ~wal.foreign /\ main # None
  /\ main' = View /\ wal' = None
  /\ UNCHANGED <<fileVars, secret, conn, backups, mig, runs, commits, held, disturbed>>

\* The files change under the migration.
FilesMove ==
  /\ FilesNext
  /\ held' = IF mig.pc = "idle" THEN {} ELSE held \cup {<<health', stats'>>}
  /\ UNCHANGED <<main, wal, secret, conn, backups, mig, runs, commits, disturbed>>
-----------------------------------------------------------------------------
(***************************************************************************)
(* migrate_legacy_state: reading.                                          *)
(***************************************************************************)
\* Every step may fail, and costs a fault when it does.
MigFault == faults < MaxFaults /\ faults' = faults + 1
OnlyMig  == UNCHANGED <<files, locks, job, recorded, healthBy, misread, updates>>

Migrate(dry) ==
  /\ mig.pc = "idle" /\ runs < MaxRuns
  /\ runs' = runs + 1
  /\ mig' = [Reported("none", 0) EXCEPT !.pc = "read", !.dry = dry]
  /\ held' = {<<health, stats>>}
  /\ UNCHANGED <<fileVars, store, conn, commits, disturbed>>

\* Hashes of both files, the files, hashes of both files again.
Read ==
  /\ mig.pc = "read" /\ Len(mig.seen) < 6
  /\ \/ /\ mig' = [mig EXCEPT !.seen = Append(@, IF Len(@) % 2 = 0 THEN health ELSE stats)]
        /\ UNCHANGED faults
     \/ MigFault /\ mig' = Reported("blocked", 0)
  /\ OnlyMig /\ UNCHANGED <<store, conn, runs, commits, held, disturbed>>

ReadHealth == mig.seen[3]
ReadStats  == mig.seen[4]
BugSourcesStood == TRUE
SourcesStood == mig.seen[5] = mig.seen[1] /\ mig.seen[6] = mig.seen[2]

Normalize ==
  /\ mig.pc = "read" /\ Len(mig.seen) = 6
  /\ mig' = IF SourcesStood THEN [mig EXCEPT !.pc = "preflight"] ELSE Reported("blocked", 0)
  /\ UNCHANGED <<fileVars, store, conn, runs, commits, held, disturbed>>

\* The preflight opens the main file as immutable: it does not see the log.
Imported == main # None /\ main.rows = [health |-> ReadHealth, stats |-> ReadStats]

Preflight ==
  /\ mig.pc = "preflight"
  /\ \/ /\ mig' = IF (ReadHealth = NoHealth /\ ReadStats = NoSamples) \/ Imported
                  THEN Reported("unchanged", 0)
                  ELSE IF mig.dry THEN Reported("ready", 0)
                  ELSE [mig EXCEPT !.pc = "verify"]
        /\ UNCHANGED faults
     \/ MigFault /\ mig' = Reported("degraded", 0)
  /\ OnlyMig /\ UNCHANGED <<store, conn, runs, commits, held, disturbed>>
-----------------------------------------------------------------------------
(***************************************************************************)
(* _create_backup.                                                         *)
(***************************************************************************)
HasDir == mig.id # 0 /\ mig.stage # "written"

\* A backup that fails removes its directory; after the backup the files are
\* compared once more, and then the directory stays.
BackupFails ==
  /\ backups' = IF HasDir THEN [backups EXCEPT ![mig.id] = None] ELSE backups
  /\ mig' = Reported("blocked", mig.id)

\* One of the three comparisons, a file at a time: before the backup, of the
\* copies and then the files before the manifest, and after it.
VerifySource ==
  /\ mig.pc = "verify"
  /\ \/ /\ IF mig.checked = 0 THEN mig.seen[1] = health ELSE mig.seen[2] = stats
        /\ mig' = IF mig.checked = 0 THEN [mig EXCEPT !.checked = 1]
                  ELSE [mig EXCEPT !.checked = 0,
                                   !.pc = CASE mig.stage = "before" -> "mkdir"
                                            [] mig.stage = "copied" -> "manifest"
                                            [] mig.stage = "written" -> "open"]
        /\ UNCHANGED <<faults, backups>>
     \/ /\ IF mig.checked = 0 THEN mig.seen[1] # health ELSE mig.seen[2] # stats
        /\ BackupFails /\ UNCHANGED faults
     \/ MigFault /\ BackupFails
  /\ OnlyMig /\ UNCHANGED <<main, wal, secret, conn, runs, commits, held, disturbed>>

\* The directory, and what the manifest will say existed.
MakeDir ==
  /\ mig.pc = "mkdir"
  /\ backups' = Append(backups,
       [db |-> None, secret |-> 0, health |-> NoHealth, stats |-> NoSamples,
        dbExisted |-> main # None, secretExisted |-> secret # 0, manifest |-> FALSE])
  /\ mig' = [mig EXCEPT !.pc = "copyDb", !.id = Len(backups) + 1]
  /\ UNCHANGED <<fileVars, main, wal, secret, conn, runs, commits, held, disturbed>>

NextCopy == [copyDb |-> "copyHealth", copyHealth |-> "copyStats", copyStats |-> "copySecret"]

Copied(b) ==
  CASE mig.pc = "copyDb"     -> [b EXCEPT !.db = IF main = None THEN None ELSE View]
    [] mig.pc = "copyHealth" -> [b EXCEPT !.health = health]
    [] mig.pc = "copyStats"  -> [b EXCEPT !.stats = stats]
    [] mig.pc = "copySecret" -> [b EXCEPT !.secret = secret]

CopiesMatch(b) == b.health = mig.seen[1] /\ b.stats = mig.seen[2]

Copy ==
  /\ mig.pc \in {"copyDb", "copyHealth", "copyStats", "copySecret"}
  /\ \/ /\ mig.pc # "copySecret"
        /\ backups' = [backups EXCEPT ![mig.id] = Copied(@)]
        /\ mig' = [mig EXCEPT !.pc = NextCopy[mig.pc]]
        /\ UNCHANGED faults
     \/ /\ mig.pc = "copySecret" /\ CopiesMatch(backups[mig.id])
        /\ backups' = [backups EXCEPT ![mig.id] = Copied(@)]
        /\ mig' = [mig EXCEPT !.pc = "verify", !.stage = "copied"]
        /\ UNCHANGED faults
     \/ /\ mig.pc = "copySecret" /\ ~CopiesMatch(backups[mig.id])
        /\ BackupFails /\ UNCHANGED faults
     \/ MigFault /\ BackupFails
  /\ OnlyMig /\ UNCHANGED <<main, wal, secret, conn, runs, commits, held, disturbed>>

WriteManifest ==
  /\ mig.pc = "manifest"
  /\ \/ /\ backups' = [backups EXCEPT ![mig.id].manifest = TRUE]
        /\ mig' = [mig EXCEPT !.pc = "verify", !.stage = "written"]
        /\ UNCHANGED faults
     \/ MigFault /\ BackupFails
  /\ OnlyMig /\ UNCHANGED <<main, wal, secret, conn, runs, commits, held, disturbed>>
-----------------------------------------------------------------------------
(***************************************************************************)
(* The import.  A failure of the store or of the transaction rolls back to *)
(* the backup just made.                                                   *)
(***************************************************************************)
RollBackNow == mig' = [mig EXCEPT !.pc = "check", !.auto = TRUE]

OpenStore ==
  /\ mig.pc = "open"
  /\ \/ /\ secret' = SecretMade(secret)
        /\ main' = IF main = None THEN Empty ELSE main
        /\ mig' = [mig EXCEPT !.pc = "import"]
        /\ UNCHANGED faults
     \/ MigFault /\ RollBackNow /\ UNCHANGED <<main, secret>>
  /\ OnlyMig /\ UNCHANGED <<wal, conn, backups, runs, commits, held, disturbed>>

Import ==
  /\ mig.pc = "import"
  /\ \/ /\ wal' = [ledger |-> View.ledger,
                   rows |-> [health |-> ReadHealth, stats |-> ReadStats], foreign |-> FALSE]
        /\ \/ mig' = Reported("applied", mig.id) /\ UNCHANGED faults
           \/ MigFault /\ RollBackNow         \* the chmod after the commit fails
     \/ MigFault /\ RollBackNow /\ UNCHANGED wal
  /\ OnlyMig /\ UNCHANGED <<main, secret, conn, backups, runs, commits, held, disturbed>>
-----------------------------------------------------------------------------
(***************************************************************************)
(* rollback_legacy_state.                                                  *)
(***************************************************************************)
Rollback(b) ==
  /\ mig.pc = "idle" /\ runs < MaxRuns
  /\ runs' = runs + 1
  /\ mig' = [Reported("none", b) EXCEPT !.pc = "check"]
  /\ held' = {}
  /\ UNCHANGED <<fileVars, store, conn, commits, disturbed>>

\* _validated_manifest: a complete directory whose files are those the manifest
\* says existed.
Usable(b) ==
  /\ b # None
  /\ b.manifest
  /\ b.dbExisted = (b.db # None)
  /\ b.secretExisted = (b.secret # 0)

RollbackFails == mig' = Reported("blocked", mig.id)

Validate ==
  /\ mig.pc = "check"
  /\ \/ /\ Usable(backups[mig.id])
        /\ mig' = [mig EXCEPT !.pc = "unlinkLog"]
        /\ disturbed' = \E u \in User : conn[u] \in {"open", "stale"}
        /\ UNCHANGED faults
     \/ ~Usable(backups[mig.id]) /\ RollbackFails /\ UNCHANGED <<faults, disturbed>>
     \/ MigFault /\ RollbackFails /\ UNCHANGED disturbed
  /\ OnlyMig /\ UNCHANGED <<store, conn, runs, commits, held>>

\* Open connections keep the files they opened.
Exchanged == conn' = [u \in User |-> IF conn[u] = "open" THEN "stale" ELSE conn[u]]

BugWithoutLog == wal
WithoutLog == None

UnlinkLog ==
  /\ mig.pc = "unlinkLog"
  /\ \/ wal' = WithoutLog /\ Exchanged /\ mig' = [mig EXCEPT !.pc = "restoreDb"] /\ UNCHANGED faults
     \/ MigFault /\ RollbackFails /\ UNCHANGED <<wal, conn>>
  /\ OnlyMig /\ UNCHANGED <<main, secret, backups, runs, commits, held, disturbed>>

\* A log made since the unlinking stays, beside a file it does not belong to.
RestoreDb ==
  /\ mig.pc = "restoreDb"
  /\ \/ /\ main' = backups[mig.id].db
        /\ wal' = IF wal = None THEN None ELSE [wal EXCEPT !.foreign = TRUE]
        /\ Exchanged
        /\ mig' = [mig EXCEPT !.pc = "restoreSecret"]
        /\ UNCHANGED faults
     \/ MigFault /\ RollbackFails /\ UNCHANGED <<main, wal, conn>>
  /\ OnlyMig /\ UNCHANGED <<secret, backups, runs, commits, held, disturbed>>

RestoreSecret ==
  /\ mig.pc = "restoreSecret"
  /\ \/ /\ secret' = backups[mig.id].secret
        /\ mig' = Reported(IF mig.auto THEN "degraded" ELSE "rolled_back", mig.id)
        /\ UNCHANGED faults
     \/ MigFault /\ RollbackFails /\ UNCHANGED secret
  /\ OnlyMig /\ UNCHANGED <<main, wal, conn, backups, runs, commits, held, disturbed>>

\* The migration dies.  What it has done stays.
MigDies ==
  /\ mig.pc # "idle" /\ MigFault
  /\ mig' = Reported("none", mig.id)
  /\ OnlyMig /\ UNCHANGED <<store, conn, runs, commits, held, disturbed>>

MigrationStep ==
  \/ \E dry \in BOOLEAN : Migrate(dry)
  \/ Read \/ Normalize \/ Preflight
  \/ VerifySource \/ MakeDir \/ Copy \/ WriteManifest
  \/ OpenStore \/ Import
  \/ \E b \in DOMAIN backups : Rollback(b)
  \/ Validate \/ UnlinkLog \/ RestoreDb \/ RestoreSecret
  \/ MigDies

Next ==
  \/ FilesMove
  \/ \E u \in User : MakeSecret(u) \/ Connect(u) \/ Commit(u)
  \/ Checkpoint
  \/ MigrationStep

Spec == Init /\ [][Next]_vars
-----------------------------------------------------------------------------
(***************************************************************************)
(* Properties.                                                             *)
(***************************************************************************)
TypeOK ==
  /\ FilesTypeOK
  /\ main \in Content \cup {None} /\ wal \in Log \cup {None} /\ secret \in Nat
  /\ conn \in [User -> {"none", "secret", "open", "stale"}]
  /\ backups \in Seq(Backup \cup {None}) /\ MigOK(mig)
  /\ runs \in 0..MaxRuns /\ commits \in 0..MaxCommits /\ disturbed \in BOOLEAN
  /\ held \subseteq Health \X Stats

\* What the migration imports is one state of the two files: both contents were
\* in place at the same moment since it began (state_migration_v3.py:390-396),
\* although it reads one after the other while they are being replaced.
ImportIsSnapshot ==
  mig.pc \in {"preflight", "verify", "mkdir", "copyDb", "copyHealth", "copyStats",
              "copySecret", "manifest", "open", "import"}
    => <<ReadHealth, ReadStats>> \in held

\* A rollback that reports success has restored what the backup holds: the
\* database without what a log would add to it, and the secret its fingerprints
\* were made with (state_migration_v3.py:663-726); also after a rollback that
\* died half way, and unless someone was connected meanwhile.
RollbackRestores ==
  [][(mig.pc = "restoreSecret" /\ mig'.status \in {"rolled_back", "degraded"} /\ ~disturbed)
      => /\ main' = backups[mig.id].db
         /\ wal' = None
         /\ secret' = backups[mig.id].secret]_vars

=============================================================================
