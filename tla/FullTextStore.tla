----------------------------- MODULE FullTextStore -----------------------------
(***************************************************************************)
(* The store of full page texts (bounded_context_v3.py: FullTextStore): a  *)
(* directory many processes use at once without a lock.  An entry's name   *)
(* is a digest of its URL and text; it is published by a hard link, never  *)
(* overwritten, and removed by age and by total size.                      *)
(*                                                                         *)
(* The pages are successive texts of one URL.  Path 0 is the name older    *)
(* versions gave to that URL's entry.  The directory may hold files of the *)
(* user's and damaged entries.  MaxTime bounds the clock, MaxJobs the      *)
(* calls, MaxFaults the system calls that fail.                            *)
(***************************************************************************)
EXTENDS Naturals, FiniteSets, Functions

CONSTANTS
  Process,
  NumPages,
  Size,          \* path -> bytes of an entry there
  Ttl,           \* ttl_seconds
  MaxBytes,      \* max_bytes
  MinAge,        \* of an orphan, in seconds
  MaxTime, MaxJobs, MaxFaults,
  None

Pages == 1..NumPages
Paths == 0..NumPages

\* What a file holds: the whole text of its page, another text under the header of
\* that page, a header that records another digest, an entry of older versions, or
\* no marker at all.
Texts == {"whole", "damaged", "mislabelled", "older", "foreign"}
File  == [text : Texts, mtime : 0..MaxTime]

Reports == {None, "stored", "failed", "missing"} \cup Texts

VARIABLES
  now,
  files,      \* path -> its file, or None
  temp,       \* process -> when it wrote the temporary file it has, or None
  orphans,    \* when the temporary files of the dead were written
  pc, page,   \* process -> where it stands, the page it is about
  scan,       \* process -> "entries" of enforce_retention
  report,     \* process -> the result of its last call
  jobs, faults,
  \* History, for the properties only.
  died,       \* a process has died
  swept       \* a retention run has ended

vars == <<now, files, temp, orphans, pc, page, scan, report, jobs, faults, died, swept>>

Init ==
  /\ now = 0
  /\ files \in [Paths -> {None} \cup [text : Texts, mtime : {0}]]
  /\ \A p \in Paths :
       files[p] # None => files[p].text \in IF p = 0 THEN {"older", "foreign"} ELSE Texts \ {"older"}
  /\ temp = [j \in Process |-> None] /\ orphans = {}
  /\ pc = [j \in Process |-> "idle"] /\ page = [j \in Process |-> 1]
  /\ scan = [j \in Process |-> {}] /\ report = [j \in Process |-> None]
  /\ jobs = 0 /\ faults = 0 /\ died = FALSE /\ swept = FALSE

\* _owned, _owned_digest: a writer trusts the digest an entry's header records and
\* does not read the text below it.
BugOwned(p) == files[p] # None
Owned(p)    == files[p] # None /\ files[p].text # "foreign"
Good(p)     == Owned(p) /\ files[p].text \in {"whole", "damaged"}
Expired(t)  == now - t > Ttl

Goto(j, step)   == pc' = [pc EXCEPT ![j] = step]
End(j, outcome) == Goto(j, "idle") /\ report' = [report EXCEPT ![j] = outcome]
Fault           == faults < MaxFaults /\ faults' = faults + 1
-----------------------------------------------------------------------------
(***************************************************************************)
(* store                                                                   *)
(***************************************************************************)
Begin(j, p) ==
  /\ pc[j] = "idle" /\ jobs < MaxJobs
  /\ jobs' = jobs + 1
  /\ page' = [page EXCEPT ![j] = p]
  /\ report' = [report EXCEPT ![j] = None]
  /\ Goto(j, "check") \/ Goto(j, "find")
  /\ UNCHANGED <<now, files, temp, orphans, scan, faults, died, swept>>

\* Nothing is stored beside a foreign file of the older name, or over one.
Check(j) ==
  /\ pc[j] = "check"
  /\ IF files[0] # None /\ ~Owned(0) THEN End(j, "failed")
     ELSE /\ Goto(j, IF files[page[j]] # None THEN "vet" ELSE "look")
          /\ UNCHANGED report
  /\ UNCHANGED <<now, files, temp, orphans, page, scan, jobs, faults, died, swept>>

Vet(j) ==
  /\ pc[j] = "vet"
  /\ IF Good(page[j]) THEN Goto(j, "look") /\ UNCHANGED report ELSE End(j, "failed")
  /\ UNCHANGED <<now, files, temp, orphans, page, scan, jobs, faults, died, swept>>

Look(j) ==
  /\ pc[j] = "look"
  /\ Goto(j, IF files[page[j]] # None THEN "verify" ELSE "write")
  /\ UNCHANGED <<now, files, temp, orphans, page, scan, report, jobs, faults, died, swept>>

\* _atomic_write_owned: a temporary file, then a link to it under the entry's name.
WriteTemp(j) ==
  /\ pc[j] = "write"
  /\ \/ temp' = [temp EXCEPT ![j] = now] /\ Goto(j, "link") /\ UNCHANGED <<report, faults>>
     \/ Fault /\ End(j, "failed") /\ UNCHANGED temp
  /\ UNCHANGED <<now, files, orphans, page, scan, jobs, died, swept>>

\* The link fails when another writer was first, which is as good, or when another
\* process took the temporary file for an orphan.
Link(j) ==
  /\ pc[j] = "link"
  /\ \/ /\ temp[j] # None /\ files[page[j]] = None
        /\ files' = [files EXCEPT ![page[j]] = [text |-> "whole", mtime |-> temp[j]]]
        /\ Goto(j, "verify") /\ UNCHANGED report
     \/ /\ temp[j] # None /\ files[page[j]] # None
        /\ Goto(j, "verify") /\ UNCHANGED <<files, report>>
     \/ /\ temp[j] = None
        /\ End(j, "failed") /\ UNCHANGED files
  /\ temp' = [temp EXCEPT ![j] = None]
  /\ UNCHANGED <<now, orphans, page, scan, jobs, faults, died, swept>>

Verify(j) ==
  /\ pc[j] = "verify"
  /\ IF Good(page[j]) THEN Goto(j, "clean") /\ UNCHANGED report ELSE End(j, "failed")
  /\ UNCHANGED <<now, files, temp, orphans, page, scan, jobs, faults, died, swept>>

\* The entry may not have outlived this call's own retention run.
Conclude(j) ==
  /\ pc[j] = "conclude"
  /\ End(j, IF Good(page[j]) THEN "stored" ELSE "failed")
  /\ UNCHANGED <<now, files, temp, orphans, page, scan, jobs, faults, died, swept>>
-----------------------------------------------------------------------------
(***************************************************************************)
(* cleanup_orphans, enforce_retention                                      *)
(***************************************************************************)
Old(t) == t # None /\ now - t >= MinAge

CleanOrphans(j) ==
  /\ pc[j] = "clean"
  /\ temp' = [k \in Process |-> IF Old(temp[k]) THEN None ELSE temp[k]]
  /\ orphans' = {t \in orphans : ~Old(t)}
  /\ Goto(j, "scan")
  /\ UNCHANGED <<now, files, page, scan, report, jobs, faults, died, swept>>

\* A sweep of its own, when an extraction stores nothing (extract.py).
Sweep(j) ==
  /\ pc[j] = "idle" /\ jobs < MaxJobs
  /\ jobs' = jobs + 1
  /\ page' = [page EXCEPT ![j] = 0]
  /\ report' = [report EXCEPT ![j] = None]
  /\ Goto(j, "scan")
  /\ UNCHANGED <<now, files, temp, orphans, scan, faults, died, swept>>

\* The entries found, with their times; what happens to them afterwards is not
\* looked at again.
Scan(j) ==
  /\ pc[j] = "scan"
  /\ scan' = [scan EXCEPT ![j] = {[path |-> p, mtime |-> files[p].mtime, keep |-> FALSE] :
                                    p \in {q \in Paths : Owned(q)}}]
  /\ Goto(j, "evict")
  /\ UNCHANGED <<now, files, temp, orphans, page, report, jobs, faults, died, swept>>

PathsOf(entries) == {e.path : e \in entries}
Total(paths)     == FoldFunctionOnSet(+, 0, Size, paths)

\* Next to go: an expired entry, else the oldest while they are too many.
Older(d, e) == d.mtime < e.mtime \/ (d.mtime = e.mtime /\ d.path <= e.path)
Victims(entries) ==
  LET open    == {e \in entries : ~e.keep}
      expired == {e \in open : Expired(e.mtime)}
  IN IF expired # {} THEN expired
     ELSE IF Total(PathsOf(entries)) <= MaxBytes THEN {}
     ELSE {e \in open : \A d \in open : Older(e, d)}

Evict(j) ==
  /\ pc[j] = "evict"
  /\ \E e \in Victims(scan[j]) :
       \/ /\ files' = [files EXCEPT ![e.path] = None]
          /\ scan' = [scan EXCEPT ![j] = @ \ {e}]
          /\ UNCHANGED faults
       \/ /\ Fault
          /\ scan' = [scan EXCEPT ![j] = (@ \ {e}) \cup {[e EXCEPT !.keep = TRUE]}]
          /\ UNCHANGED files
  /\ UNCHANGED <<now, temp, orphans, pc, page, report, jobs, died, swept>>

Enough(j)    == Victims(scan[j]) = {}

Swept(j) ==
  /\ pc[j] = "evict" /\ Enough(j)
  /\ scan' = [scan EXCEPT ![j] = {}]
  /\ swept' = TRUE
  /\ Goto(j, IF page[j] = 0 THEN "idle" ELSE "conclude")
  /\ UNCHANGED <<now, files, temp, orphans, page, report, jobs, faults, died>>
-----------------------------------------------------------------------------
(***************************************************************************)
(* lookup                                                                  *)
(***************************************************************************)
Find(j) ==
  LET p == page[j] IN
  /\ pc[j] = "find"
  /\ IF ~Owned(p) THEN End(j, "missing")
     ELSE Goto(j, IF Expired(files[p].mtime) THEN "expire" ELSE "read") /\ UNCHANGED report
  /\ UNCHANGED <<now, files, temp, orphans, page, scan, jobs, faults, died, swept>>

Expire(j) ==
  /\ pc[j] = "expire"
  /\ files' = [files EXCEPT ![page[j]] = None]
  /\ End(j, "missing")
  /\ UNCHANGED <<now, temp, orphans, page, scan, jobs, faults, died, swept>>

\* _resolve_full_text_paths: a path is shown only when what was read has the digest
\* and the length recorded for it.
BugIntact(text) == TRUE
Intact(text)    == text = "whole"

Read(j) ==
  LET p == page[j] IN
  /\ pc[j] = "read"
  /\ End(j, IF Owned(p) /\ Intact(files[p].text) THEN files[p].text ELSE "missing")
  /\ UNCHANGED <<now, files, temp, orphans, page, scan, jobs, faults, died, swept>>
-----------------------------------------------------------------------------
Die(j) ==
  /\ pc[j] \notin {"idle", "dead"} /\ died = FALSE
  /\ Goto(j, "dead") /\ died' = TRUE
  /\ orphans' = IF temp[j] = None THEN orphans ELSE orphans \cup {temp[j]}
  /\ temp' = [temp EXCEPT ![j] = None]
  /\ scan' = [scan EXCEPT ![j] = {}]
  /\ UNCHANGED <<now, files, page, report, jobs, faults, swept>>

Tick ==
  /\ now < MaxTime /\ now' = now + 1
  /\ UNCHANGED <<files, temp, orphans, pc, page, scan, report, jobs, faults, died, swept>>

Store(j) ==
  \/ Check(j) \/ Vet(j) \/ Look(j) \/ WriteTemp(j) \/ Link(j) \/ Verify(j) \/ CleanOrphans(j)
  \/ Scan(j) \/ Evict(j) \/ Swept(j) \/ Conclude(j)

Lookup(j) == Find(j) \/ Expire(j) \/ Read(j)

Next ==
  \/ \E j \in Process :
       \/ \E p \in Pages : Begin(j, p)
       \/ Sweep(j) \/ Store(j) \/ Lookup(j) \/ Die(j)
  \/ Tick

Spec == Init /\ [][Next]_vars
-----------------------------------------------------------------------------
(***************************************************************************)
(* Properties.                                                             *)
(***************************************************************************)
TypeOK ==
  /\ now \in 0..MaxTime /\ files \in [Paths -> File \cup {None}]
  /\ temp \in [Process -> (0..MaxTime) \cup {None}] /\ orphans \subseteq 0..MaxTime
  /\ page \in [Process -> Paths] /\ report \in [Process -> Reports]
  /\ \A j \in Process : scan[j] \subseteq [path : Paths, mtime : 0..MaxTime, keep : BOOLEAN]
  /\ jobs \in 0..MaxJobs /\ faults \in 0..MaxFaults /\ died \in BOOLEAN /\ swept \in BOOLEAN

\* Once nobody is at work the entries fit the configured size, however many
\* processes stored and swept at once: each writer sweeps after it published
\* (bounded_context_v3.py:404-407, 469-497).
StoreBounded ==
  (\A j \in Process : pc[j] = "idle") /\ swept /\ faults = 0
    => Total({p \in Paths : Owned(p)}) <= MaxBytes

\* A reader is shown the whole text its reference stands for or nothing, whoever
\* writes, sweeps or dies meanwhile, and whatever an entry was damaged into
\* (bounded_context_v3.py:288-308, 431-447; extract.py:815-845).
LookupTrue ==
  \A j \in Process : report[j] \in {None, "stored", "failed", "missing", "whole"}

\* No file of the user's in the directory is ever replaced or removed
\* (bounded_context_v3.py:337-345, 376-385, 435-441).
ForeignStays ==
  \A p \in Paths : files[p] # None /\ files[p].text = "foreign" => files'[p] = files[p]
-----------------------------------------------------------------------------
(***************************************************************************)
(* The inductive invariant.  A path that was found to be an entry holds no *)
(* file of the user's when it is removed.                                  *)
(***************************************************************************)
Foreign(p) == files[p] # None /\ files[p].text = "foreign"

Inv ==
  /\ TypeOK /\ LookupTrue /\ DOMAIN pc = Process /\ DOMAIN scan = Process
  /\ \A j \in Process :
       /\ \A e \in scan[j] : ~Foreign(e.path)
       /\ pc[j] = "expire" => ~Foreign(page[j])

\* Once a sweep is under way or over, a set of paths that fits the configured size, or
\* that a sweep still reduces, has every entry but those whose writers are yet to sweep.
Promised(p) == Good(p) /\ \E j \in Process : page[j] = p /\ pc[j] \in {"verify", "clean", "scan"}
Spares(paths)   == \A p \in Paths : Owned(p) => p \in paths \/ Promised(p)
Reduces(paths)  == \E j \in Process : pc[j] = "evict" /\ paths = PathsOf(scan[j])
Fitting(paths)  == swept /\ Total(paths) <= MaxBytes

Accounted ==
  /\ died => \E j \in Process : pc[j] = "dead"
  /\ faults = 0 => \A j \in Process : \A e \in scan[j] : ~e.keep
  /\ ~died /\ faults = 0 /\ (swept \/ \E j \in Process : pc[j] = "evict") =>
       \E paths \in SUBSET Paths : Spares(paths) /\ (Fitting(paths) \/ Reduces(paths))
=============================================================================
