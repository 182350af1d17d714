--------------------------- MODULE ResponseCache ---------------------------
(***************************************************************************)
(* One entry of the response cache (cache_v3.py) and the requests that use *)
(* it (execute_v3_request in orchestrator_v3.py).  An entry is a file; the *)
(* requests, threads of one process or of several, share it without a lock *)
(* and act on what they read of it some steps earlier.  One action is one  *)
(* operation on a file, and time passes between any two.                   *)
(*                                                                         *)
(* Other software may damage the file, or put one of its own in its place  *)
(* (cache_v3 calls such a file foreign); reads and writes may fail; any    *)
(* request may die.  MaxFaults bounds all of these, MaxTime the clock.     *)
(*                                                                         *)
(* An operator whose name starts with Bug is a mistake one could make in   *)
(* the definition that follows it; only mutation runs use it.              *)
(***************************************************************************)
EXTENDS Integers

CONSTANTS
  Caller,       \* requests with the same cache key
  Plans,        \* candidate orders their plans may have
  Modes,        \* cache modes they may ask for: "prefer", "only"
  Ttl,          \* ttl_seconds
  Stale,        \* allow_stale_seconds
  MayClear,     \* whether an operator clears the cache
  MaxTime, MaxFaults,
  None

\* What a file may hold: an answer, a file of someone else, or damaged bytes.
Entry   == [kind : {"entry"}, plan : Plans, born : Nat]
Foreign == [kind |-> "foreign"]
Torn    == [kind |-> "torn"]
Content == Entry \cup {Foreign, Torn}

ASSUME CacheAssumption ==
  /\ Plans # {} /\ Modes # {} /\ Modes \subseteq {"prefer", "only"}
  /\ Ttl \in Nat /\ Stale \in Nat /\ MayClear \in BOOLEAN
  /\ MaxTime \in Nat /\ MaxFaults \in Nat
  /\ None \notin Content

Steps == {"idle", "lookup", "remove", "examine", "scan", "move", "execute", "put", "over"}

VARIABLES
  now,
  file,         \* the entry's file, None when there is none
  quarantine,   \* files put aside: [of, n] is the name, holds the bytes
  pc,           \* caller -> where its request stands
  call,         \* caller -> the local variables of its request
  clearing,     \* the operator's clear has found the entry
  faults

vars == <<now, file, quarantine, pc, call, clearing, faults>>

Quarantined == [of : Content, n : Nat, holds : Content]

Call == [plan   : Plans,
         mode   : Modes,
         at     : Nat,                            \* "now" passed to the lookup
         born   : Nat,                            \* "now" passed to the write
         data   : Content \cup {None},            \* bytes to be put aside
         n      : Nat,                            \* suffix tried
         answer : {"none", "fresh_hit", "stale_hit", "live", "failed"},
         served : Entry \cup {None}]              \* the entry a hit served

\* A request that asks at a time.
Asked(p, m, t) == [plan |-> p, mode |-> m, at |-> t, born |-> 0, data |-> None, n |-> 0,
                   answer |-> "none", served |-> None]

\* Values no longer needed are reset to fixed ones.
AnyPlan == CHOOSE p \in Plans : TRUE
AnyMode == CHOOSE m \in Modes : TRUE
Done(answer) == [Asked(AnyPlan, AnyMode, 0) EXCEPT !.answer = answer]

Init ==
  /\ now = 0
  /\ file = None
  /\ quarantine = {}
  /\ pc = [c \in Caller |-> "idle"]
  /\ call = [c \in Caller |-> Done("none")]
  /\ clearing = FALSE
  /\ faults = 0

Goto(c, step)   == pc' = [pc EXCEPT ![c] = step]
Fault           == faults < MaxFaults /\ faults' = faults + 1
\* A system call on a file: it works, or it fails and that is one fault.
Io(ok)          == IF ok THEN UNCHANGED faults ELSE Fault
-----------------------------------------------------------------------------
(***************************************************************************)
(* Lookup.                                                                 *)
(***************************************************************************)
Ask(c) ==
  /\ pc[c] = "idle"
  /\ Goto(c, "lookup")
  /\ \E p \in Plans, m \in Modes : call' = [call EXCEPT ![c] = Asked(p, m, now)]
  /\ UNCHANGED <<now, file, quarantine, clearing, faults>>

\* A lookup that found nothing it can serve: only a request that may execute
\* goes on.
Miss(c, x) ==
  IF x.mode = "only"
  THEN Goto(c, "over") /\ call' = [call EXCEPT ![c] = Done("failed")]
  ELSE /\ Goto(c, "execute")
       /\ call' = [call EXCEPT ![c] = [Done("none") EXCEPT !.plan = x.plan]]

Age(x, entry) == IF x.at > entry.born THEN x.at - entry.born ELSE 0

BugDisposition(x, entry) ==
  IF Age(x, entry) <= Ttl + Stale THEN "fresh_hit" ELSE "expired"

Disposition(x, entry) ==
  IF Age(x, entry) <= Ttl THEN "fresh_hit"
  ELSE IF Age(x, entry) <= Ttl + Stale THEN "stale_hit" ELSE "expired"

\* The file is read and classified in one go: nobody writes into a file that
\* exists, so the bytes read are those of one file.  Whatever cannot be read,
\* for whichever reason, counts as corrupt.
Read(c) ==
  LET x == call[c] IN
  /\ pc[c] = "lookup"
  /\ \/ /\ file \in {None, Foreign}
        /\ Miss(c, x) /\ UNCHANGED faults
     \/ /\ file # None /\ Io(file = Torn)
        /\ Goto(c, "examine") /\ UNCHANGED call
     \/ /\ file \in Entry
        /\ LET d == Disposition(x, file) IN
             \/ /\ d # "expired" /\ file.plan = x.plan
                /\ Goto(c, "over")
                /\ call' = [call EXCEPT ![c].answer = d, ![c].served = file,
                                        ![c].mode = AnyMode]
             \/ /\ d # "expired" /\ file.plan # x.plan
                /\ Miss(c, x)
             \/ /\ d = "expired"
                /\ Goto(c, "remove") /\ UNCHANGED call
        /\ UNCHANGED faults
  /\ UNCHANGED <<now, file, quarantine, clearing>>

\* path.unlink(missing_ok=True): whatever is there by now.
Unlink(c) ==
  /\ pc[c] = "remove"
  /\ \E ok \in BOOLEAN : Io(ok) /\ file' = IF ok THEN None ELSE file
  /\ Miss(c, call[c])
  /\ UNCHANGED <<now, quarantine, clearing>>

(***************************************************************************)
(* _quarantine: the bytes are read again, a name that is free (or holds    *)
(* the same bytes) is looked for, the file is moved there.                 *)
(***************************************************************************)
Examine(c) ==
  LET x == call[c] IN
  /\ pc[c] = "examine"
  /\ \/ /\ file # None /\ UNCHANGED faults
        /\ Goto(c, "scan")
        /\ call' = [call EXCEPT ![c].data = file, ![c].n = 0]
     \/ /\ IF file = None THEN UNCHANGED faults ELSE Fault
        /\ Miss(c, x)
  /\ UNCHANGED <<now, file, quarantine, clearing>>

Named(x) == {q \in quarantine : q.of = x.data /\ q.n = x.n}

Scan(c) ==
  LET x == call[c] IN
  /\ pc[c] = "scan"
  /\ \/ /\ Named(x) = {} /\ Goto(c, "move")
        /\ UNCHANGED <<call, clearing, faults>>
     \/ /\ \E q \in Named(x) : q.holds = x.data
        /\ Goto(c, "remove")
        /\ UNCHANGED <<call, clearing, faults>>
     \/ /\ \E q \in Named(x) : q.holds # x.data
        /\ call' = [call EXCEPT ![c].n = @ + 1]
        /\ UNCHANGED <<pc, faults>>
     \/ /\ Named(x) # {} /\ Fault
        /\ Miss(c, x)
  /\ UNCHANGED <<now, file, quarantine, clearing>>

\* os.replace onto the name found free: it moves whatever the entry's file
\* holds by now, over whatever has the name by now.
Move(c) ==
  LET x == call[c] IN
  /\ pc[c] = "move"
  /\ \/ /\ file # None /\ UNCHANGED faults
        /\ quarantine' = (quarantine \ Named(x))
                           \cup {[of |-> x.data, n |-> x.n, holds |-> file]}
        /\ file' = None
     \/ /\ IF file = None THEN UNCHANGED faults ELSE Fault
        /\ UNCHANGED <<file, quarantine>>
  /\ Miss(c, x)
  /\ UNCHANGED <<now, clearing>>
-----------------------------------------------------------------------------
(***************************************************************************)
(* Execution and write.                                                    *)
(***************************************************************************)

\* The adapter executes; a failed or ineligible response is not written.
Execute(c) ==
  /\ pc[c] = "execute"
  /\ \/ /\ Goto(c, "put")
        /\ call' = [call EXCEPT ![c].answer = "live", ![c].born = now]
     \/ /\ Goto(c, "over")
        /\ \E a \in {"live", "failed"} : call' = [call EXCEPT ![c] = Done(a)]
  /\ UNCHANGED <<now, file, quarantine, clearing, faults>>

BugPut(c) ==
  LET entry == [kind |-> "entry", plan |-> call[c].plan, born |-> call[c].born] IN
  /\ pc[c] = "put"
  /\ \/ file' = entry /\ Goto(c, "over")
     \/ file' = Torn /\ file # Torn /\ UNCHANGED pc
  /\ UNCHANGED <<now, quarantine, call, clearing, faults>>

\* put writes a temporary file, which nobody else sees, and replaces the
\* entry's file by it.  A request survives a write that fails.
Put(c) ==
  LET entry == [kind |-> "entry", plan |-> call[c].plan, born |-> call[c].born] IN
  /\ pc[c] = "put"
  /\ \/ UNCHANGED faults /\ file' = entry
     \/ Fault /\ UNCHANGED file
  /\ Goto(c, "over")
  /\ call' = [call EXCEPT ![c] = Done("live")]
  /\ UNCHANGED <<now, quarantine, clearing>>
-----------------------------------------------------------------------------
(***************************************************************************)
(* The environment.                                                        *)
(***************************************************************************)
Damage ==
  /\ Fault
  /\ file' \in {Foreign, Torn} \ {file}
  /\ UNCHANGED <<now, quarantine, pc, call, clearing>>

\* clear() reads every *.json file, those in quarantine too, and unlinks the
\* answers among them.  Nobody writes a file of quarantine in place, so there
\* the two steps are one.
ClearFound ==
  /\ MayClear /\ ~clearing /\ file \in Entry
  /\ clearing' = TRUE
  /\ UNCHANGED <<now, file, quarantine, pc, call, faults>>

ClearEntry ==
  /\ clearing
  /\ clearing' = FALSE
  /\ \E ok \in BOOLEAN : Io(ok) /\ file' = IF ok THEN None ELSE file
  /\ UNCHANGED <<now, quarantine, pc, call>>

ClearQuarantined ==
  /\ MayClear
  /\ \E q \in quarantine : q.holds \in Entry /\ quarantine' = quarantine \ {q}
  /\ UNCHANGED <<now, file, pc, call, clearing, faults>>

Die(c) ==
  /\ pc[c] \notin {"idle", "over"}
  /\ Fault
  /\ Goto(c, "over")
  /\ call' = [call EXCEPT ![c] = Done("none")]
  /\ UNCHANGED <<now, file, quarantine, clearing>>

\* The caller may ask again.
Again(c) ==
  /\ pc[c] = "over"
  /\ Goto(c, "idle")
  /\ call' = [call EXCEPT ![c] = Done("none")]
  /\ UNCHANGED <<now, file, quarantine, clearing, faults>>

Tick ==
  /\ now < MaxTime
  /\ now' = now + 1
  /\ UNCHANGED <<file, quarantine, pc, call, clearing, faults>>

Advance(c) == \/ Read(c) \/ Unlink(c) \/ Examine(c) \/ Scan(c) \/ Move(c)
              \/ Execute(c) \/ Put(c)

Next ==
  \/ \E c \in Caller : Ask(c) \/ Advance(c) \/ Die(c) \/ Again(c)
  \/ Damage \/ ClearFound \/ ClearEntry \/ ClearQuarantined
  \/ Tick

Spec == Init /\ [][Next]_vars

-----------------------------------------------------------------------------
(***************************************************************************)
(* Properties.                                                             *)
(***************************************************************************)
TypeOK ==
  /\ now \in Nat /\ faults \in Nat /\ clearing \in BOOLEAN
  /\ file \in Content \cup {None}
  /\ quarantine \subseteq Quarantined
  /\ pc \in [Caller -> Steps]
  /\ call \in [Caller -> Call]

\* A hit is an answer for the same candidate order and no older than its label
\* says, whatever others did to the file: damaged bytes or a foreign file are
\* never served (_read_for_lookup).
HonestHits ==
  \A c \in Caller : call[c].answer \in {"fresh_hit", "stale_hit"} =>
    LET e == call[c].served IN
    /\ e # None /\ e.plan = call[c].plan
    /\ call[c].at <= e.born + Ttl + (IF call[c].answer = "stale_hit" THEN Stale ELSE 0)

\* Readers never see an answer half written: as long as no system call fails
\* and no other software interferes, nothing is quarantined (_atomic_write).
NoSpuriousQuarantine == faults = 0 => quarantine = {}

=============================================================================
