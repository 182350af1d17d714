------------------------------- MODULE CallPacer -------------------------------
(***************************************************************************)
(* The pacer of a rate-limited provider (providers.py: _CallPacer and      *)
(* _brave_get): callers take the next free start under a lock and sleep    *)
(* until it; answers carry the interval the plan allows.  MaxTime bounds   *)
(* the clock, MaxCalls the calls.                                          *)
(***************************************************************************)
EXTENDS Integers

CONSTANTS
  Caller,
  Intervals,     \* intervals a plan may name, 0 for none
  MaxWait,       \* BRAVE_MAX_RATE_WAIT_SECONDS
  Deadlines,     \* request deadlines
  MaxTime, MaxCalls, None

VARIABLES
  now,
  nextSlot, lastStart, interval,    \* the pacer's fields
  pc, wake,                         \* caller -> where it stands, when it wakes
  calls

vars == <<now, nextSlot, lastStart, interval, pc, wake, calls>>

Init ==
  /\ now = 0 /\ nextSlot = 0 /\ lastStart = None /\ interval = 0
  /\ pc = [c \in Caller |-> "idle"] /\ wake = [c \in Caller |-> [at |-> 0, limit |-> 0]]
  /\ calls = 0

Least(a, b)    == IF a < b THEN a ELSE b
Greatest(a, b) == IF a > b THEN a ELSE b

\* A wait beyond the limit is not worth it: the call starts at once.
Start == IF nextSlot > now /\ nextSlot - now <= MaxWait THEN nextSlot ELSE now

NewSlot(start)    == start + interval

\* A caller whose deadline comes first takes no slot; it sleeps up to the
\* deadline and raises.
TooLate(limit)    == limit <= Start

WaitTurn(c) ==
  /\ pc[c] = "idle" /\ calls < MaxCalls
  /\ calls' = calls + 1
  /\ \E limit \in Deadlines :
       \/ /\ TooLate(limit)
          /\ pc' = [pc EXCEPT ![c] = "gives_up"]
          /\ wake' = [wake EXCEPT ![c] = [at |-> Greatest(now, limit), limit |-> limit]]
          /\ UNCHANGED <<lastStart, nextSlot>>
       \/ /\ ~TooLate(limit)
          /\ pc' = [pc EXCEPT ![c] = "sleeps"]
          /\ wake' = [wake EXCEPT ![c] = [at |-> Start, limit |-> limit]]
          /\ lastStart' = Start /\ nextSlot' = NewSlot(Start)
  /\ UNCHANGED <<now, interval>>

\* The sleep ends; it may last longer than asked for.
Send(c) ==
  /\ pc[c] = "sleeps" /\ now >= wake[c].at
  /\ pc' = [pc EXCEPT ![c] = "sent"]
  /\ UNCHANGED <<now, nextSlot, lastStart, interval, wake, calls>>

Raise(c) ==
  /\ pc[c] = "gives_up" /\ now >= wake[c].at
  /\ pc' = [pc EXCEPT ![c] = "idle"]
  /\ UNCHANGED <<now, nextSlot, lastStart, interval, wake, calls>>

\* The answer, or the error, names the interval or says nothing of it.  A longer
\* interval also moves the slot after the last start.
Learn(c) ==
  /\ pc[c] = "sent"
  /\ pc' = [pc EXCEPT ![c] = "idle"]
  /\ \/ UNCHANGED <<interval, nextSlot>>
     \/ \E i \in Intervals :
          /\ interval' = Least(i, MaxWait)
          /\ nextSlot' = IF lastStart = None THEN nextSlot
                         ELSE Greatest(nextSlot, lastStart + interval')
  /\ UNCHANGED <<now, lastStart, wake, calls>>

Tick ==
  /\ now < MaxTime /\ now' = now + 1
  /\ UNCHANGED <<nextSlot, lastStart, interval, pc, wake, calls>>

CallerStep(c) == WaitTurn(c) \/ Send(c) \/ Raise(c) \/ Learn(c)

Next == (\E c \in Caller : CallerStep(c)) \/ Tick

Spec == Init /\ [][Next]_vars
-----------------------------------------------------------------------------
TypeOK ==
  /\ now \in 0..MaxTime /\ nextSlot \in Nat /\ lastStart \in Nat \cup {None} /\ interval \in Nat
  /\ pc \in [Caller -> {"idle", "sleeps", "gives_up", "sent"}]
  /\ wake \in [Caller -> [at : Nat, limit : Nat]]
  /\ calls \in 0..MaxCalls

\* The slot the next caller gets is an interval after the start given out last,
\* whoever sleeps, gives up or changes the interval meanwhile (providers.py:525-
\* 549).
SlotsSpaced == lastStart # None => nextSlot >= lastStart + interval

\* A slot is given only for a start before the caller's deadline.
StartsInTime == \A c \in Caller : pc[c] = "sleeps" => wake[c].at < wake[c].limit
=============================================================================
