----------------------------- MODULE ProbeWatch -----------------------------
(***************************************************************************)
(* AttemptEngine with a history variable: the probers whose lease no       *)
(* longer shuts others out.  The store gives a lease a length and no       *)
(* identity, so a call may go on probing although its row lets the next    *)
(* one in; the code does nothing against it.  The variable says which      *)
(* probers that has happened to, and by whose doing.                       *)
(***************************************************************************)
EXTENDS AttemptEngine

VARIABLE exposed   \* probers whose lease can be taken over

\* Another call writes over the row of c's lease so that it ends earlier:
\*  - it records a failure of the class with a window shorter than what is left
\*    of the lease (record_failure does not look at what it replaces);
\*  - it is a last-resort probe and expires such a failure's row;
\*  - it gives back a lease of its own that it has itself outlived.
Undercut(c) ==
  LET e == frame[c].lease IN
  \E o \in {x \in Call \ {c} : EndpointOf[x] = EndpointOf[c]} :
    \/ /\ Record(o) /\ frame[o].error.class = e
       /\ now + OpenWindow(e, frame[o].error.retryAfter) < frame[c].leaseEnd
    \/ /\ Expire(o) /\ frame[o].target = e
       /\ RowsOf(c)[e].state = "open"
    \/ /\ Release(o) /\ frame[o].lease = e
       /\ o \in exposed

\* What a step of the engine does to the exposed ones: a prober is exposed from
\* the moment its lease is over, or is undercut, until it stops probing.
Watch ==
  exposed' = {c \in Call :
    /\ Probing(c)'
    /\ (c \in exposed /\ Probing(c)) \/ now' >= frame'[c].leaseEnd \/ Undercut(c)}

WatchSpec == Init /\ exposed = {} /\ [][Next /\ Watch]_<<vars, exposed>>

\* Two processes race for one lease over several transactions (admit, claim,
\* re-read, the reservations, the operation): at most one of them probes a
\* bucket, as long as the first one's lease has neither run out nor been
\* undercut.
OneProber ==
  \A c, o \in Call :
    /\ c # o /\ Probing(c) /\ Probing(o)
    /\ EndpointOf[c] = EndpointOf[o] /\ frame[c].lease = frame[o].lease
    => c \in exposed \/ o \in exposed
=============================================================================
