---------------------------- MODULE ConnectionPool ----------------------------
(***************************************************************************)
(* The pool of idle keep-alive connections and the requests that use it    *)
(* (http_client.py: _ConnectionPool, _send_once, _pooled_open, urlopen).   *)
(* A request is a loop over redirects; each hop takes a connection, sends, *)
(* reads the answer and gives the connection back or closes it.            *)
(*                                                                         *)
(* The server answers in order, late or never, and closes a connection     *)
(* whenever it likes; a caller may run out of time at any moment of an     *)
(* exchange.  A process may fork: the copy has the same sockets.           *)
(* All URLs are of one origin unless a redirect leads away from it.        *)
(* MaxConns bounds the connections opened, MaxRedirects stands for         *)
(* _MAX_REDIRECTS, MaxTime bounds the clock.                               *)
(***************************************************************************)
EXTENDS Naturals, Sequences

CONSTANTS
  Caller, Process,
  ProcessOf,       \* caller -> the process it runs in
  Forked,          \* the process that is a copy of another one, or None
  IdleSeconds,     \* _KEEPALIVE_IDLE_SECONDS
  MaxIdle,         \* _KEEPALIVE_MAX_IDLE_PER_HOST
  MaxRedirects, MaxConns, MaxTime,
  None

Origins == {"home", "away"}

VARIABLES
  now,
  idle,      \* process -> its idle connections, [conn, stamp], oldest first
  pid,       \* process -> the process its pool believes to be in
  running,   \* processes that exist
  conns,     \* connections opened so far, see Conn
  pc, call   \* caller -> where it stands, and its local variables

vars == <<now, idle, pid, running, conns, pc, call>>

\* The client's socket is open, the server has closed its end; how many requests
\* were sent on it, those the server has not answered, and answers on their way;
\* the processes that have used it.
Conn == [open : BOOLEAN, closed : BOOLEAN, count : Nat, owed : Seq(Nat), inbox : Seq(Nat),
         by : SUBSET Process]
NewConn == [open |-> TRUE, closed |-> FALSE, count |-> 0, owed |-> <<>>, inbox |-> <<>>, by |-> {}]

\* tries counts the sends of the hop, tag is the number of the request on its
\* connection and got that of the answer read.
Call == [conn : Nat, reused : BOOLEAN, hop : Nat, tries : Nat, origin : Origins,
         tag : Nat, got : Nat]

NoCall == [conn |-> 0, reused |-> FALSE, hop |-> 0, tries |-> 0, origin |-> "home",
           tag |-> 0, got |-> 0]

Init ==
  /\ now = 0
  /\ idle = [p \in Process |-> <<>>]
  /\ pid = [p \in Process |-> p]
  /\ running = Process \ {Forked}
  /\ conns = <<>>
  /\ pc = [c \in Caller |-> "idle"]
  /\ call = [c \in Caller |-> NoCall]

Goto(c, step) == pc' = [pc EXCEPT ![c] = step]
Pool(c)       == ProcessOf[c]
Leave(c)      == Goto(c, "over") /\ call' = [call EXCEPT ![c] = NoCall]
Close(cs, i)  == [cs EXCEPT ![i].open = FALSE, ![i].inbox = <<>>]
-----------------------------------------------------------------------------
(***************************************************************************)
(* Taking a connection.                                                    *)
(***************************************************************************)
\* urlopen: the request deadline is looked at once, before the first hop.
Begin(c) ==
  /\ pc[c] = "idle" /\ Pool(c) \in running
  /\ \/ Goto(c, "acquire") /\ UNCHANGED call
     \/ Leave(c)
  /\ UNCHANGED <<now, idle, pid, running, conns>>

\* A pool that finds itself in another process forgets its connections.
Own(p)    == IF pid[p] = p THEN idle[p] ELSE <<>>

Fresh(e)  == now - e.stamp <= IdleSeconds /\ conns[e.conn].open

\* The idle connections that are dropped on the way to a fresh one, newest first.
Acquire(c) ==
  LET p     == Pool(c)
      all   == Own(p)
      good  == {i \in DOMAIN all : Fresh(all[i])}
      last  == IF good = {} THEN 0 ELSE CHOOSE i \in good : \A j \in good : j <= i
      stale == {all[i].conn : i \in {i \in DOMAIN all : i > last}}
      kept  == [i \in DOMAIN conns |-> IF i \in stale THEN Close(conns, i)[i] ELSE conns[i]]
  IN
  /\ pc[c] = "acquire"
  /\ pid' = [pid EXCEPT ![p] = p]
  /\ idle' = [idle EXCEPT ![p] = IF last = 0 THEN <<>> ELSE SubSeq(all, 1, last - 1)]
  /\ \/ /\ last # 0
        /\ conns' = kept
        /\ call' = [call EXCEPT ![c].conn = all[last].conn, ![c].reused = TRUE]
     \/ /\ last = 0 /\ Len(conns) < MaxConns
        /\ conns' = Append(kept, NewConn)
        /\ call' = [call EXCEPT ![c].conn = Len(conns) + 1, ![c].reused = FALSE]
  /\ Goto(c, "send")
  /\ UNCHANGED <<now, running>>
-----------------------------------------------------------------------------
(***************************************************************************)
(* One exchange.                                                           *)
(***************************************************************************)
\* A reused connection the server has closed is replaced by a new one, once.
Replace(c) ==
  IF call[c].reused
  THEN /\ Len(conns) < MaxConns
       /\ conns' = Append(Close(conns, call[c].conn), NewConn)
       /\ call' = [call EXCEPT ![c].conn = Len(conns) + 1, ![c].reused = FALSE]
       /\ Goto(c, "send")
  ELSE /\ conns' = Close(conns, call[c].conn)
       /\ Leave(c)

Send(c) ==
  LET i == call[c].conn IN
  /\ pc[c] = "send"
  /\ \/ /\ ~conns[i].closed
        /\ LET n == conns[i].count + 1 IN
           /\ conns' = [conns EXCEPT ![i].count = n, ![i].owed = Append(@, n),
                                     ![i].by = @ \cup {Pool(c)}]
           /\ call' = [call EXCEPT ![c].tag = n, ![c].tries = @ + 1]
        /\ Goto(c, "receive")
     \/ conns[i].closed /\ Replace(c)
  /\ UNCHANGED <<now, idle, pid, running>>

\* The server went away after the request was sent.
Disconnected(c) ==
  /\ pc[c] = "receive" /\ conns[call[c].conn].closed /\ conns[call[c].conn].inbox = <<>>
  /\ Replace(c)
  /\ UNCHANGED <<now, idle, pid, running>>

\* Whatever else stops an exchange, a timeout or an answer that is incomplete or
\* too large, closes the connection: the rest of it may still be on its way.
StoppedShort(c) ==
  /\ pc[c] = "receive"
  /\ Leave(c)

BugInterrupted(c) ==
  /\ StoppedShort(c)
  /\ idle' = [idle EXCEPT ![Pool(c)] = Append(@, [conn |-> call[c].conn, stamp |-> now])]
  /\ UNCHANGED <<now, pid, running, conns>>

Interrupted(c) ==
  /\ StoppedShort(c)
  /\ conns' = Close(conns, call[c].conn)
  /\ UNCHANGED <<now, idle, pid, running>>

\* The answer is read to its end.  The connection goes back to the pool of the
\* process it was opened in, when there is room.
Receive(c) ==
  LET i == call[c].conn  p == Pool(c) IN
  /\ pc[c] = "receive" /\ conns[i].inbox # <<>>
  /\ call' = [call EXCEPT ![c].got = Head(conns[i].inbox), ![c].conn = 0, ![c].reused = FALSE]
  /\ Goto(c, "decide")
  /\ \/ /\ pid[p] = p /\ Len(idle[p]) < MaxIdle
        /\ idle' = [idle EXCEPT ![p] = Append(@, [conn |-> i, stamp |-> now])]
        /\ conns' = [conns EXCEPT ![i].inbox = Tail(@)]
     \/ /\ UNCHANGED idle                                  \* "Connection: close", or a full pool
        /\ conns' = Close(conns, i)
  /\ UNCHANGED <<now, pid, running>>
-----------------------------------------------------------------------------
(***************************************************************************)
(* The redirect loop: a redirect is followed within the origin only, and   *)
(* at most MaxRedirects times.                                             *)
(***************************************************************************)
MayFollow(from, to)    == from = to

Decide(c) ==
  /\ pc[c] = "decide"
  /\ \/ Leave(c)                                  \* with the answer, or by its status
     \/ \E to \in Origins :
          IF ~MayFollow(call[c].origin, to) THEN Leave(c)
          ELSE IF call[c].hop = MaxRedirects THEN Leave(c)
          ELSE /\ Goto(c, "acquire")
               /\ call' = [call EXCEPT ![c].hop = @ + 1, ![c].tries = 0, ![c].origin = to,
                                       ![c].tag = 0, ![c].got = 0]
  /\ UNCHANGED <<now, idle, pid, running, conns>>
-----------------------------------------------------------------------------
(***************************************************************************)
(* Server, other processes, time.                                          *)
(***************************************************************************)
Serve(i) ==
  /\ conns[i].owed # <<>> /\ ~conns[i].closed
  /\ conns' = [conns EXCEPT ![i].owed = Tail(@),
                            ![i].inbox = IF conns[i].open THEN Append(@, Head(conns[i].owed)) ELSE @]
  /\ UNCHANGED <<now, idle, pid, running, pc, call>>

HangUp(i) ==
  /\ conns[i].open /\ ~conns[i].closed
  /\ conns' = [conns EXCEPT ![i].closed = TRUE, ![i].owed = <<>>]
  /\ UNCHANGED <<now, idle, pid, running, pc, call>>

\* The copy starts with the pool as it is, and with the parent's pid in it.
Fork(p) ==
  /\ Forked # None /\ Forked \notin running /\ p \in running
  /\ running' = running \cup {Forked}
  /\ idle' = [idle EXCEPT ![Forked] = idle[p]]
  /\ pid' = [pid EXCEPT ![Forked] = pid[p]]
  /\ UNCHANGED <<now, conns, pc, call>>

Tick ==
  /\ now < MaxTime /\ now' = now + 1
  /\ UNCHANGED <<idle, pid, running, conns, pc, call>>

CallerStep(c) ==
  \/ Begin(c) \/ Acquire(c) \/ Send(c) \/ Disconnected(c) \/ Interrupted(c) \/ Receive(c)
  \/ Decide(c)

Next ==
  \/ \E c \in Caller : CallerStep(c)
  \/ \E i \in DOMAIN conns : Serve(i) \/ HangUp(i)
  \/ \E p \in Process : Fork(p)
  \/ Tick

Spec == Init /\ [][Next]_vars
-----------------------------------------------------------------------------
(***************************************************************************)
(* Properties.                                                             *)
(***************************************************************************)
TypeOK ==
  /\ now \in 0..MaxTime /\ pid \in [Process -> Process] /\ running \subseteq Process
  /\ idle \in [Process -> Seq([conn : 1..Len(conns), stamp : 0..MaxTime])]
  /\ conns \in Seq(Conn) /\ call \in [Caller -> Call]
  /\ pc \in [Caller -> {"idle", "acquire", "send", "receive", "decide", "over"}]

\* A caller reads the answer to its own request: one that was given up, timed out
\* or too large never leaves its answer to the next user of the connection
\* (http_client.py:274-291).
AnswersAreOwn ==
  \A c \in Caller : pc[c] = "decide" => call[c].got = call[c].tag

\* No two callers use a connection at once, and none uses one that is idle in its
\* own process; a connection is never used by two processes
\* (http_client.py:67-103).
Using(c) == pc[c] \in {"send", "receive"}
OneUser ==
  /\ \A c, d \in Caller : Using(c) /\ Using(d) /\ c # d => call[c].conn # call[d].conn
  /\ \A c \in Caller, p \in Process :
       Using(c) /\ p = Pool(c) /\ pid[p] = p
         => \A i \in DOMAIN idle[p] : idle[p][i].conn # call[c].conn
  /\ \A i \in DOMAIN conns : \A p, q \in conns[i].by : p = q

\* A hop is sent at most twice, a second time only on a connection of its own
\* after the server had closed the one it reused, and every hop goes to the
\* origin its credentials are for (http_client.py:187-206, 262-293).
SentSparingly ==
  \A c \in Caller : Using(c) =>
    /\ call[c].origin = "home" /\ call[c].hop <= MaxRedirects
    /\ call[c].tries <= IF pc[c] = "send" THEN 1 ELSE 2
    /\ call[c].tries = 2 => conns[call[c].conn].count = 1
-----------------------------------------------------------------------------
(***************************************************************************)
(* The inductive invariant.  A connection lies in one pool at one place or *)
(* is used by one caller; the pool a fork copied does not count, it is     *)
(* forgotten before its first use.                                         *)
(***************************************************************************)
Quiet(i) == conns[i].owed = <<>> /\ conns[i].inbox = <<>>
Lies(p, k, i) == pid[p] = p /\ k \in DOMAIN idle[p] /\ idle[p][k].conn = i

\* What is known of a connection that lies in a pool: nothing is under way on it.
IdleOK(p, k, i) ==
  /\ Quiet(i) /\ conns[i].by \subseteq {p}
  /\ \A q \in Process : \A j \in DOMAIN idle[q] : Lies(q, j, i) => q = p /\ j = k
  /\ \A c \in Caller : Using(c) => call[c].conn # i

\* And of one in use: nothing but the request that is waited for.
UseOK(c) ==
  LET i == call[c].conn  x == call[c] IN
  /\ i \in DOMAIN conns /\ conns[i].open /\ conns[i].by \subseteq {Pool(c)}
  /\ \A d \in Caller : Using(d) /\ d # c => call[d].conn # i
  /\ pc[c] = "send" =>
       Quiet(i) /\ (x.tries = 0 \/ (x.tries = 1 /\ ~x.reused)) /\ (~x.reused => conns[i].count = 0)
  /\ pc[c] = "receive" =>
       /\ conns[i].count = x.tag
       /\ \/ conns[i].inbox = <<>> /\ conns[i].owed \in {<<>>, <<x.tag>>}
          \/ conns[i].inbox = <<x.tag>> /\ conns[i].owed = <<>>
       /\ x.tries = 1 \/ (x.tries = 2 /\ ~x.reused /\ conns[i].count = 1)

Inv ==
  /\ TypeOK /\ AnswersAreOwn
  /\ \A p \in Process \ {Forked} : pid[p] = p
  /\ \A p \in Process : \A k \in DOMAIN idle[p] : \A i \in DOMAIN conns : Lies(p, k, i) => IdleOK(p, k, i)
  /\ \A c \in Caller : Using(c) => UseOK(c)
  /\ \A c \in Caller : call[c].origin = "home" /\ call[c].hop <= MaxRedirects
                       /\ (pc[c] \in {"idle", "acquire"} => call[c].tries = 0)
  /\ \A i \in DOMAIN conns : conns[i].by = {} \/ \E p \in Process : conns[i].by = {p}
=============================================================================
