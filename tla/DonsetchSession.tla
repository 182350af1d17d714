---------------------------- MODULE DonsetchSession ----------------------------
(***************************************************************************)
(* The DonSeTch provider (providers.d/donsetch.py): a request starts a     *)
(* child process, speaks JSON-RPC with it over its standard streams, and   *)
(* reaps it.  A search makes one tool call, an extraction one per URL, in  *)
(* one session.  A thread moves the child's lines into a queue, another    *)
(* drains its error stream.                                                *)
(*                                                                         *)
(* The child is not trusted: it answers late, never, twice, with an error  *)
(* or with lines that are no answer, dies at any time and may ignore the   *)
(* request to terminate.  MaxNoise bounds the lines nobody asked for,      *)
(* MaxTime the clock, which goes further only to reach a deadline.         *)
(***************************************************************************)
EXTENDS Naturals, Sequences, FiniteSets

CONSTANTS
  NumUrls,          \* URLs of an extraction
  Timeouts,         \* configured session timeouts
  RequestDeadlines, \* deadlines of the request around it
  MaxNoise, MaxTime,
  None

Urls  == 1..NumUrls
Codes == {"donsetch_binary_not_configured", "donsetch_process_failed", "donsetch_timeout",
          "donsetch_mcp_failed", "donsetch_mcp_initialize_failed", "donsetch_mcp_call_failed",
          "donsetch_mcp_contract_failed", "donsetch_tool_error", "deadline",
          "donsetch_unsupported"}

\* A line of the child.  "about" is the URL whose page it carries, 0 without one.
Kinds   == {"page", "no_page", "tool_error", "error", "no_result", "noise"}
Message == [id : Nat, kind : Kinds, about : Nat]
EndOfStream == [id |-> 0, kind |-> "end", about |-> 0]

\* An entry of the result list: a page, or why there is none.
Item == [url : Urls, page : Nat, error : Codes \cup {None, "not_tried", "fetch_failed"}]

Steps == {"idle", "spawn", "initialize", "initializing", "initialized", "next", "calling",
          "close", "terminating", "killing", "drain", "over"}

VARIABLES
  now,
  pc, op,        \* the request
  timeout,       \* timeout_seconds
  limit,         \* the request's deadline
  deadline,      \* _deadline
  nextId, index, \* _next_id; the URL it is at
  items,         \* "projected"
  error,         \* what it will raise
  child,         \* "none", "alive", "dying": told to terminate, "killed", "dead"
  stdin,         \* requests the child has not read
  stdout,        \* lines not yet read by the reader thread
  lines,         \* _stdout_lines
  reader,        \* the reader threads run
  answered,      \* ids it has answered
  noise

request == <<op, timeout, limit>>
process == <<child, stdin, stdout, answered, noise>>
vars == <<now, pc, request, deadline, nextId, index, items, error, process, lines, reader>>

Init ==
  /\ now = 0 /\ pc = "idle"
  /\ op \in {"search", "extract"} /\ timeout \in Timeouts /\ limit \in RequestDeadlines
  /\ deadline = 0 /\ nextId = 1 /\ index = 1 /\ items = <<>> /\ error = None
  /\ child = "none" /\ stdin = <<>> /\ stdout = <<>> /\ lines = <<>> /\ reader = FALSE
  /\ answered = {} /\ noise = 0

DeadlinePassed == now >= limit
Targets == IF op = "search" THEN {1} ELSE Urls
Raise(code) == pc' = "close" /\ error' = code
-----------------------------------------------------------------------------
(***************************************************************************)
(* Start.                                                                  *)
(***************************************************************************)
\* execute_search, execute_extract up to the session: the binary, options the
\* provider does not know, and dispatch_timeout: the time that is left.
Begin ==
  /\ pc = "idle"
  /\ \/ /\ pc' = "over" /\ error' \in {"donsetch_binary_not_configured", "donsetch_unsupported"}
        /\ UNCHANGED timeout
     \/ DeadlinePassed /\ pc' = "over" /\ error' = "deadline" /\ UNCHANGED timeout
     \/ /\ ~DeadlinePassed
        /\ timeout' = IF timeout < limit - now THEN timeout ELSE limit - now
        /\ pc' = "spawn" /\ UNCHANGED error
  /\ UNCHANGED <<now, op, limit, deadline, nextId, index, items, process, lines, reader>>

Spawn ==
  /\ pc = "spawn"
  /\ deadline' = now + timeout
  /\ \/ child' = "alive" /\ reader' = TRUE /\ pc' = "initialize" /\ UNCHANGED error
     \/ Raise("donsetch_binary_not_configured") /\ UNCHANGED <<child, reader>>
     \/ Raise("donsetch_process_failed") /\ UNCHANGED <<child, reader>>
  /\ UNCHANGED <<now, request, nextId, index, items, stdin, stdout, answered, noise, lines>>

\* A line for the child.  The pipe breaks once the child is gone.
Write(message, then) ==
  \/ /\ child = "alive"
     /\ stdin' = Append(stdin, message)
     /\ pc' = then /\ UNCHANGED error
  \/ /\ child = "dead"
     /\ Raise("donsetch_process_failed") /\ UNCHANGED stdin

Initialize ==
  /\ pc = "initialize"
  /\ Write([id |-> nextId, url |-> 0], "initializing")
  /\ nextId' = nextId + 1
  /\ UNCHANGED <<now, request, deadline, index, items, child, stdout, answered, noise, lines, reader>>
-----------------------------------------------------------------------------
(***************************************************************************)
(* Reading an answer.                                                      *)
(***************************************************************************)
Awaited == nextId - 1
BugMatches(m) == m.id # 0
Matches(m)    == m.id = Awaited

\* Head of the queue.  Lines that are no answer to this request are passed over;
\* the end of the stream stays for later readers.
Skip ==
  /\ pc \in {"initializing", "calling"} /\ now < deadline
  /\ lines # <<>> /\ Head(lines) # EndOfStream /\ ~Matches(Head(lines))
  /\ lines' = Tail(lines)
  /\ UNCHANGED <<now, pc, request, deadline, nextId, index, items, error, process, reader>>

Got(m) == lines # <<>> /\ Head(lines) = m /\ lines' = Tail(lines) /\ now < deadline

Initialized ==
  /\ pc = "initializing"
  /\ \E m \in {m \in {lines[i] : i \in DOMAIN lines} : m # EndOfStream /\ Matches(m)} :
       /\ Got(m)
       /\ CASE m.kind = "error"     -> Raise("donsetch_mcp_initialize_failed")
            [] m.kind = "no_result" -> Raise("donsetch_mcp_contract_failed")
            [] OTHER                -> pc' = "initialized" /\ UNCHANGED error
  /\ UNCHANGED <<now, request, deadline, nextId, index, items, process, reader>>

\* What the wait for an answer may raise instead.
Broken  == lines # <<>> /\ Head(lines) = EndOfStream /\ now < deadline
Expired    == now >= deadline

InitializeFails ==
  /\ pc = "initializing"
  /\ \/ Broken /\ Raise("donsetch_mcp_failed")
     \/ Expired /\ Raise("donsetch_timeout")
  /\ UNCHANGED <<now, request, deadline, nextId, index, items, process, lines, reader>>

Notify ==
  /\ pc = "initialized"
  /\ Write([id |-> 0, url |-> 0], "next")
  /\ UNCHANGED <<now, request, deadline, nextId, index, items, child, stdout, answered, noise,
                 lines, reader>>
-----------------------------------------------------------------------------
(***************************************************************************)
(* Calls.                                                                  *)
(***************************************************************************)
Entry(u, page, why) == [url |-> u, page |-> page, error |-> why]
Pages == {i \in DOMAIN items : items[i].error = None}

\* The URLs after this one, when the session cannot go on.
Rest(why) == [i \in 1..(NumUrls - index) |-> Entry(index + i, 0, why)]

\* A URL reached after the request's deadline is not fetched; the pages are kept.
PassOver ==
  /\ pc = "next" /\ op = "extract" /\ index \in Urls /\ DeadlinePassed
  /\ items' = Append(items, Entry(index, 0, "deadline"))
  /\ index' = index + 1
  /\ UNCHANGED <<now, pc, request, deadline, nextId, error, process, lines, reader>>

\* A failed call ends the session.  Without a page it fails the request; with one
\* its URL and those after it get the reason and the pages stay.
CallFails(why, others) ==
  IF op = "search" \/ Pages = {}
  THEN Raise(why) /\ UNCHANGED <<items, index>>
  ELSE /\ items' = Append(items, Entry(index, 0, why)) \o Rest(others)
       /\ index' = NumUrls + 1
       /\ pc' = "close" /\ UNCHANGED error

Call ==
  /\ pc = "next" /\ index \in Targets /\ ~(op = "extract" /\ DeadlinePassed)
  /\ nextId' = nextId + 1
  /\ \/ /\ child = "alive"
        /\ stdin' = Append(stdin, [id |-> nextId, url |-> index])
        /\ pc' = "calling" /\ UNCHANGED <<error, items, index>>
     \/ /\ child = "dead"
        /\ CallFails("donsetch_process_failed", "not_tried") /\ UNCHANGED stdin
  /\ UNCHANGED <<now, request, deadline, child, stdout, answered, noise, lines, reader>>

\* _project_fetch_item: a page, or the reason of the fetch in its place.
Projected(m) ==
  IF m.kind = "page" THEN Entry(index, m.about, None) ELSE Entry(index, 0, "fetch_failed")

Answered ==
  /\ pc = "calling"
  /\ \E m \in {m \in {lines[i] : i \in DOMAIN lines} : m # EndOfStream /\ Matches(m)} :
       /\ Got(m)
       /\ \/ /\ m.kind \in {"page", "no_page", "noise"}
             /\ items' = Append(items, Projected(m))
             /\ index' = index + 1 /\ pc' = "next" /\ UNCHANGED error
          \/ m.kind = "error"      /\ CallFails("donsetch_mcp_call_failed", "not_tried")
          \/ m.kind = "no_result"  /\ CallFails("donsetch_mcp_contract_failed", "not_tried")
          \/ m.kind = "tool_error" /\ CallFails("donsetch_tool_error", "not_tried")
  /\ UNCHANGED <<now, request, deadline, nextId, process, reader>>

CallBreaks ==
  /\ pc = "calling"
  /\ \/ Broken /\ CallFails("donsetch_mcp_failed", "not_tried")
     \/ Expired /\ CallFails("donsetch_timeout", "deadline")
  /\ UNCHANGED <<now, request, deadline, nextId, process, lines, reader>>

Finish ==
  /\ pc = "next" /\ index \notin Targets
  /\ pc' = "close"
  /\ UNCHANGED <<now, request, deadline, nextId, index, items, error, process, lines, reader>>
-----------------------------------------------------------------------------
(***************************************************************************)
(* close: the child's input is closed, it is asked to terminate, then      *)
(* killed; each wait ends when the child is gone or after a second.        *)
(***************************************************************************)
Terminate ==
  /\ pc = "close"
  /\ \/ child = "none" /\ pc' = "over" /\ UNCHANGED child
     \/ child = "dead" /\ pc' = "drain" /\ UNCHANGED child
     \/ child = "alive" /\ pc' = "terminating" /\ child' = "dying"
  /\ UNCHANGED <<now, request, deadline, nextId, index, items, error, stdin, stdout, answered,
                 noise, lines, reader>>

Reap ==
  /\ pc \in {"terminating", "killing"} /\ child = "dead"
  /\ pc' = "drain"
  /\ UNCHANGED <<now, request, deadline, nextId, index, items, error, process, lines, reader>>

Killed    == "killed"

Kill ==
  /\ pc = "terminating" /\ child = "dying"
  /\ pc' = "killing" /\ child' = Killed
  /\ UNCHANGED <<now, request, deadline, nextId, index, items, error, stdin, stdout, answered,
                 noise, lines, reader>>

GiveUpWaiting ==
  /\ pc = "killing" /\ child # "dead"
  /\ pc' = "drain"
  /\ UNCHANGED <<now, request, deadline, nextId, index, items, error, process, lines, reader>>

\* The error stream is read to its end, or for a second and a half.
Drain ==
  /\ pc = "drain"
  /\ pc' = "over"
  /\ UNCHANGED <<now, request, deadline, nextId, index, items, error, process, lines, reader>>
-----------------------------------------------------------------------------
(***************************************************************************)
(* The child, its streams, and time.                                       *)
(***************************************************************************)
\* It may close its end at any point, and obeys the request to terminate or not.
ChildDies ==
  /\ child \in {"alive", "dying", "killed"}
  /\ child' = "dead"
  /\ UNCHANGED <<now, pc, request, deadline, nextId, index, items, error, stdin, stdout, answered,
                 noise, lines, reader>>

Reply ==
  /\ child \in {"alive", "dying"} /\ stdin # <<>>
  /\ LET asked == Head(stdin) IN
     /\ stdin' = Tail(stdin)
     /\ \/ asked.id = 0 /\ UNCHANGED <<stdout, answered>>
        \/ /\ asked.id # 0
           /\ \E kind \in Kinds \ {"noise"} :
                stdout' = Append(stdout, [id |-> asked.id, kind |-> kind, about |-> asked.url])
           /\ answered' = answered \cup {[id |-> asked.id, url |-> asked.url]}
        \/ asked.id # 0 /\ UNCHANGED <<stdout, answered>>
  /\ UNCHANGED <<now, pc, request, deadline, nextId, index, items, error, child, noise, lines, reader>>

\* Notifications, damaged lines, and an answer sent a second time.
Chatter ==
  /\ child \in {"alive", "dying"} /\ noise < MaxNoise
  /\ noise' = noise + 1
  /\ \/ stdout' = Append(stdout, [id |-> 0, kind |-> "noise", about |-> 0])
     \/ \E a \in answered :
          stdout' = Append(stdout, [id |-> a.id, kind |-> "page", about |-> a.url])
  /\ UNCHANGED <<now, pc, request, deadline, nextId, index, items, error, child, stdin, answered,
                 lines, reader>>

ReadLine ==
  /\ reader /\ stdout # <<>>
  /\ lines' = Append(lines, Head(stdout)) /\ stdout' = Tail(stdout)
  /\ UNCHANGED <<now, pc, request, deadline, nextId, index, items, error, child, stdin, answered,
                 noise, reader>>

ReadEnd ==
  /\ reader /\ stdout = <<>> /\ child = "dead"
  /\ lines' = Append(lines, EndOfStream) /\ reader' = FALSE
  /\ UNCHANGED <<now, pc, request, deadline, nextId, index, items, error, process>>

Tick ==
  /\ now < MaxTime \/ now < deadline
  /\ pc # "over" /\ now' = now + 1
  /\ UNCHANGED <<pc, request, deadline, nextId, index, items, error, process, lines, reader>>

SessionStep ==
  \/ Begin \/ Spawn \/ Initialize \/ Skip \/ Initialized \/ InitializeFails \/ Notify
  \/ PassOver \/ Call \/ Answered \/ CallBreaks \/ Finish
  \/ Terminate \/ Reap \/ Kill \/ GiveUpWaiting \/ Drain

SessionNext == SessionStep \/ ChildDies \/ Reply \/ Chatter \/ ReadLine \/ ReadEnd \/ Tick

Spec == Init /\ [][SessionNext]_vars

\* The request's thread and the clock go on; nothing is assumed of the child or
\* of the readers.
FairSpec == Spec /\ WF_vars(SessionStep) /\ WF_vars(Tick)
-----------------------------------------------------------------------------
(***************************************************************************)
(* Properties.                                                             *)
(***************************************************************************)
TypeOK ==
  /\ now \in Nat /\ pc \in Steps /\ deadline \in Nat /\ nextId \in Nat \ {0}
  /\ index \in 1..(NumUrls + 1) /\ items \in Seq(Item) /\ error \in Codes \cup {None}
  /\ child \in {"none", "alive", "dying", "killed", "dead"} /\ reader \in BOOLEAN
  /\ stdin \in Seq([id : Nat, url : Nat]) /\ stdout \in Seq(Message)
  /\ lines \in Seq(Message \cup {EndOfStream})

\* The page stored for a URL is the page the child sent for it, whatever the
\* child repeats, delays or adds (donsetch.py:404-427, 1020-1027).
PagesBelong ==
  \A i \in DOMAIN items : items[i].error = None /\ op = "extract" => items[i].page = items[i].url

\* An extraction that does not raise accounts for every URL, once and in order,
\* with at most one reason; the pages read before a failure are among them
\* (donsetch.py:1013-1058).
EveryUrlAccounted ==
  pc = "over" /\ op = "extract" /\ error = None
    => /\ Len(items) = NumUrls
       /\ \A i \in DOMAIN items : items[i].url = i

\* A request that has read a page does not fail (donsetch.py:1028-1050).
PagesSurvive == op = "extract" /\ Pages # {} => error = None

\* When the request is over its child has ended or was killed, one that ignores
\* the request to terminate included (donsetch.py:718-752).
ChildReaped == pc = "over" => child \in {"none", "killed", "dead"}

\* What every request comes to, by its timeout if the child never says a word.
Over == pc = "over"
-----------------------------------------------------------------------------
(***************************************************************************)
(* The inductive invariant.                                                *)
(***************************************************************************)
Opening == {"idle", "spawn", "initialize", "initializing", "initialized"}
Closing == {"close", "terminating", "killing", "drain", "over"}

\* One item for each URL it is past, in order, and none is left out without an error.
Progress ==
  /\ pc \in Opening => index = 1
  /\ pc = "calling" => index \in Targets /\ nextId > 1
  /\ pc \in Closing => error # None \/ index \notin Targets
  /\ error # None => pc \in Closing
  /\ Len(items) = index - 1 /\ \A i \in DOMAIN items : items[i].url = i

\* A line answers a call that was made; what answers the call under way is about its URL.
About(id, url) == id < nextId /\ (pc = "calling" /\ id = Awaited => url = index)

LinesOK ==
  /\ \A i \in DOMAIN stdin : About(stdin[i].id, stdin[i].url)
  /\ \A i \in DOMAIN stdout : About(stdout[i].id, stdout[i].about)
  /\ \A i \in DOMAIN lines : About(lines[i].id, lines[i].about)
  /\ \A a \in answered : About(a.id, a.url)

\* How far the child's end has come.
ChildOK ==
  /\ pc \in {"idle", "spawn"} => child = "none"
  /\ pc \in {"initialize", "initializing", "initialized", "next", "calling"} => child \in {"alive", "dead"}
  /\ pc = "close" => child \in {"none", "alive", "dead"}
  /\ pc = "terminating" => child \in {"dying", "dead"}
  /\ pc = "killing" => child \in {"killed", "dead"}
  /\ pc \in {"drain", "over"} => child \in {"none", "killed", "dead"}

Inv ==
  /\ op \in {"search", "extract"} /\ timeout \in Nat /\ limit \in Nat
  /\ answered \subseteq [id : Nat, url : Nat]
  /\ TypeOK /\ PagesBelong /\ PagesSurvive /\ Progress /\ LinesOK /\ ChildOK
=============================================================================
