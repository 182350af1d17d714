----------------------------- MODULE ExtractBatch -----------------------------
(***************************************************************************)
(* One call of an extraction adapter of providers.py and what              *)
(* _extract_plus_core (extract.py) makes of it.  Firecrawl, Keenable and   *)
(* Serper fetch one URL after the other, Linkup fetches them in threads    *)
(* behind a gate, Tavily, Exa, You and Parallel send them all at once.     *)
(*                                                                         *)
(* Pages are abstracted to what is said of their URL.  The clock counts in *)
(* units of a fetch's timeout, bounded by MaxTime.                         *)
(***************************************************************************)
EXTENDS Integers, FiniteSets

CONSTANTS
  Adapters,       \* which of the eight are modelled
  Sizes,          \* numbers of URLs
  Workers,        \* fetches of Linkup at once
  Patience,       \* overall_timeout of a batch
  Deadlines,      \* request deadlines, None for none
  MaxTime, None

VARIABLES
  now, deadline, adapter, urls,
  fetch,          \* url -> "queued", "checked", "sent", or what came of it
  stopped,        \* the URL whose account-wide error came first
  at,             \* the URL the caller waits for
  items,          \* what the caller collected: [url, says]
  outcome,        \* how the call ended, None while it runs
  \* History, for the properties only.
  sent,           \* URLs requested from the provider
  after           \* those of them requested once the account was known to be blocked

vars == <<now, deadline, adapter, urls, fetch, stopped, at, items, outcome, sent, after>>
input == <<deadline, adapter, urls>>

AtOnce   == {"tavily", "exa", "you", "parallel"}
Urls     == 1 .. urls

Pending == {"queued", "checked", "sent"}
Done(u) == fetch[u] \notin Pending
PastDeadline == deadline # None /\ now >= deadline
Ended == outcome # None

Init ==
  /\ now = 0 /\ deadline \in Deadlines /\ adapter \in Adapters /\ urls \in Sizes
  /\ fetch = [u \in Urls |-> "queued"] /\ stopped = None /\ at = 1 /\ items = {}
  /\ outcome = None /\ sent = {} /\ after = {}
-----------------------------------------------------------------------------
(***************************************************************************)
(* A fetch.  "late" is a RequestDeadlineExceeded, "blocked" an error of    *)
(* the whole account, "target" one of the page, "garbled" JSON of another  *)
(* shape than an object.                                                   *)
(***************************************************************************)

\* What may come of a request: the page, a page without text, a report that the
\* page is gone inside a success, a refusal inside a success, an error.
Replies ==
  {"page", "blank", "failed", "target", "blocked", "garbled"}
    \cup (IF adapter = "firecrawl" THEN {"gone", "refused"} ELSE {})
    \cup (IF adapter \in {"linkup", "serper"} THEN {"refused"} ELSE {})

\* _provider_wide_cause.
Blocks(reply) == reply = "blocked"

Raises(reply) == reply \in {"failed", "target", "blocked", "late"}

\* Keenable and Serper turn any exception into an item and lose its reason.
Caught(reply) ==
  IF adapter \in {"keenable", "serper"} /\ reply \in {"failed", "target", "garbled"} THEN "failed" ELSE reply

Running == {u \in Urls : fetch[u] \in {"checked", "sent"}}

\* One at a time, or as many as the gate lets through.
MayStart(u) ==
  IF adapter = "linkup" /\ urls > 1 THEN Cardinality(Running) < Workers ELSE u = at

BugUnstarted(u) == IF PastDeadline THEN "not_tried" ELSE "checked"
\* No request is started for a blocked account or past the deadline.
Unstarted(u) ==
  IF stopped # None THEN "stopped" ELSE IF PastDeadline THEN "not_tried" ELSE "checked"

Start(u) ==
  /\ ~Ended /\ adapter \notin AtOnce
  /\ fetch[u] = "queued" /\ MayStart(u)
  /\ fetch' = [fetch EXCEPT ![u] = Unstarted(u)]
  /\ UNCHANGED <<now, input, stopped, at, items, outcome, sent, after>>

\* make_request looks at the deadline once more.  A thread goes on when its batch ended.
Dispatch(u) ==
  /\ fetch[u] = "checked"
  /\ IF PastDeadline
     THEN fetch' = [fetch EXCEPT ![u] = "late"] /\ UNCHANGED <<sent, after>>
     ELSE /\ fetch' = [fetch EXCEPT ![u] = "sent"] /\ sent' = sent \cup {u}
          /\ after' = IF stopped # None THEN after \cup {u} ELSE after
  /\ UNCHANGED <<now, input, stopped, at, items, outcome>>

Reply(u) ==
  /\ fetch[u] = "sent"
  /\ \E reply \in Replies :
       /\ fetch' = [fetch EXCEPT ![u] = Caught(reply)]
       /\ stopped' = IF Blocks(reply) /\ stopped = None THEN u ELSE stopped
  /\ UNCHANGED <<now, input, at, items, outcome, sent, after>>
-----------------------------------------------------------------------------
(***************************************************************************)
(* The caller collects, in the order of the URLs.                          *)
(***************************************************************************)
Says(u) == {i.says : i \in {j \in items : j.url = u}}
IsError(i) == i.says \notin {"page", "blank"}
Page(i)    == i.says = "page"

\* Exceptions other than ProviderRequestError end Firecrawl's loop and Linkup's.
Crash ==
  /\ ~Ended /\ at \in Urls /\ fetch[at] = "garbled"
  /\ outcome' = "crashed"
  /\ UNCHANGED <<now, input, fetch, stopped, at, items, sent, after>>

Collected(says) ==
  /\ items' = items \cup {[url |-> at, says |-> says]}
  /\ at' = at + 1
  /\ UNCHANGED <<now, input, fetch, stopped, outcome, sent, after>>

Collect == ~Ended /\ at \in Urls /\ Done(at) /\ fetch[at] # "garbled" /\ Collected(fetch[at])

\* Linkup waits for its batch no longer than overall_timeout.
Overdue == adapter = "linkup" /\ urls > 1 /\ now >= Patience

GiveUp == ~Ended /\ at \in Urls /\ ~Done(at) /\ Overdue /\ Collected("timed_out")
-----------------------------------------------------------------------------
(***************************************************************************)
(* The end of a batch: pages, or an error for the attempt engine.          *)
(***************************************************************************)

\* The first exception, which Keenable and Serper do not keep.
FirstError ==
  LET raised == {u \in Urls : \E says \in Says(u) : Raises(says)}
  IN IF adapter \in {"keenable", "serper"} \/ raised = {} THEN None
     ELSE CHOOSE u \in raised : \A v \in raised : u <= v

\* What is usable.
Partial == {i \in items : Page(i)}

HasReason(i) == i.says \in {"target", "gone"}
BatchError ==
  IF \A i \in items : HasReason(i) THEN "urls_failed"
  ELSE LET u == FirstError IN IF "late" \in Says(u) THEN "deadline" ELSE "error"

\* An item whose text is that of RequestDeadlineExceeded.
NotTried(i) == i.says \in {"not_tried"} \cup (IF adapter \in {"keenable", "serper"} THEN {"late"} ELSE {})

\* _extract_plus_core on what an adapter returned.
Handed ==
  IF Partial # {} THEN "pages"
  ELSE IF items # {} /\ \A i \in items : NotTried(i) THEN "deadline"
  ELSE "urls_failed"

\* Linkup raises what happened to a single URL, unless it is the page's fault.
Single ==
  LET says == CHOOSE s \in Says(1) : TRUE
  IN CASE says = "blocked" -> "blocked"
       [] says = "failed"  -> "error"
       [] says = "late"    -> "deadline"
       [] OTHER            -> Handed

\* _extract_batch_payload, then _extract_plus_core.
Finish ==
  IF adapter = "linkup" /\ urls = 1 THEN Single
  ELSE IF stopped # None THEN IF Partial # {} THEN "pages_and_blocked" ELSE "blocked"
  ELSE IF FirstError # None /\ \A i \in items : IsError(i) THEN BatchError
  ELSE Handed

End ==
  /\ ~Ended /\ at > urls /\ adapter \notin AtOnce
  /\ outcome' = Finish
  /\ UNCHANGED <<now, input, fetch, stopped, at, items, sent, after>>
-----------------------------------------------------------------------------
(***************************************************************************)
(* All URLs in one request: pages, and failures the provider lists.        *)
(***************************************************************************)

\* You lists no failures; Exa's are taken for URLs it returned nothing for.
Listed(returned, failures) ==
  CASE adapter = "you" -> {} [] adapter = "exa" -> failures \ returned [] OTHER -> failures

Batch ==
  /\ ~Ended /\ adapter \in AtOnce
  /\ \/ /\ PastDeadline /\ outcome' = "deadline" /\ UNCHANGED <<items, sent>>
     \/ /\ ~PastDeadline /\ sent' = Urls
        /\ \/ outcome' \in {"error", "blocked", "crashed"} /\ UNCHANGED items
           \/ \E pages, failures \in SUBSET Urls : \E blanks \in SUBSET (Urls \ pages) :
                /\ items' = {[url |-> u, says |-> "page"] : u \in pages}
                              \cup {[url |-> u, says |-> "blank"] : u \in blanks}
                              \cup {[url |-> u, says |-> "target"] : u \in Listed(pages \cup blanks, failures)}
                /\ outcome' = IF pages # {} THEN "pages" ELSE "urls_failed"
  /\ UNCHANGED <<now, input, fetch, stopped, at, after>>
-----------------------------------------------------------------------------
Tick ==
  /\ now < MaxTime
  /\ now' = now + 1
  /\ UNCHANGED <<input, fetch, stopped, at, items, outcome, sent, after>>

Collector == Collect \/ GiveUp \/ Crash \/ End \/ Batch
Thread(u) == Start(u) \/ Dispatch(u) \/ Reply(u)
Next == Collector \/ Tick \/ \E u \in Urls : Thread(u)
Spec == Init /\ [][Next]_vars
-----------------------------------------------------------------------------
(***************************************************************************)
(* Properties.                                                             *)
(***************************************************************************)
TypeOK ==
  /\ \A u \in Urls : fetch[u] \in Pending \cup Replies \cup {"late", "stopped", "not_tried", "refused"}
  /\ at \in 1 .. urls + 1 /\ stopped \in Urls \cup {None}
  /\ \A i \in items : i.url \in Urls
  /\ after \subseteq sent /\ sent \subseteq Urls

\* A page the provider was paid for reaches the caller whatever became of the
\* other URLs, an account-wide error among them (providers.py:1085-1103, 1141,
\* 1254-1277); only a reply of an unknown shape ends the call without it.
PaidPagesKept ==
  Ended /\ outcome # "crashed" /\ (\E i \in items : Page(i)) => outcome \in {"pages", "pages_and_blocked"}

\* An account-wide error reaches the attempt engine, in whatever order the
\* fetches ended, and does not stay an item among others (providers.py:1040-1042).
BlockReported ==
  Ended /\ (\E i \in items : i.says = "blocked") /\ outcome # "crashed"
  => outcome \in {"blocked", "pages_and_blocked"}

\* Once one fetch has met a blocked account only those already past their check
\* are still sent (providers.py:1199-1204).
FewAfterBlock == Cardinality(after) < Workers

\* Exa's verdicts do not contradict one another (providers.py:1361-1369).
OneVerdict == adapter = "exa" => \A i, j \in items : i.url = j.url => i = j

\* What a batch of Linkup's comes to though none of its fetches ends: what is
\* overdue is given up (providers.py:1254-1277).
LinkupOver == adapter = "linkup" /\ urls > 1 => Ended
-----------------------------------------------------------------------------
(***************************************************************************)
(* The inductive invariant.                                                *)
(***************************************************************************)
Together  == adapter = "linkup" /\ urls > 1
Checked   == {u \in Urls : fetch[u] = "checked"}
States    == Pending \cup {"page", "blank", "failed", "target", "blocked", "garbled", "gone", "refused",
                           "late", "stopped", "not_tried"}

\* What was collected, of one URL after the other, is what came of its fetch.
ItemsOK ==
  /\ items \subseteq [url : Urls, says : States \cup {"timed_out"}]
  /\ \A i \in items : i.url < at /\ (i.says = "timed_out" \/ (Done(i.url) /\ i.says = fetch[i.url]))
  /\ \A i, j \in items : i.url = j.url => i = j

\* All at once: nothing before the one request, and nothing of an account after it.
AtOnceOK ==
  /\ outcome = None => items = {}
  /\ stopped = None /\ after = {} /\ \A u \in Urls : fetch[u] = "queued"
  /\ \A i \in items : i.says \in {"page", "blank", "target"}

\* Who is under way, and who may still be when the account is known to be blocked.
RunningOK ==
  /\ (\E u \in Urls : fetch[u] = "blocked") => stopped # None
  /\ stopped = None => after = {}
  /\ IF Together
     THEN /\ Cardinality(Running) <= Workers
          /\ stopped # None => Cardinality(after \cup Checked) < Workers
     ELSE /\ Running \subseteq {at}
          /\ after = {} /\ (stopped # None => Running = {})

Inv ==
  /\ urls \in Nat /\ fetch \in [Urls -> States]
  /\ TypeOK /\ PaidPagesKept /\ BlockReported /\ OneVerdict
  /\ IF adapter \in AtOnce THEN AtOnceOK ELSE ItemsOK /\ RunningOK
=============================================================================
