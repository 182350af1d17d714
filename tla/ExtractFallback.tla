-------------------------- MODULE ExtractFallback --------------------------
(***************************************************************************)
(* _execute_extract_v3 (extract.py): the URLs of an extract request go to  *)
(* one provider after another.  Those a provider leaves open, or answers   *)
(* with an error that another provider might not make, go to the next.     *)
(*                                                                         *)
(* What the attempt engine does inside one attempt is AttemptEngine; here  *)
(* an attempt is refused, fails, or gets a reply.                          *)
(***************************************************************************)
EXTENDS ExtractMatch

CONSTANTS
  Requests,      \* sequences of URLs a request may ask for
  Providers,     \* candidate_order
  Replies,       \* sequences of items a provider may reply
  AttemptLimit   \* max_provider_attempts

Final  == {"not_found", "gone"}     \* FINAL_REASONS: no provider can read the page
Rank   == [says \in {"not_found", "gone", "blocked", "unsupported_site", "unreachable",
                     "site_error", "unknown", "not_tried"} |->
             CASE says \in Final              -> 6
               [] says = "blocked"            -> 4
               [] says = "unsupported_site"   -> 3
               [] says = "unreachable"        -> 2
               [] says = "site_error"         -> 1
               [] OTHER                       -> 0]
Item   == [url : Url, sources : SUBSET Url, says : {"page"} \cup DOMAIN Rank]

Paid     == {"served", "stopped", "failed"}
Receipts == Paid \cup {"policy_excluded", "deadline_exceeded", "budget_blocked", "circuit_open"}
Provider == Range(Providers)

ASSUME FallbackAssumption ==
  /\ AttemptLimit \in Nat
  /\ Providers \in Seq(Provider) /\ IsInjective(Providers)
  /\ Requests \subseteq Seq(Url) /\ Replies \subseteq Seq(Item)
  /\ None \notin Provider \cup Receipts \cup DOMAIN Rank

VARIABLES
  urls,       \* the URLs of the request
  next,       \* index of the provider whose turn it is
  pending,    \* positions still open
  answer,     \* position -> provider that served it, or None
  failed,     \* position -> the most telling reason so far, or None
  reply,      \* what the current provider answered, or None
  late,       \* the request's deadline has passed
  receipt,    \* provider -> receipt of its turn, or None
  gone,       \* positions some provider reported as final        (history)
  offered     \* position -> providers it was sent to             (history)

vars == <<urls, next, pending, answer, failed, reply, late, receipt, gone, offered>>

Turn     == Providers[next]
Position == DOMAIN urls
Asked    == [p \in pending |-> urls[p]]
Called   == {p \in Provider : receipt[p] \in Paid}

Init ==
  /\ urls \in Requests
  /\ next = 1
  /\ pending = DOMAIN urls
  /\ answer = [p \in DOMAIN urls |-> None]
  /\ failed = [p \in DOMAIN urls |-> None]
  /\ reply = None
  /\ late = FALSE
  /\ receipt = [p \in Provider |-> None]
  /\ gone = {}
  /\ offered = [p \in DOMAIN urls |-> {}]

\* The matching of every batch and reply, worked out once.
Batches  == UNION {{[p \in ps |-> r[p]] : ps \in SUBSET DOMAIN r} : r \in Requests}
Matching == [batch \in Batches |-> [items \in Replies |-> Match(batch, items)]]

OnTurn == next <= Len(Providers) /\ reply = None

EndTurn(r) ==
  /\ next' = next + 1
  /\ receipt' = [receipt EXCEPT ![Turn] = r]

\* A provider that is not called.
Skip(r) ==
  /\ OnTurn
  /\ \/ r = "policy_excluded"   /\ pending = {}
     \/ r = "deadline_exceeded" /\ pending # {} /\ late
     \/ r = "budget_blocked"    /\ pending # {} /\ ~late   \* of the request or of the day
     \/ r = "circuit_open"      /\ pending # {} /\ ~late   \* or blocked by auth, quota, rate
  /\ EndTurn(r)
  /\ UNCHANGED <<urls, pending, answer, failed, reply, late, gone, offered>>

MayCall == OnTurn /\ pending # {} /\ ~late /\ Cardinality(Called) < AttemptLimit

Offer == offered' = [p \in Position |-> offered[p] \cup (IF p \in pending THEN {Turn} ELSE {})]

\* The call raises without a word on its URLs.
Fail ==
  /\ MayCall /\ Offer
  /\ EndTurn("failed")
  /\ UNCHANGED <<urls, pending, answer, failed, reply, late, gone>>

\* The provider replies; it may have stopped in the middle of the batch.
Answer ==
  /\ MayCall /\ Offer
  /\ \E items \in Replies, stopped \in BOOLEAN :
       LET m == Matching[Asked][items] IN
       /\ reply' = [urls |-> Asked, items |-> items, match |-> m, stopped |-> stopped]
       /\ gone' = gone \cup {p \in pending : m[p] # 0 /\ items[m[p]].says \in Final}
  /\ UNCHANGED <<urls, next, pending, answer, failed, late, receipt>>
-----------------------------------------------------------------------------
(***************************************************************************)
(* What becomes of a reply.                                                *)
(***************************************************************************)
Usable(i) == reply.items[i].says = "page"

\* position -> its item in the reply, or None
ItemAt(p) == IF reply.match[p] = 0 THEN None ELSE reply.items[reply.match[p]]

Better(old, new) ==
  IF old = None \/ Rank[new] > Rank[old] THEN new ELSE old

BugStillOpen(p) == ItemAt(p) # None

\* Positions that go to the next provider.
StillOpen(p) == failed'[p] \notin Final

\* Some item holds a page, but none for a URL of the batch, or none holds a page
\* and the batch was stopped or never tried: the call fails without its items.
Discarded ==
  IF \E i \in DOMAIN reply.items : Usable(i)
  THEN \A p \in pending : reply.match[p] # 0 => ~Usable(reply.match[p])
  ELSE \/ reply.stopped
       \/ reply.items # <<>> /\ \A i \in DOMAIN reply.items : reply.items[i].says = "not_tried"

Discard ==
  /\ reply # None /\ Discarded
  /\ EndTurn("failed") /\ reply' = None
  /\ UNCHANGED <<urls, pending, answer, failed, late, gone, offered>>

\* ExtractUrlsFailed: the reasons are kept, the attempt failed.
AllFailed ==
  /\ reply # None /\ ~Discarded /\ \A i \in DOMAIN reply.items : ~Usable(i)
  /\ failed' = [p \in Position |->
                  IF p \in pending /\ ItemAt(p) # None
                  THEN Better(failed[p], ItemAt(p).says) ELSE failed[p]]
  /\ pending' = {p \in pending : StillOpen(p)}
  /\ EndTurn("failed") /\ reply' = None
  /\ UNCHANGED <<urls, answer, late, gone, offered>>

\* Positions whose item is a page.
Served == {p \in pending : ItemAt(p) # None /\ ItemAt(p).says = "page"}

BugUnserved == pending

Unserved == pending \ Served

Serve ==
  /\ reply # None /\ Served # {}
  /\ answer' = [p \in Position |->
                  IF p \in Served THEN Turn ELSE answer[p]]
  /\ failed' = [p \in Position |->
                  IF p \in Unserved
                  THEN Better(failed[p], IF ItemAt(p) = None THEN "unknown" ELSE ItemAt(p).says)
                  ELSE failed[p]]
  /\ pending' = {p \in Unserved : StillOpen(p)}
  /\ EndTurn(IF reply.stopped THEN "stopped" ELSE "served") /\ reply' = None
  /\ UNCHANGED <<urls, late, gone, offered>>

Expire ==
  /\ ~late /\ late' = TRUE
  /\ UNCHANGED <<urls, next, pending, answer, failed, reply, receipt, gone, offered>>

Next ==
  \/ \E r \in Receipts : Skip(r)
  \/ Fail \/ Answer \/ Discard \/ AllFailed \/ Serve
  \/ Expire

Spec == Init /\ [][Next]_vars

Over == next > Len(Providers)
-----------------------------------------------------------------------------
(***************************************************************************)
(* Properties.                                                             *)
(***************************************************************************)
TypeOK ==
  /\ next \in 1 .. Len(Providers) + 1
  /\ pending \subseteq Position
  /\ answer \in [Position -> Provider \cup {None}]
  /\ failed \in [Position -> DOMAIN Rank \cup {None}]
  /\ late \in BOOLEAN
  /\ receipt \in [Provider -> Receipts \cup {None}]
  /\ reply # None => reply.match \in [pending -> 0 .. Len(reply.items)]

\* A URL is not handed the item of a sibling of the batch, a spelling with the
\* same rewrite key: its item names the very spelling, or its canonical form where
\* that tells the siblings apart; no other pass, and no item left over, decides
\* (match_extract_items).  Spellings that share the canonical form and not the
\* rewrite key, http://e.com:80/p and http://e.com/p, are no siblings here: the
\* one left open may get a lone item that names the other.
SiblingsNotMixed ==
  reply # None =>
    \A k \in DOMAIN reply.match :
      reply.match[k] # 0 /\ Sibling(reply.urls, Rewrite, k) =>
        \/ Exactly(reply.urls, reply.items, reply.match[k], k)
        \/ Canonically(reply.urls, reply.items, reply.match[k], k)

\* A position of the request that got its page is not paid for again: no provider
\* after the one that served it is asked for it.  This is of positions: where the
\* request repeats a URL and a provider gives one position the page and the other
\* an error, the other goes on, and the page may be read, and paid for, twice.
ReadOnce ==
  \A p \in Position : answer[p] # None =>
    \A q \in offered[p] : \E i, j \in DOMAIN Providers :
      Providers[i] = q /\ Providers[j] = answer[p] /\ i <= j

\* No URL is dropped: one that ends without a page was sent to every provider
\* that was called, unless a provider reported that there is none.
NoneDropped ==
  /\ Over => \A p \in Position :
       answer[p] = None /\ failed[p] \notin Final => Called \subseteq offered[p]
  /\ \A p \in Position : failed[p] \in Final => p \in gone

\* Providers may drop and repeat URLs, and the caller sees none of it: the page
\* of one URL of the batch is never handed to another.
RightPage ==
  reply # None =>
    \A k \in DOMAIN reply.match : reply.match[k] # 0 =>
      \/ Evidence(reply.urls, reply.items, reply.match[k], k)
      \/ reply.items[reply.match[k]].url \notin Range(reply.urls)
=============================================================================
