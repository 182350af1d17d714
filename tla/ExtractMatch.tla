---------------------------- MODULE ExtractMatch ----------------------------
(***************************************************************************)
(* match_extract_items (extract_match.py): which item of a provider's      *)
(* reply answers which of the URLs it was asked for.                       *)
(*                                                                         *)
(* A URL is one spelling; Canon and Rewrite give its two comparison keys,  *)
(* None for one that has no key.  A batch maps positions of the request to *)
(* URLs; a matching m maps each of them to the index of its item, 0 when   *)
(* the URL stays open.                                                     *)
(*                                                                         *)
(* An operator whose name starts with Bug is a mistake one could make in   *)
(* the definition that follows it; only mutation runs use it.              *)
(***************************************************************************)
EXTENDS Integers, SequencesExt, FiniteSetsExt

CONSTANTS
  Url,       \* spellings, of requests and of items
  Canon,     \* spelling -> canonical_url
  Rewrite,   \* spelling -> _rewrite_key
  None

Exact == [u \in Url |-> u]

\* An item names the page it holds, and perhaps the URLs it was asked for.
\* What it says is a page, or why there is none.
Named(items, i, pass) ==
  IF pass.source THEN {pass.by[u] : u \in items[i].sources} ELSE {pass.by[items[i].url]}

Passes == <<
  [by |-> Exact,   source |-> FALSE, strict |-> FALSE],
  [by |-> Canon,   source |-> FALSE, strict |-> TRUE],
  [by |-> Exact,   source |-> TRUE,  strict |-> FALSE],
  [by |-> Canon,   source |-> TRUE,  strict |-> TRUE],
  [by |-> Rewrite, source |-> FALSE, strict |-> TRUE],
  [by |-> Rewrite, source |-> TRUE,  strict |-> TRUE]>>

Unused(items, m) == DOMAIN items \ {m[p] : p \in DOMAIN m}
Open(m)          == {p \in DOMAIN m : m[p] = 0}

\* Spellings of the batch that one key does not tell apart.
BugAlike(urls, by, p) == {urls[p]}

Alike(urls, by, p) == {urls[q] : q \in {q \in DOMAIN urls : by[urls[q]] = by[urls[p]]}}

\* One position takes the first item left that has its key, unless the key
\* stands for several spellings.
Take(urls, items, pass, m, p) ==
  LET wanted == pass.by[urls[p]]
      hits   == {i \in Unused(items, m) : wanted \in Named(items, i, pass)}
  IN IF \/ m[p] # 0 \/ wanted = None \/ hits = {}
        \/ pass.strict /\ Cardinality(Alike(urls, pass.by, p)) > 1
     THEN m ELSE [m EXCEPT ![p] = Min(hits)]

\* run_pass: positions with the same key one after the other, keys in the order
\* of their first position.
First(urls, by, p)   == Min({q \in DOMAIN urls : by[urls[q]] = by[urls[p]]})
Latest(urls, by, ps) == Max({p \in ps : First(urls, by, p) = Max({First(urls, by, q) : q \in ps})})

RunPass(urls, items, m, pass) ==
  MapThenFoldSet(LAMBDA p, acc : Take(urls, items, pass, acc, p), m, LAMBDA p : p,
                 LAMBDA ps : Latest(urls, pass.by, ps), DOMAIN urls)

\* A lone item left answers a lone URL left, unless that URL has a sibling.
Lone(urls, items, m) ==
  LET open == Open(m)
      left == Unused(items, m)
  IN IF /\ Cardinality(open) = 1 /\ Cardinality(left) = 1
        /\ \A p \in open : Rewrite[urls[p]] # None /\ Cardinality(Alike(urls, Rewrite, p)) = 1
     THEN [p \in DOMAIN m |-> IF p \in open THEN Min(left) ELSE m[p]] ELSE m

\* The same spelling asked for twice shares one answer.
Repeats(urls, m) ==
  LET same(p) == {q \in DOMAIN urls : q < p /\ m[q] # 0 /\ urls[q] = urls[p]}
  IN [p \in DOMAIN urls |-> IF m[p] = 0 /\ same(p) # {} THEN m[Min(same(p))] ELSE m[p]]

Match(urls, items) ==
  LET none   == [p \in DOMAIN urls |-> 0]
      passed == FoldLeft(LAMBDA m, pass : RunPass(urls, items, m, pass), none, Passes)
  IN Repeats(urls, Lone(urls, items, passed))
-----------------------------------------------------------------------------
(***************************************************************************)
(* What a matching m of a batch of URLs and the items of its reply should  *)
(* satisfy; ExtractFallback checks it of every reply.                      *)
(***************************************************************************)
\* There is a reason to believe that item i answers position p.
Evidence(urls, items, i, p) ==
  \E k \in DOMAIN Passes :
    Passes[k].by[urls[p]] # None /\ Passes[k].by[urls[p]] \in Named(items, i, Passes[k])

\* Another spelling of the batch has the same key.
Sibling(urls, by, p) == \E q \in DOMAIN urls : by[urls[q]] = by[urls[p]] /\ urls[q] # urls[p]

\* The item names the very spelling, or a canonical form that is of no other.
Exactly(urls, items, i, p) == items[i].url = urls[p] \/ urls[p] \in items[i].sources

Canonically(urls, items, i, p) ==
  /\ ~Sibling(urls, Canon, p) /\ Canon[urls[p]] # None
  /\ Canon[urls[p]] \in {Canon[u] : u \in {items[i].url} \cup items[i].sources}
=============================================================================
