----------------------------- MODULE LegacySearch -----------------------------
(***************************************************************************)
(* The search of the command line without --contract-v3 (search.py:        *)
(* _execute_search_request_core): providers in order, those that failed    *)
(* lately left out (provider_health.py), answers merged when a fallback    *)
(* was needed and kept in the older cache (cache.py).  Each request is a   *)
(* process; they share the health file and the cache.                      *)
(*                                                                         *)
(* Updates of the health file that overlap are module SharedFiles; here    *)
(* each is one step.  The clock counts in the unit of the cooldown ladder, *)
(* bounded by MaxTime.                                                     *)
(***************************************************************************)
EXTENDS Integers, FiniteSetsExt, Selection

CONSTANTS
  Priority,       \* provider_priority
  Configured,     \* providers with a key; the others raise ProviderConfigError
  Queries,          \* what is asked: [provider, routed, fallback, max, cached]
  Pages(_),       \* provider -> the page lists it may answer with
  SameScope(_, _),\* chosen providers with one locale: _legacy_search_cache_context
  Ladder,         \* COOLDOWN_STEPS_SECONDS, a sequence
  Decay,          \* FAILURE_DECAY_SECONDS
  Ttl,            \* effective_search_cache_ttl
  Requests, MaxTime, None

VARIABLES
  now,
  health,         \* provider -> [count, until, last], count 0 without an entry
  entries,        \* the files of the cache
  pc, q,          \* request -> where it stands, what it asks
  eligible,       \* request -> providers left to try, in order
  got,            \* request -> successful_results
  errors,         \* request -> providers that failed it
  answer,         \* request -> its answer
  \* History, for the properties only.
  cooling         \* request -> providers it saw in cooldown

vars == <<now, health, entries, pc, q, eligible, got, errors, answer, cooling>>

Provider == Range(Priority)
NoAnswer == [items |-> <<>>, provider |-> None, hit |-> FALSE, error |-> FALSE, age |-> 0]
Healthy  == [count |-> 0, until |-> 0, last |-> 0]

Init ==
  /\ now = 0 /\ health = [p \in Provider |-> Healthy] /\ entries = {}
  /\ pc = [r \in Requests |-> "idle"] /\ q = [r \in Requests |-> None]
  /\ eligible = [r \in Requests |-> <<>>] /\ got = [r \in Requests |-> <<>>]
  /\ errors = [r \in Requests |-> {}] /\ answer = [r \in Requests |-> NoAnswer]
  /\ cooling = [r \in Requests |-> {}]

Goto(r, step) == pc' = [pc EXCEPT ![r] = step]
-----------------------------------------------------------------------------
(***************************************************************************)
(* The providers to try                                                    *)
(***************************************************************************)
Chosen(a)  == IF a.provider = None THEN a.routed ELSE a.provider
Strict(a)  == a.provider # None /\ ~a.fallback
Order(a)   == IF Strict(a) THEN <<Chosen(a)>>
              ELSE <<Chosen(a)>> \o Among(Priority, Configured \ {Chosen(a)})

InCooldown(p) == health[p].until > now

\* Those in cooldown are left out, but not all: then the first is tried.
Eligible(order) ==
  LET warm == Among(order, {p \in Range(order) : ~InCooldown(p)})
  IN IF warm = <<>> THEN SubSeq(order, 1, 1) ELSE warm

Submit(r) ==
  /\ pc[r] = "idle"
  /\ \E a \in Queries :
       /\ q' = [q EXCEPT ![r] = a]
       /\ eligible' = [eligible EXCEPT ![r] = Eligible(Order(a))]
       /\ cooling' = [cooling EXCEPT ![r] = {p \in Range(Order(a)) : InCooldown(p)}]
       /\ Goto(r, IF a.cached THEN "lookup" ELSE "try")
  /\ UNCHANGED <<now, health, entries, got, errors, answer>>
-----------------------------------------------------------------------------
(***************************************************************************)
(* cache_get and cache_put: an answer is looked for under the chosen       *)
(* provider and kept under the one that answered last, both with the       *)
(* locale of the chosen one.                                               *)
(***************************************************************************)
File(e, a, p) == e.max = a.max /\ e.by = p /\ SameScope(e.scope, Chosen(a))

Found(r) == {e \in entries : File(e, q[r], Chosen(q[r]))}
Old(e)   == now - e.at > Ttl

Lookup(r) ==
  /\ pc[r] = "lookup"
  /\ \/ \E e \in Found(r) :
          /\ ~Old(e)
          /\ answer' = [answer EXCEPT ![r] = [items |-> e.items, provider |-> Chosen(q[r]), hit |-> TRUE,
                                              error |-> FALSE, age |-> now - e.at]]
          /\ Goto(r, "done")
     \/ /\ \E e \in Found(r) : Old(e)
        /\ Goto(r, "unlink") /\ UNCHANGED answer
     \/ /\ Found(r) = {}
        /\ Goto(r, "try") /\ UNCHANGED answer
  /\ UNCHANGED <<now, health, entries, q, eligible, got, errors, cooling>>

\* The file is removed by name, whatever it holds by now.
Unlink(r) ==
  /\ pc[r] = "unlink"
  /\ entries' = entries \ Found(r)
  /\ Goto(r, "try")
  /\ UNCHANGED <<now, health, q, eligible, got, errors, answer, cooling>>
-----------------------------------------------------------------------------
(***************************************************************************)
(* The loop over the eligible providers                                    *)
(***************************************************************************)
\* mark_provider_failure; waits asks for a longer cooldown than the ladder's.
Failed(h, waits) ==
  LET count == IF h.count # 0 /\ now - h.last > Decay THEN 1 ELSE h.count + 1
      top   == Ladder[Len(Ladder)]
      step  == IF waits THEN top ELSE Ladder[Min({count, Len(Ladder)})]
  IN [count |-> Min({count, Len(Ladder)}), until |-> now + step, last |-> now]

\* Another is asked only after a failure, and only for what is still missing.  Nothing cuts
\* what a provider answers: adapters may return more than was asked for.
Enough(r, items) == Len(items) >= q[r].max \/ errors[r] = {}
Turn(r) == pc[r] = "try" /\ eligible[r] # <<>>
NextTurn(r, enough) ==
  /\ eligible' = [eligible EXCEPT ![r] = Tail(@)]
  /\ Goto(r, IF enough \/ Len(eligible[r]) = 1 THEN "finish" ELSE "try")

Answered(r) ==
  LET p == Head(eligible[r]) IN
  /\ Turn(r) /\ p \in Configured
  /\ \E pages \in Pages(p) :
       LET items == [i \in DOMAIN pages |-> [page |-> pages[i], by |-> p]]
       IN /\ got' = [got EXCEPT ![r] = Append(@, [by |-> p, items |-> items])]
          /\ NextTurn(r, Enough(r, items))
  /\ health' = [health EXCEPT ![p] = Healthy]
  /\ UNCHANGED <<now, entries, q, errors, answer, cooling>>

NotConfigured(r) ==
  LET p == Head(eligible[r]) IN
  /\ Turn(r) /\ p \notin Configured
  /\ errors' = [errors EXCEPT ![r] = @ \cup {p}]
  /\ NextTurn(r, FALSE)
  /\ UNCHANGED <<now, health, entries, q, got, answer, cooling>>

Fails(r) ==
  LET p == Head(eligible[r]) IN
  /\ Turn(r) /\ p \in Configured
  /\ \E waits \in BOOLEAN : health' = [health EXCEPT ![p] = Failed(@, waits)]
  /\ errors' = [errors EXCEPT ![r] = @ \cup {p}]
  /\ NextTurn(r, FALSE)
  /\ UNCHANGED <<now, entries, q, got, answer, cooling>>

\* deduplicate_results_across_providers
BugMerged(lists, max) == SubSeq(lists, 1, Min({Len(lists), max}))
Merged(lists, max) ==
  LET new   == {i \in DOMAIN lists : \A j \in 1..(i - 1) : lists[j].page # lists[i].page}
      whole == At(lists, new)
  IN SubSeq(whole, 1, Min({Len(whole), max}))

Finish(r) ==
  LET n     == Len(got[r])
      lists == Joined([i \in DOMAIN got[r] |-> got[r][i].items])
      items == IF n = 1 THEN lists ELSE Merged(lists, q[r].max)
      last  == got[r][n].by
  IN
  /\ pc[r] = "finish"
  /\ \/ /\ n = 0
        /\ answer' = [answer EXCEPT ![r] = [NoAnswer EXCEPT !.error = TRUE, !.provider = Chosen(q[r])]]
        /\ UNCHANGED entries
     \/ /\ n > 0
        /\ answer' = [answer EXCEPT ![r] = [NoAnswer EXCEPT !.items = items, !.provider = last]]
        /\ entries' = IF ~q[r].cached THEN entries
                      ELSE {e \in entries : ~(e.max = q[r].max /\ e.by = last /\ SameScope(e.scope, Chosen(q[r])))}
                             \cup {[max |-> q[r].max, by |-> last, scope |-> Chosen(q[r]), items |-> items, at |-> now]}
  /\ Goto(r, "done")
  /\ UNCHANGED <<now, health, q, eligible, got, errors, cooling>>

Tick ==
  /\ now < MaxTime /\ now' = now + 1
  /\ UNCHANGED <<health, entries, pc, q, eligible, got, errors, answer, cooling>>

Next ==
  \/ \E r \in Requests :
       Submit(r) \/ Lookup(r) \/ Unlink(r) \/ Answered(r) \/ NotConfigured(r) \/ Fails(r) \/ Finish(r)
  \/ Tick

Spec == Init /\ [][Next]_vars
-----------------------------------------------------------------------------
(***************************************************************************)
(* Properties.                                                             *)
(***************************************************************************)
\* Providers that answered it or failed it.
Tried(r) == errors[r] \cup {got[r][i].by : i \in DOMAIN got[r]}

\* A page twice, though several answered.
Unmerged(items) ==
  /\ \E i, j \in DOMAIN items : i # j /\ items[i].page = items[j].page
  /\ \E i, j \in DOMAIN items : items[i].by # items[j].by

\* An answer that several gave has no page twice; it names a provider that is part of it,
\* and is of the only provider a strict request allows; it fails only when every provider
\* failed, but those that were in cooldown when the request came; a hit is young enough
\* (search.py:1187-1225, 1412-1497; quality.py:37-54; cache.py:236-278).
AnswerTrue(r) ==
  LET items == answer[r].items IN
  /\ ~Unmerged(items)
  /\ answer[r].error => /\ errors[r] # {} /\ got[r] = <<>>
                        /\ Range(Order(q[r])) \subseteq errors[r] \cup cooling[r]
  /\ answer[r].hit => answer[r].age <= Ttl /\ got[r] = <<>> /\ errors[r] = {}
  /\ ~answer[r].hit /\ ~answer[r].error =>
       /\ answer[r].provider \in {got[r][i].by : i \in DOMAIN got[r]}
       /\ Strict(q[r]) => \A it \in Range(items) : it.by = q[r].provider

AnswersTrue == \A r \in Requests : pc[r] = "done" => AnswerTrue(r)
-----------------------------------------------------------------------------
(***************************************************************************)
(* The inductive invariant of AnswersTrue.                                 *)
(***************************************************************************)
AskedOK(r) ==
  /\ eligible[r] \in Seq(Range(Order(q[r])))
  /\ Tried(r) \subseteq Range(Order(q[r]))
  /\ Range(Order(q[r])) \subseteq Tried(r) \cup Range(eligible[r]) \cup cooling[r]

Gathered(r) ==
  /\ got[r] \in Seq(Range(got[r]))
  /\ \A i \in DOMAIN got[r] :
       got[r][i].items \in Seq({it \in Range(got[r][i].items) : it.by = got[r][i].by})

EntryOK(e) == ~Unmerged(e.items) /\ e.at \in Nat

Sound(r) ==
  /\ pc[r] \in {"idle", "lookup", "unlink"} => got[r] = <<>> /\ errors[r] = {}
  /\ pc[r] = "finish" => got[r] # <<>> \/ (errors[r] # {} /\ eligible[r] = <<>>)
  /\ pc[r] # "idle" => q[r] \in Queries /\ AskedOK(r)
  /\ Gathered(r)
  /\ pc[r] = "done" => AnswerTrue(r)

LegacyInv ==
  /\ now \in Nat
  /\ DOMAIN pc = Requests /\ DOMAIN q = Requests /\ DOMAIN eligible = Requests /\ DOMAIN got = Requests
  /\ DOMAIN errors = Requests /\ DOMAIN cooling = Requests /\ DOMAIN answer = Requests
  /\ \A r \in Requests : Sound(r)
  /\ \A e \in entries : EntryOK(e)
=============================================================================
