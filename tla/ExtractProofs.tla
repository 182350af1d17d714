---------------------------- MODULE ExtractProofs ----------------------------
(***************************************************************************)
(* Machine-checked theorems about ExtractFallback, for any requests, any   *)
(* providers and whatever they reply.  The first two hold for every        *)
(* matching of a batch; the last is about what match_extract_items does.   *)
(***************************************************************************)
EXTENDS ExtractFallback, FiniteLemmas, SequenceTheorems

\* The providers up to the one whose turn it is.
UpTo(n) == {Providers[i] : i \in {i \in DOMAIN Providers : i <= n}}

FallbackTypes ==
  /\ urls \in Requests
  /\ next \in Nat \ {0}
  /\ pending \subseteq Position
  /\ DOMAIN answer = Position /\ DOMAIN failed = Position
  /\ offered \in [Position -> SUBSET Provider]
  /\ receipt \in [Provider -> Receipts \cup {None}]
  /\ gone \subseteq Position
  /\ reply # None => next <= Len(Providers)

\* A position is open, answered, or closed by a final reason; a final reason has
\* been heard from a provider.
Accounts ==
  /\ \A p \in pending : answer[p] = None
  /\ \A p \in Position :
       /\ answer[p] = None /\ failed[p] \notin Final => p \in pending
       /\ failed[p] \in Final => p \in gone
  /\ reply # None =>
       \A p \in pending :
         reply.match[p] # 0 /\ reply.items[reply.match[p]].says \in Final => p \in gone

\* Open positions went to everyone called, and nobody was asked out of turn.
Offers ==
  /\ \A p \in Position : offered[p] \subseteq UpTo(next)
  /\ \A p \in pending : Called \subseteq offered[p]
  /\ reply # None => \A p \in pending : Turn \in offered[p]

FallbackInv == FallbackTypes /\ Accounts /\ Offers /\ ReadOnce

-----------------------------------------------------------------------------
\* The turn passes on; only a paid receipt counts as a call.
LEMMA TurnEnds ==
  ASSUME FallbackTypes, next <= Len(Providers), NEW r \in Receipts, EndTurn(r)
  PROVE  /\ Turn \in Provider /\ Turn \in UpTo(next) /\ Turn # None
         /\ next' = next + 1 /\ next' \in Nat \ {0}
         /\ receipt' \in [Provider -> Receipts \cup {None}]
         /\ Called' \subseteq Called \cup {Turn}
         /\ r \notin Paid => Called' \subseteq Called
         /\ UpTo(next) \subseteq UpTo(next')
<1>1. next \in DOMAIN Providers /\ next \in Nat \ {0}
  BY FallbackAssumption, LenProperties DEF FallbackTypes
<1>2. Turn \in Provider /\ Turn \in UpTo(next) /\ Turn # None
  BY <1>1, FallbackAssumption DEF Turn, Provider, Range, UpTo
<1>3. next' = next + 1 /\ receipt' = [receipt EXCEPT ![Turn] = r]
  BY DEF EndTurn
<1>4. receipt' \in [Provider -> Receipts \cup {None}]
  BY <1>2, <1>3 DEF FallbackTypes
<1>5. \A q \in Provider : receipt'[q] = IF q = Turn THEN r ELSE receipt[q]
  BY <1>2, <1>3 DEF FallbackTypes
<1>6. Called' \subseteq Called \cup {Turn} /\ (r \notin Paid => Called' \subseteq Called)
  BY <1>5 DEF Called
<1>7. \A i \in DOMAIN Providers : i \in Nat
  BY FallbackAssumption, LenProperties
<1>8. UpTo(next) \subseteq UpTo(next')
  BY <1>1, <1>3, <1>7 DEF UpTo
<1> QED BY <1>1, <1>2, <1>3, <1>4, <1>6, <1>8

LEMMA MayCallTurn ==
  ASSUME FallbackTypes, next <= Len(Providers)
  PROVE  Turn \in Provider /\ Turn \in UpTo(next)
<1>1. next \in DOMAIN Providers
  BY FallbackAssumption, LenProperties DEF FallbackTypes
<1> QED BY <1>1 DEF Turn, Provider, Range, UpTo, FallbackTypes

-----------------------------------------------------------------------------
(***************************************************************************)
(* Each action keeps the invariant.                                        *)
(***************************************************************************)
LEMMA FinalReasons ==
  \A old, new : Better(old, new) \in Final => old \in Final \/ new \in Final
BY DEF Better

LEMMA SkipStep ==
  ASSUME FallbackInv, NEW r \in Receipts, Skip(r) PROVE FallbackInv'
<1> USE DEF FallbackInv
<1>1. /\ r \notin Paid /\ next <= Len(Providers) /\ EndTurn(r)
      /\ UNCHANGED <<urls, pending, answer, failed, reply, gone, offered>> /\ reply = None
  BY DEF Skip, OnTurn, Paid
<1>2. /\ next' \in Nat \ {0} /\ receipt' \in [Provider -> Receipts \cup {None}]
      /\ Called' \subseteq Called /\ UpTo(next) \subseteq UpTo(next')
  BY <1>1, TurnEnds
<1>3. FallbackTypes' /\ Accounts'
  BY <1>1, <1>2 DEF FallbackTypes, Accounts, Position
<1>4. Offers'
  BY <1>1, <1>2 DEF Offers, Position
<1>5. ReadOnce'
  BY <1>1 DEF ReadOnce, Position
<1> QED BY <1>3, <1>4, <1>5

\* The open positions are offered to the provider whose turn it is.
LEMMA Offering ==
  ASSUME FallbackInv, next <= Len(Providers), Offer,
         UNCHANGED <<urls, pending, answer>>
  PROVE  /\ offered' \in [Position -> SUBSET Provider]
         /\ \A p \in Position : /\ offered[p] \subseteq offered'[p]
                                /\ offered'[p] \subseteq UpTo(next)
                                /\ p \notin pending => offered'[p] = offered[p]
         /\ \A p \in pending : Turn \in offered'[p]
         /\ ReadOnce'
<1>1. /\ Turn \in Provider /\ Turn \in UpTo(next)
      /\ offered \in [Position -> SUBSET Provider] /\ pending \subseteq Position
  BY MayCallTurn DEF FallbackInv, FallbackTypes
<1>2. /\ offered' \in [Position -> SUBSET Provider]
      /\ \A p \in Position :
           offered'[p] = offered[p] \cup (IF p \in pending THEN {Turn} ELSE {})
  BY <1>1 DEF Offer
<1>3. \A p \in Position : answer[p] # None => p \notin pending
  BY DEF FallbackInv, Accounts
<1>4. ReadOnce'
  BY <1>2, <1>3 DEF ReadOnce, Position, FallbackInv
<1> QED BY <1>1, <1>2, <1>4 DEF FallbackInv, Offers

LEMMA FailStep == ASSUME FallbackInv, Fail PROVE FallbackInv'
<1>1. /\ next <= Len(Providers) /\ Offer /\ EndTurn("failed") /\ reply = None
      /\ "failed" \in Receipts
      /\ UNCHANGED <<urls, pending, answer, failed, reply, gone>>
  BY DEF Fail, MayCall, OnTurn, Receipts, Paid
<1>2. /\ next' \in Nat \ {0} /\ receipt' \in [Provider -> Receipts \cup {None}]
      /\ Called' \subseteq Called \cup {Turn} /\ UpTo(next) \subseteq UpTo(next')
  BY <1>1, TurnEnds DEF FallbackInv
<1>3. /\ offered' \in [Position -> SUBSET Provider]
      /\ \A p \in Position : offered[p] \subseteq offered'[p] /\ offered'[p] \subseteq UpTo(next)
      /\ \A p \in pending : Turn \in offered'[p]
      /\ ReadOnce'
  BY <1>1, Offering
<1>4. FallbackTypes' /\ Accounts'
  BY <1>1, <1>2, <1>3 DEF FallbackTypes, Accounts, Position, FallbackInv
<1>5. Offers'
  <2>1. \A p \in pending : p \in Position /\ Called \subseteq offered[p]
    BY DEF FallbackInv, FallbackTypes, Offers
  <2> QED BY <1>1, <1>2, <1>3, <2>1 DEF Offers, Position
<1> QED BY <1>3, <1>4, <1>5 DEF FallbackInv

LEMMA AnswerStep == ASSUME FallbackInv, Answer PROVE FallbackInv'
<1>1. /\ next <= Len(Providers) /\ Offer
      /\ UNCHANGED <<urls, next, pending, answer, failed, receipt>>
  BY DEF Answer, MayCall, OnTurn
<1>2. PICK items \in Replies, stopped \in BOOLEAN :
        /\ reply' = [urls |-> Asked, items |-> items,
                     match |-> Matching[Asked][items], stopped |-> stopped]
        /\ gone' = gone \cup {p \in pending : /\ Matching[Asked][items][p] # 0
                                              /\ items[Matching[Asked][items][p]].says \in Final}
  BY DEF Answer
<1>3. /\ offered' \in [Position -> SUBSET Provider]
      /\ \A p \in Position : offered[p] \subseteq offered'[p] /\ offered'[p] \subseteq UpTo(next)
      /\ \A p \in pending : Turn \in offered'[p]
      /\ ReadOnce'
  BY <1>1, Offering
<1>4. FallbackTypes'
  BY <1>1, <1>2, <1>3 DEF FallbackTypes, Position, FallbackInv
<1>5. Accounts'
  <2>1. gone \subseteq gone'
    BY <1>2
  <2>2. \A p \in pending :
          reply'.match[p] # 0 /\ reply'.items[reply'.match[p]].says \in Final => p \in gone'
    BY <1>2
  <2> QED BY <1>1, <2>1, <2>2 DEF Accounts, Position, FallbackInv
<1>6. Offers'
  <2>1. \A p \in pending : p \in Position /\ Called \subseteq offered[p]
    BY DEF FallbackInv, FallbackTypes, Offers
  <2> QED BY <1>1, <1>3, <2>1 DEF Offers, Position, Called, Turn
<1> QED BY <1>3, <1>4, <1>5, <1>6 DEF FallbackInv

\* A turn that ends with a reply: the open positions have all been offered.
LEMMA ReplyEnds ==
  ASSUME FallbackInv, reply # None, reply' = None, NEW r \in Paid, EndTurn(r),
         UNCHANGED <<urls, gone, offered>>, pending' \subseteq pending,
         DOMAIN answer' = Position, DOMAIN failed' = Position
  PROVE  FallbackTypes' /\ Offers' /\ Turn # None /\ Turn \in UpTo(next)
<1>1. next <= Len(Providers) /\ r \in Receipts
  BY DEF FallbackInv, FallbackTypes, Receipts
<1>2. /\ next' \in Nat \ {0} /\ receipt' \in [Provider -> Receipts \cup {None}]
      /\ Called' \subseteq Called \cup {Turn} /\ UpTo(next) \subseteq UpTo(next')
      /\ Turn # None /\ Turn \in UpTo(next)
  BY <1>1, TurnEnds DEF FallbackInv
<1>3. FallbackTypes'
  BY <1>2 DEF FallbackTypes, Position, FallbackInv
<1>4. Offers'
  BY <1>2 DEF Offers, Position, FallbackInv
<1> QED BY <1>2, <1>3, <1>4

LEMMA DiscardStep == ASSUME FallbackInv, Discard PROVE FallbackInv'
<1>1. /\ reply # None /\ reply' = None /\ EndTurn("failed")
      /\ UNCHANGED <<urls, pending, answer, failed, gone, offered>> /\ "failed" \in Paid
  BY DEF Discard, Paid
<1>2. FallbackTypes' /\ Offers'
  BY <1>1, ReplyEnds DEF FallbackInv, FallbackTypes
<1>3. Accounts' /\ ReadOnce'
  BY <1>1 DEF Accounts, ReadOnce, Position, FallbackInv
<1> QED BY <1>2, <1>3 DEF FallbackInv

LEMMA AllFailedStep == ASSUME FallbackInv, AllFailed PROVE FallbackInv'
<1>1. /\ reply # None /\ reply' = None /\ EndTurn("failed") /\ "failed" \in Paid
      /\ UNCHANGED <<urls, answer, gone, offered>>
      /\ failed' = [p \in Position |->
                      IF p \in pending /\ ItemAt(p) # None
                      THEN Better(failed[p], ItemAt(p).says) ELSE failed[p]]
      /\ pending' = {p \in pending : failed'[p] \notin Final}
  BY DEF AllFailed, Paid, StillOpen
<1>2. FallbackTypes' /\ Offers'
  BY <1>1, ReplyEnds DEF FallbackInv, FallbackTypes
<1>3. ASSUME NEW p \in Position, failed'[p] \in Final PROVE p \in gone
  <2>1. CASE failed[p] \in Final
    BY <2>1 DEF FallbackInv, Accounts
  <2>2. CASE p \in pending /\ ItemAt(p) # None /\ ItemAt(p).says \in Final
    BY <1>1, <2>2 DEF ItemAt, FallbackInv, Accounts
  <2> QED BY <1>1, <1>3, <2>1, <2>2, FinalReasons
<1>4. ASSUME NEW p \in Position, answer[p] = None, failed'[p] \notin Final PROVE p \in pending'
  <2>1. p \in pending => p \in pending'
    BY <1>1, <1>4
  <2>2. p \notin pending => failed'[p] = failed[p]
    BY <1>1
  <2> QED BY <1>4, <2>1, <2>2 DEF FallbackInv, Accounts
<1>5. Accounts'
  BY <1>1, <1>3, <1>4 DEF Accounts, Position, FallbackInv
<1>6. ReadOnce'
  BY <1>1 DEF ReadOnce, Position, FallbackInv
<1> QED BY <1>2, <1>5, <1>6 DEF FallbackInv

LEMMA ServeStep == ASSUME FallbackInv, Serve PROVE FallbackInv'
<1> DEFINE r == IF reply.stopped THEN "stopped" ELSE "served"
<1>1. /\ reply # None /\ reply' = None /\ EndTurn(r) /\ r \in Paid
      /\ UNCHANGED <<urls, gone, offered>>
      /\ answer' = [p \in Position |-> IF p \in Served THEN Turn ELSE answer[p]]
      /\ failed' = [p \in Position |->
                      IF p \in Unserved
                      THEN Better(failed[p], IF ItemAt(p) = None THEN "unknown" ELSE ItemAt(p).says)
                      ELSE failed[p]]
      /\ pending' = {p \in Unserved : failed'[p] \notin Final}
      /\ Served \subseteq pending /\ Unserved = pending \ Served
  BY DEF Serve, Paid, StillOpen, Served, Unserved
<1>2. FallbackTypes' /\ Offers' /\ Turn # None /\ Turn \in UpTo(next)
  BY <1>1, ReplyEnds DEF FallbackInv, FallbackTypes
<1>3. ASSUME NEW p \in Position, failed'[p] \in Final PROVE p \in gone
  <2>1. CASE failed[p] \in Final
    BY <2>1 DEF FallbackInv, Accounts
  <2>2. CASE p \in pending /\ ItemAt(p) # None /\ ItemAt(p).says \in Final
    BY <1>1, <2>2 DEF ItemAt, FallbackInv, Accounts
  <2>3. "unknown" \notin Final
    BY DEF Final
  <2> QED BY <1>1, <1>3, <2>1, <2>2, <2>3, FinalReasons
<1>4. ASSUME NEW p \in Position, answer'[p] = None, failed'[p] \notin Final PROVE p \in pending'
  <2>1. p \notin Served /\ answer[p] = None
    BY <1>1, <1>2, <1>4
  <2>2. p \in pending => p \in pending'
    BY <1>1, <1>4, <2>1
  <2>3. p \notin pending => failed'[p] = failed[p]
    BY <1>1
  <2> QED BY <1>4, <2>1, <2>2, <2>3 DEF FallbackInv, Accounts
<1>5. \A p \in pending' : answer'[p] = None
  BY <1>1 DEF FallbackInv, FallbackTypes, Accounts
<1>6. Accounts'
  BY <1>1, <1>3, <1>4, <1>5 DEF Accounts, Position
<1>7. ReadOnce'
  <2> SUFFICES ASSUME NEW p \in Position, answer'[p] # None, NEW q \in offered[p]
               PROVE  \E i, j \in DOMAIN Providers :
                        Providers[i] = q /\ Providers[j] = answer'[p] /\ i <= j
    BY <1>1 DEF ReadOnce, Position
  <2>1. CASE p \in Served
    <3>1. answer'[p] = Turn /\ next \in DOMAIN Providers
      BY <1>1, <2>1, FallbackAssumption, LenProperties DEF FallbackInv, FallbackTypes
    <3>2. q \in UpTo(next)
      BY DEF FallbackInv, Offers
    <3> QED BY <3>1, <3>2 DEF UpTo, Turn
  <2>2. CASE p \notin Served
    BY <1>1, <2>2 DEF FallbackInv, ReadOnce
  <2> QED BY <2>1, <2>2
<1> QED BY <1>2, <1>6, <1>7 DEF FallbackInv

LEMMA FallbackStep == FallbackInv /\ [Next]_vars => FallbackInv'
<1> SUFFICES ASSUME FallbackInv, [Next]_vars PROVE FallbackInv'
  OBVIOUS
<1>1. CASE Expire \/ UNCHANGED vars
  <2>1. UNCHANGED <<urls, next, pending, answer, failed, reply, receipt, gone, offered>>
    BY <1>1 DEF Expire, vars
  <2> QED BY <2>1 DEF FallbackInv, FallbackTypes, Accounts, Offers, ReadOnce, Position, Called, Turn
<1> QED
  BY <1>1, SkipStep, FailStep, AnswerStep, DiscardStep, AllFailedStep, ServeStep DEF Next

LEMMA FallbackInit == Init => FallbackInv
<1> SUFFICES ASSUME Init PROVE FallbackInv
  OBVIOUS
<1> USE DEF Init, Position
<1>0. None \notin Final /\ None \notin Paid
  BY FallbackAssumption DEF Final, Rank, Receipts
<1>1. FallbackTypes
  BY DEF FallbackTypes
<1>2. Accounts
  BY <1>0 DEF Accounts
<1>3. Called = {}
  BY <1>0 DEF Called
<1> QED BY <1>1, <1>2, <1>3 DEF FallbackInv, Offers, ReadOnce

LEMMA FallbackAlways == Spec => []FallbackInv
BY FallbackInit, FallbackStep, PTL DEF Spec

-----------------------------------------------------------------------------
\* A position of the request that got its page is asked of no provider after the
\* one that served it, in whatever batches the rest travels.  (A URL the request
\* repeats has several positions.)
THEOREM PagesReadOnce == Spec => []ReadOnce
BY FallbackAlways, PTL DEF FallbackInv

\* No URL is dropped: one that ends without a page was sent to every provider
\* that was called, unless a provider said for this very position that there is
\* no page, and such a verdict is never made up.
THEOREM NoUrlDropped == Spec => []NoneDropped
<1>1. FallbackInv => NoneDropped
  BY DEF FallbackInv, Accounts, Offers, NoneDropped
<1> QED BY <1>1, FallbackAlways, PTL

-----------------------------------------------------------------------------
(***************************************************************************)
(* match_extract_items.  The matchings in which a position with a sibling  *)
(* has an item that names its very spelling, or a canonical form that is   *)
(* its own, or none, are closed under every step of it.                    *)
(***************************************************************************)
Earned(us, items, i, p) == Exactly(us, items, i, p) \/ Canonically(us, items, i, p)

Fitting(us, items) ==
  {m \in [DOMAIN us -> {0} \cup DOMAIN items] :
     \A p \in DOMAIN us : m[p] # 0 /\ Sibling(us, Rewrite, p) => Earned(us, items, m[p], p)}

\* A batch, and what a provider replies.
Batch(us, items) ==
  /\ IsFiniteSet(DOMAIN us) /\ DOMAIN us \subseteq Nat /\ \A p \in DOMAIN us : us[p] \in Url
  /\ items \in Seq(Item)

LEMMA LeastIn == ASSUME NEW T, T \subseteq Nat, T # {} PROVE Min(T) \in T
<1>1. \E i \in T : \A j \in T : i <= j
  BY LeastOf
<1>. QED  BY <1>1 DEF Min

LEMMA ItemsTyped ==
  ASSUME NEW items \in Seq(Item)
  PROVE  /\ DOMAIN items \subseteq Nat \ {0} /\ 0 \notin DOMAIN items
         /\ \A i \in DOMAIN items : items[i].url \in Url /\ items[i].sources \subseteq Url
<1>1. DOMAIN items = 1..Len(items) /\ Len(items) \in Nat /\ \A i \in DOMAIN items : items[i] \in Item
  OBVIOUS
<1>. QED  BY <1>1 DEF Item

\* A position with a sibling has several spellings under its key.
LEMMA SiblingsAlike ==
  ASSUME NEW us, NEW items, Batch(us, items), NEW p \in DOMAIN us, NEW by, Sibling(us, by, p)
  PROVE  Cardinality(Alike(us, by, p)) > 1
<1>1. PICK q \in DOMAIN us : by[us[q]] = by[us[p]] /\ us[q] # us[p]
  BY DEF Sibling
<1>2. Cardinality(Alike(us, by, p)) > 1
  <2> DEFINE near == {x \in DOMAIN us : by[us[x]] = by[us[p]]}
             all == Alike(us, by, p)
  <2>1. all = {us[x] : x \in near}
    BY DEF Alike
  <2>2. IsFiniteSet(near)
    <3>1. near \subseteq DOMAIN us
      OBVIOUS
    <3>. QED  BY <3>1, FS_Subset DEF Batch
  <2>3. us[p] \in all /\ us[q] \in all
    BY <1>1, <2>1
  <2> HIDE DEF near
  <2>4. IsFiniteSet(all)
    <3>1. IsFiniteSet({us[x] : x \in near})
      BY <2>2, ImageFinite
    <3>. QED  BY <2>1, <3>1
  <2> HIDE DEF all
  <2>5. {us[p], us[q]} \subseteq all /\ Cardinality({us[p], us[q]}) = 2
    <3>1. IsFiniteSet({us[p]}) /\ Cardinality({us[p]}) = 1 /\ us[q] \notin {us[p]}
      BY <1>1, FS_Singleton
    <3>2. Cardinality({us[p]} \cup {us[q]}) = 2
      BY <3>1, FS_AddElement
    <3>3. {us[p]} \cup {us[q]} = {us[p], us[q]}
      OBVIOUS
    <3>. QED  BY <2>3, <3>2, <3>3
  <2>6. Cardinality({us[p], us[q]}) <= Cardinality(all) /\ Cardinality(all) \in Nat
    BY <2>4, <2>5, FS_Subset, FS_CardinalityType
  <2>. QED  BY <2>5, <2>6 DEF all
<1>. QED  BY <1>2

LEMMA PassesAre ==
  \A k \in DOMAIN Passes :
    LET pass == Passes[k] IN
    /\ pass.source \in BOOLEAN
    /\ pass.by = Exact \/ (pass.strict /\ pass.by \in {Canon, Rewrite})
<1>1. DOMAIN Passes = 1..6
  BY DEF Passes
<1>2. \A k \in 1..6 : k = 1 \/ k = 2 \/ k = 3 \/ k = 4 \/ k = 5 \/ k = 6
  OBVIOUS
<1>3. /\ Passes[1].by = Exact /\ Passes[1].source = FALSE
      /\ Passes[3].by = Exact /\ Passes[3].source = TRUE
  BY DEF Passes
<1>4. /\ Passes[2].by = Canon /\ Passes[2].source = FALSE /\ Passes[2].strict = TRUE
      /\ Passes[4].by = Canon /\ Passes[4].source = TRUE /\ Passes[4].strict = TRUE
  BY DEF Passes
<1>5. /\ Passes[5].by = Rewrite /\ Passes[5].source = FALSE /\ Passes[5].strict = TRUE
      /\ Passes[6].by = Rewrite /\ Passes[6].source = TRUE /\ Passes[6].strict = TRUE
  BY DEF Passes
<1>6. ASSUME NEW k \in DOMAIN Passes
      PROVE  /\ Passes[k].source \in BOOLEAN
             /\ Passes[k].by = Exact \/ (Passes[k].strict /\ Passes[k].by \in {Canon, Rewrite})
  <2>1. k = 1 \/ k = 2 \/ k = 3 \/ k = 4 \/ k = 5 \/ k = 6
    BY <1>1, <1>2
  <2>. QED  BY <1>3, <1>4, <1>5, <2>1
<1>. QED  BY <1>6

LEMMA TakeKeeps ==
  ASSUME NEW us, NEW items, Batch(us, items), NEW k \in DOMAIN Passes,
         NEW m \in Fitting(us, items), NEW p \in DOMAIN us
  PROVE  Take(us, items, Passes[k], m, p) \in Fitting(us, items)
<1> DEFINE pass == Passes[k]
           wanted == pass.by[us[p]]
           hits == {i \in Unused(items, m) : wanted \in Named(items, i, pass)}
           new == [m EXCEPT ![p] = Min(hits)]
<1>1. Take(us, items, pass, m, p) =
        IF \/ m[p] # 0 \/ wanted = None \/ hits = {}
           \/ pass.strict /\ Cardinality(Alike(us, pass.by, p)) > 1
        THEN m ELSE new
  BY DEF Take
<1>2. CASE \/ m[p] # 0 \/ wanted = None \/ hits = {}
           \/ pass.strict /\ Cardinality(Alike(us, pass.by, p)) > 1
  BY <1>1, <1>2
<1>3. CASE ~(\/ m[p] # 0 \/ wanted = None \/ hits = {}
             \/ pass.strict /\ Cardinality(Alike(us, pass.by, p)) > 1)
  <2>1. Min(hits) \in hits
    <3>1. hits \subseteq Nat
      BY ItemsTyped DEF Batch, Unused
    <3>2. hits # {}
      BY <1>3
    <3> HIDE DEF hits
    <3>. QED  BY <3>1, <3>2, LeastIn
  <2> DEFINE i == Min(hits)
  <2>2. i \in DOMAIN items /\ wanted \in Named(items, i, pass)
    BY <2>1 DEF Unused
  <2> HIDE DEF i, hits
  <2>3. new = [m EXCEPT ![p] = i]
    BY DEF i
  <2>4. Sibling(us, Rewrite, p) => Earned(us, items, i, p)
    <3>1. SUFFICES ASSUME Sibling(us, Rewrite, p) PROVE Earned(us, items, i, p)
      OBVIOUS
    <3>2. Cardinality(Alike(us, Rewrite, p)) > 1
      BY <3>1, SiblingsAlike
    <3>3. pass.source \in BOOLEAN /\ (pass.by = Exact \/ (pass.by = Canon /\ pass.strict))
      BY <1>3, <3>2, PassesAre
    <3>4. us[p] \in Url /\ items[i].url \in Url /\ items[i].sources \subseteq Url
      BY <2>2, ItemsTyped DEF Batch
    <3>5. CASE pass.by = Exact
      <4>1. wanted = us[p]
        BY <3>4, <3>5 DEF Exact
      <4>2. Named(items, i, pass) = IF pass.source THEN items[i].sources ELSE {items[i].url}
        <5>1. /\ {pass.by[u] : u \in items[i].sources} = items[i].sources
              /\ pass.by[items[i].url] = items[i].url
          BY <3>4, <3>5 DEF Exact
        <5> HIDE DEF pass
        <5>. QED  BY <5>1 DEF Named
      <4>. QED  BY <2>2, <4>1, <4>2 DEF Earned, Exactly
    <3>6. CASE pass.by = Canon /\ pass.strict
      <4>1. wanted = Canon[us[p]] /\ wanted # None
        BY <1>3, <3>6
      <4>2. Named(items, i, pass) \subseteq {Canon[u] : u \in {items[i].url} \cup items[i].sources}
        <5> HIDE DEF pass
        <5>. QED  BY <3>6 DEF Named
      <4>3. ~Sibling(us, Canon, p)
        <5>1. ~(Cardinality(Alike(us, Canon, p)) > 1)
          BY <1>3, <3>6
        <5>. QED  BY <5>1, SiblingsAlike
      <4> HIDE DEF wanted
      <4>. QED  BY <2>2, <4>1, <4>2, <4>3 DEF Earned, Canonically
    <3>. QED  BY <3>3, <3>5, <3>6
  <2>5. m \in [DOMAIN us -> {0} \cup DOMAIN items]
        /\ \A q \in DOMAIN us : m[q] # 0 /\ Sibling(us, Rewrite, q) => Earned(us, items, m[q], q)
    BY DEF Fitting
  <2> HIDE DEF new
  <2>6. new \in [DOMAIN us -> {0} \cup DOMAIN items]
    BY <2>2, <2>3, <2>5
  <2>7. \A q \in DOMAIN us : new[q] # 0 /\ Sibling(us, Rewrite, q) => Earned(us, items, new[q], q)
    BY <2>3, <2>4, <2>5
  <2>8. new \in Fitting(us, items)
    BY <2>6, <2>7 DEF Fitting
  <2>. QED  BY <1>1, <1>3, <2>8 DEF hits, new
<1>. QED  BY <1>2, <1>3

LEMMA LatestIn ==
  ASSUME NEW us, NEW items, Batch(us, items), NEW by, NEW ps \in SUBSET DOMAIN us, ps # {}
  PROVE  Latest(us, by, ps) \in ps
<1> DEFINE f == [p \in DOMAIN us |-> First(us, by, p)]
           firsts == {f[q] : q \in ps}
           last == {p \in ps : f[p] = Max(firsts)}
<1>1. ASSUME NEW p \in DOMAIN us PROVE f[p] \in Nat
  <2> DEFINE near == {q \in DOMAIN us : by[us[q]] = by[us[p]]}
  <2>1. near \subseteq Nat /\ near # {}
    BY DEF Batch
  <2>2. Min(near) \in near
    <3> HIDE DEF near
    <3>. QED  BY <2>1, LeastIn
  <2>. QED  BY <2>1, <2>2 DEF First
<1>2. Latest(us, by, ps) = Max(last)
  <2>1. {First(us, by, q) : q \in ps} = firsts
    OBVIOUS
  <2>2. {p \in ps : First(us, by, p) = Max(firsts)} = last
    OBVIOUS
  <2>. QED  BY <2>1, <2>2 DEF Latest
<1> HIDE DEF f
<1>3. IsFiniteSet(ps) /\ ps \subseteq Nat
  BY FS_Subset DEF Batch
<1>4. IsFiniteSet(firsts) /\ firsts \subseteq Nat /\ firsts # {}
  <2>1. IsFiniteSet({f[q] : q \in ps})
    BY <1>3, ImageFinite
  <2>. QED  BY <1>1, <2>1
<1> HIDE DEF firsts
<1>5. Max(firsts) \in firsts
  BY <1>4, LargestOf
<1>6. last \subseteq ps /\ last # {}
  BY <1>5 DEF firsts
<1>7. IsFiniteSet(last) /\ last \subseteq Nat
  BY <1>3, <1>6, FS_Subset
<1> HIDE DEF last
<1>8. Max(last) \in last
  BY <1>6, <1>7, LargestOf
<1>. QED  BY <1>2, <1>6, <1>8

IsRun(it, us, items, m, pass) ==
  it = [s \in SUBSET DOMAIN us |->
          IF s = {} THEN m
          ELSE Take(us, items, pass, it[s \ {Latest(us, pass.by, s)}], Latest(us, pass.by, s))]

LEMMA RunIs ==
  ASSUME NEW us, NEW items, NEW m, NEW pass
  PROVE  RunPass(us, items, m, pass) = (CHOOSE it : IsRun(it, us, items, m, pass))[DOMAIN us]
BY DEF RunPass, MapThenFoldSet, IsRun

LEMMA RunExists ==
  ASSUME NEW us, NEW items, Batch(us, items), NEW k \in DOMAIN Passes, NEW m \in Fitting(us, items)
  PROVE  \E it : IsRun(it, us, items, m, Passes[k])
<1> DEFINE D == DOMAIN us
           A == Fitting(us, items)
           pass == Passes[k]
           step == [x \in D \X A |-> Take(us, items, pass, x[2], x[1])]
           pick == [s \in SUBSET D |-> Latest(us, pass.by, s)]
<1>1. IsFiniteSet(D)
  BY DEF Batch
<1>2. step \in [D \X A -> A]
  <2>1. \A x \in D \X A : Take(us, items, pass, x[2], x[1]) \in A
    <3>1. ASSUME NEW x \in D \X A PROVE Take(us, items, pass, x[2], x[1]) \in A
      <4>1. x[2] \in Fitting(us, items) /\ x[1] \in DOMAIN us
        OBVIOUS
      <4>. QED  BY <4>1, TakeKeeps
    <3>. QED  BY <3>1
  <2> HIDE DEF D, A, pass
  <2>. QED  BY <2>1
<1>3. \A s \in SUBSET D : s # {} => pick[s] \in s
  <2>1. ASSUME NEW s \in SUBSET D, s # {} PROVE Latest(us, pass.by, s) \in s
    <3>1. \A by : Latest(us, by, s) \in s
      BY <2>1, LatestIn
    <3>. QED  BY <3>1
  <2>. QED  BY <2>1
<1>4. PICK it \in [SUBSET D -> A] : Folds(it, m, step, pick, D)
  <2> HIDE DEF step, pick, D, pass
  <2>1. m \in A
    OBVIOUS
  <2> HIDE DEF A
  <2>. QED  BY <1>1, <1>2, <1>3, <2>1, FoldExists
<1>5. ASSUME NEW s \in SUBSET D, s # {}
      PROVE  step[<<pick[s], it[s \ {pick[s]}]>>]
               = Take(us, items, pass, it[s \ {Latest(us, pass.by, s)}], Latest(us, pass.by, s))
  <2>1. pick[s] = Latest(us, pass.by, s) /\ pick[s] \in D /\ it[s \ {pick[s]}] \in A
    BY <1>3, <1>5
  <2> HIDE DEF A, pass
  <2>. QED  BY <2>1
<1>6. it = [s \in SUBSET D |->
              IF s = {} THEN m
              ELSE Take(us, items, pass, it[s \ {Latest(us, pass.by, s)}], Latest(us, pass.by, s))]
  <2> HIDE DEF step, pick, A, pass
  <2>. QED  BY <1>4, <1>5 DEF Folds
<1>. QED  BY <1>6 DEF IsRun

LEMMA RunPassKeeps ==
  ASSUME NEW us, NEW items, Batch(us, items), NEW k \in DOMAIN Passes, NEW m \in Fitting(us, items)
  PROVE  RunPass(us, items, m, Passes[k]) \in Fitting(us, items)
<1> DEFINE D == DOMAIN us
           A == Fitting(us, items)
           pass == Passes[k]
           it == CHOOSE h : IsRun(h, us, items, m, pass)
           Good == {s \in SUBSET D : it[s] \in A}
<1>1. IsRun(it, us, items, m, pass) /\ RunPass(us, items, m, pass) = it[D]
  <2>1. \E h : IsRun(h, us, items, m, pass)
    BY RunExists
  <2>2. RunPass(us, items, m, pass) = it[D]
    BY RunIs
  <2>. QED  BY <2>1, <2>2
<1> HIDE DEF it
<1>2. {} \in Good
  BY <1>1 DEF IsRun
<1>3. ASSUME NEW s \in SUBSET D, s # {}, \A x \in s : s \ {x} \in Good PROVE s \in Good
  <2> DEFINE p == Latest(us, pass.by, s)
  <2>1. p \in s
    <3>1. \A by : Latest(us, by, s) \in s
      BY <1>3, LatestIn
    <3>. QED  BY <3>1
  <2>2. it[s] = Take(us, items, pass, it[s \ {p}], p)
    BY <1>1, <1>3 DEF IsRun
  <2>3. it[s \ {p}] \in A /\ p \in D
    BY <1>3, <2>1
  <2> HIDE DEF p
  <2>4. \A n \in A : \A q \in D : Take(us, items, pass, n, q) \in A
    BY TakeKeeps
  <2>. QED  BY <2>2, <2>3, <2>4
<1>4. SUBSET D \subseteq Good
  <2>1. IsFiniteSet(D)
    BY DEF Batch
  <2> HIDE DEF Good, D, A
  <2>. QED  BY <1>2, <1>3, <2>1, OverSubsets
<1>. QED  BY <1>1, <1>4

IsPassed(it, us, items, none) ==
  it = [s \in SUBSET DOMAIN Passes |->
          IF s = {} THEN none ELSE RunPass(us, items, it[s \ {Max(s)}], Passes[Max(s)])]

Passed(us, items, none) == FoldLeft(LAMBDA m, pass : RunPass(us, items, m, pass), none, Passes)

LEMMA PassedIs ==
  ASSUME NEW us, NEW items, NEW none
  PROVE  Passed(us, items, none) = (CHOOSE it : IsPassed(it, us, items, none))[DOMAIN Passes]
BY DEF Passed, FoldLeft, MapThenFoldSet, IsPassed

LEMMA LastPass ==
  /\ IsFiniteSet(DOMAIN Passes)
  /\ \A s \in SUBSET DOMAIN Passes : s # {} => Max(s) \in s
<1>1. DOMAIN Passes = 1..6
  BY DEF Passes
<1>2. IsFiniteSet(1..6)
  <2>1. \A n \in Nat : IsFiniteSet(1..n)
    BY FS_Interval
  <2>2. 6 \in Nat
    OBVIOUS
  <2>. QED  BY <2>1, <2>2
<1>3. ASSUME NEW s \in SUBSET DOMAIN Passes, s # {} PROVE Max(s) \in s
  <2>1. IsFiniteSet(s) /\ s \subseteq Nat
    BY <1>1, <1>2, FS_Subset
  <2>. QED  BY <1>3, <2>1, LargestOf
<1>. QED  BY <1>1, <1>2, <1>3

LEMMA PassedExists ==
  ASSUME NEW us, NEW items, Batch(us, items), NEW none \in Fitting(us, items)
  PROVE  \E it : IsPassed(it, us, items, none)
<1> DEFINE D == DOMAIN Passes
           A == Fitting(us, items)
           step == [x \in D \X A |-> RunPass(us, items, x[2], Passes[x[1]])]
           pick == [s \in SUBSET D |-> Max(s)]
<1>2. step \in [D \X A -> A]
  <2>1. \A x \in D \X A : RunPass(us, items, x[2], Passes[x[1]]) \in A
    <3>1. ASSUME NEW x \in D \X A PROVE RunPass(us, items, x[2], Passes[x[1]]) \in A
      <4>1. x[2] \in Fitting(us, items) /\ x[1] \in DOMAIN Passes
        OBVIOUS
      <4>. QED  BY <4>1, RunPassKeeps
    <3>. QED  BY <3>1
  <2> HIDE DEF D, A
  <2>. QED  BY <2>1
<1>3. IsFiniteSet(D) /\ \A s \in SUBSET D : s # {} => pick[s] \in s
  BY LastPass
<1>4. PICK it \in [SUBSET D -> A] : Folds(it, none, step, pick, D)
  <2> HIDE DEF step, pick, D
  <2>1. none \in A
    OBVIOUS
  <2> HIDE DEF A
  <2>. QED  BY <1>2, <1>3, <2>1, FoldExists
<1>5. ASSUME NEW s \in SUBSET D, s # {}
      PROVE  step[<<pick[s], it[s \ {pick[s]}]>>] = RunPass(us, items, it[s \ {Max(s)}], Passes[Max(s)])
  <2>1. pick[s] = Max(s) /\ pick[s] \in D /\ it[s \ {pick[s]}] \in A
    BY <1>3, <1>5
  <2> HIDE DEF A
  <2>. QED  BY <2>1
<1>6. it = [s \in SUBSET D |->
              IF s = {} THEN none ELSE RunPass(us, items, it[s \ {Max(s)}], Passes[Max(s)])]
  <2> HIDE DEF step, pick, A
  <2>. QED  BY <1>4, <1>5 DEF Folds
<1>. QED  BY <1>6 DEF IsPassed

LEMMA PassedKeeps ==
  ASSUME NEW us, NEW items, Batch(us, items), NEW none \in Fitting(us, items)
  PROVE  Passed(us, items, none) \in Fitting(us, items)
<1> DEFINE D == DOMAIN Passes
           A == Fitting(us, items)
           it == CHOOSE h : IsPassed(h, us, items, none)
           Good == {s \in SUBSET D : it[s] \in A}
<1>1. IsPassed(it, us, items, none) /\ Passed(us, items, none) = it[D]
  BY PassedExists, PassedIs
<1> HIDE DEF it
<1>2. {} \in Good
  BY <1>1 DEF IsPassed
<1>3. ASSUME NEW s \in SUBSET D, s # {}, \A x \in s : s \ {x} \in Good PROVE s \in Good
  <2> DEFINE k == Max(s)
  <2>1. k \in s
    BY <1>3, LastPass
  <2>2. it[s] = RunPass(us, items, it[s \ {k}], Passes[k])
    BY <1>1, <1>3 DEF IsPassed
  <2>3. it[s \ {k}] \in A /\ k \in D
    BY <1>3, <2>1
  <2> HIDE DEF k
  <2>4. \A n \in A : RunPass(us, items, n, Passes[k]) \in A
    BY <2>3, RunPassKeeps
  <2>. QED  BY <2>2, <2>3, <2>4
<1>4. SUBSET D \subseteq Good
  <2>1. IsFiniteSet(D)
    BY LastPass
  <2> HIDE DEF Good, D, A
  <2>. QED  BY <1>2, <1>3, <2>1, OverSubsets
<1>. QED  BY <1>1, <1>4

LEMMA LoneKeeps ==
  ASSUME NEW us, NEW items, Batch(us, items), NEW m \in Fitting(us, items)
  PROVE  Lone(us, items, m) \in Fitting(us, items)
<1> DEFINE open == Open(m)
           left == Unused(items, m)
           lone == /\ Cardinality(open) = 1 /\ Cardinality(left) = 1
                   /\ \A p \in open : Rewrite[us[p]] # None /\ Cardinality(Alike(us, Rewrite, p)) = 1
           new == [p \in DOMAIN m |-> IF p \in open THEN Min(left) ELSE m[p]]
<1>1. Lone(us, items, m) = IF lone THEN new ELSE m
  BY DEF Lone
<1>2. CASE ~lone
  BY <1>1, <1>2
<1>3. CASE lone
  <2>1. /\ m \in [DOMAIN us -> {0} \cup DOMAIN items] /\ DOMAIN m = DOMAIN us
        /\ \A p \in DOMAIN us : m[p] # 0 /\ Sibling(us, Rewrite, p) => Earned(us, items, m[p], p)
    BY DEF Fitting
  <2>2. \A p \in open : p \in DOMAIN us /\ ~Sibling(us, Rewrite, p)
    <3>1. ASSUME NEW p \in open, Sibling(us, Rewrite, p) PROVE FALSE
      <4>1. Cardinality(Alike(us, Rewrite, p)) > 1
        BY <2>1, <3>1, SiblingsAlike DEF Open
      <4>2. Cardinality(Alike(us, Rewrite, p)) = 1
        BY <1>3
      <4>. QED  BY <4>1, <4>2
    <3>. QED  BY <2>1, <3>1 DEF Open
  <2>3. Min(left) \in DOMAIN items
    <3>1. left \subseteq DOMAIN items /\ left \subseteq Nat
      BY ItemsTyped DEF Batch, Unused
    <3>2. left # {}
      BY <1>3, FS_EmptySet
    <3> HIDE DEF left
    <3>. QED  BY <3>1, <3>2, LeastIn
  <2>4. new \in [DOMAIN us -> {0} \cup DOMAIN items]
    <3> HIDE DEF left, open
    <3>. QED  BY <2>1, <2>3
  <2>5. \A p \in DOMAIN us : new[p] # 0 /\ Sibling(us, Rewrite, p) => Earned(us, items, new[p], p)
    <3>1. ASSUME NEW p \in DOMAIN us, new[p] # 0, Sibling(us, Rewrite, p) PROVE Earned(us, items, new[p], p)
      <4>1. p \notin open /\ new[p] = m[p]
        BY <2>1, <2>2, <3>1
      <4> HIDE DEF new
      <4>. QED  BY <2>1, <3>1, <4>1
    <3>. QED  BY <3>1
  <2> HIDE DEF new
  <2>6. new \in Fitting(us, items)
    BY <2>4, <2>5 DEF Fitting
  <2>. QED  BY <1>1, <1>3, <2>6
<1>. QED  BY <1>2, <1>3

LEMMA RepeatsKeeps ==
  ASSUME NEW us, NEW items, Batch(us, items), NEW m \in Fitting(us, items)
  PROVE  Repeats(us, m) \in Fitting(us, items)
<1> DEFINE same(p) == {q \in DOMAIN us : q < p /\ m[q] # 0 /\ us[q] = us[p]}
           new == [p \in DOMAIN us |-> IF m[p] = 0 /\ same(p) # {} THEN m[Min(same(p))] ELSE m[p]]
<1>1. Repeats(us, m) = new
  BY DEF Repeats
<1>2. /\ m \in [DOMAIN us -> {0} \cup DOMAIN items]
      /\ \A p \in DOMAIN us : m[p] # 0 /\ Sibling(us, Rewrite, p) => Earned(us, items, m[p], p)
  BY DEF Fitting
<1>3. ASSUME NEW p \in DOMAIN us
      PROVE  \E q \in DOMAIN us : us[q] = us[p] /\ new[p] = m[q]
  <2>1. CASE m[p] = 0 /\ same(p) # {}
    <3>1. Min(same(p)) \in same(p)
      <4>1. same(p) \subseteq Nat
        BY DEF Batch
      <4> HIDE DEF same
      <4>. QED  BY <2>1, <4>1, LeastIn
    <3>2. new[p] = m[Min(same(p))]
      BY <2>1
    <3>. QED  BY <3>1, <3>2
  <2>2. CASE ~(m[p] = 0 /\ same(p) # {})
    <3>1. new[p] = m[p]
      BY <2>2
    <3>. QED  BY <3>1
  <2>. QED  BY <2>1, <2>2
<1>4. DOMAIN new = DOMAIN us /\ new = [p \in DOMAIN us |-> new[p]]
  OBVIOUS
<1> HIDE DEF new
<1>5. new \in [DOMAIN us -> {0} \cup DOMAIN items]
  <2>1. \A p \in DOMAIN us : new[p] \in {0} \cup DOMAIN items
    BY <1>2, <1>3
  <2>. QED  BY <1>4, <2>1
<1>6. \A p \in DOMAIN us : new[p] # 0 /\ Sibling(us, Rewrite, p) => Earned(us, items, new[p], p)
  <2>1. ASSUME NEW p \in DOMAIN us, new[p] # 0, Sibling(us, Rewrite, p) PROVE Earned(us, items, new[p], p)
    <3>1. PICK q \in DOMAIN us : us[q] = us[p] /\ new[p] = m[q]
      BY <1>3
    <3>2. Sibling(us, Rewrite, q)
      BY <2>1, <3>1 DEF Sibling
    <3>3. Earned(us, items, m[q], q)
      BY <1>2, <2>1, <3>1, <3>2
    <3>. QED  BY <3>1, <3>3 DEF Earned, Exactly, Canonically, Sibling
  <2>. QED  BY <2>1
<1>. QED  BY <1>1, <1>5, <1>6 DEF Fitting

LEMMA MatchFits ==
  ASSUME NEW us, NEW items, Batch(us, items)
  PROVE  Match(us, items) \in Fitting(us, items)
<1> DEFINE none == [p \in DOMAIN us |-> 0]
           passed == Passed(us, items, none)
<1>1. none \in Fitting(us, items)
  BY DEF Fitting
<1>2. Match(us, items) = Repeats(us, Lone(us, items, passed))
  BY DEF Match, Passed
<1>3. passed \in Fitting(us, items)
  BY <1>1, PassedKeeps
<1> HIDE DEF passed
<1>4. Lone(us, items, passed) \in Fitting(us, items)
  BY <1>3, LoneKeeps
<1>. QED  BY <1>2, <1>4, RepeatsKeeps

-----------------------------------------------------------------------------
(***************************************************************************)
(* The reply a provider gave was matched to its batch.                     *)
(***************************************************************************)
RepliesFit ==
  reply # None => Batch(reply.urls, reply.items) /\ reply.match \in Fitting(reply.urls, reply.items)

LEMMA AskedBatch ==
  ASSUME FallbackTypes, NEW items \in Replies
  PROVE  Batch(Asked, items) /\ Asked \in Batches
<1>1. urls \in Seq(Url) /\ urls \in Requests /\ pending \subseteq DOMAIN urls
  BY FallbackAssumption DEF FallbackTypes, Position
<1>2. DOMAIN urls = 1..Len(urls) /\ Len(urls) \in Nat /\ \A p \in DOMAIN urls : urls[p] \in Url
  BY <1>1
<1>3. IsFiniteSet(pending) /\ pending \subseteq Nat
  <2>1. IsFiniteSet(DOMAIN urls)
    BY <1>2, FS_Interval
  <2>. QED  BY <1>1, <1>2, <2>1, FS_Subset
<1>4. DOMAIN Asked = pending /\ \A p \in pending : Asked[p] = urls[p]
  BY DEF Asked
<1>5. items \in Seq(Item)
  BY FallbackAssumption
<1>6. Asked \in {[p \in ps |-> urls[p]] : ps \in SUBSET DOMAIN urls}
  BY <1>1 DEF Asked
<1>7. Asked \in Batches
  <2> HIDE DEF Asked
  <2>. QED  BY <1>1, <1>6 DEF Batches
<1>. QED  BY <1>1, <1>2, <1>3, <1>4, <1>5, <1>7 DEF Batch

LEMMA AnswerFits == ASSUME FallbackTypes, Answer PROVE RepliesFit'
<1>1. PICK items \in Replies, stopped \in BOOLEAN :
        reply' = [urls |-> Asked, items |-> items, match |-> Matching[Asked][items], stopped |-> stopped]
  BY DEF Answer
<1>2. Batch(Asked, items) /\ Asked \in Batches
  BY AskedBatch
<1>3. Matching[Asked][items] = Match(Asked, items)
  <2>1. \A b \in Batches : \A i \in Replies : Matching[b][i] = Match(b, i)
    BY DEF Matching
  <2>. QED  BY <1>2, <2>1
<1> DEFINE new == reply'
<1>4. new.urls = Asked /\ new.items = items /\ new.match = Match(Asked, items)
  BY <1>1, <1>3
<1>5. Match(Asked, items) \in Fitting(Asked, items)
  BY <1>2, MatchFits
<1> HIDE DEF new
<1>6. Batch(new.urls, new.items) /\ new.match \in Fitting(new.urls, new.items)
  BY <1>2, <1>4, <1>5
<1>. QED  BY <1>6 DEF RepliesFit, new

LEMMA RepliesFitStep == FallbackInv /\ RepliesFit /\ [Next]_vars => RepliesFit'
<1> SUFFICES ASSUME FallbackInv, RepliesFit, [Next]_vars PROVE RepliesFit'
  OBVIOUS
<1>1. CASE Answer
  BY <1>1, AnswerFits DEF FallbackInv
<1>2. CASE UNCHANGED reply
  BY <1>2 DEF RepliesFit
<1>3. CASE reply' = None
  BY <1>3 DEF RepliesFit
<1>4. Answer \/ UNCHANGED reply \/ reply' = None
  BY DEF Next, vars, Skip, Fail, Discard, AllFailed, Serve, Expire
<1>. QED  BY <1>1, <1>2, <1>3, <1>4

\* A URL is not handed the item of a sibling: not after any number of passes, not
\* as the lone item left, and not for a repeated URL, in whatever batch the request
\* was cut down to.
THEOREM SiblingsApart == Spec => []SiblingsNotMixed
<1>1. Init => RepliesFit
  BY DEF Init, RepliesFit
<1>2. RepliesFit => SiblingsNotMixed
  <2> SUFFICES ASSUME RepliesFit, reply # None, NEW k \in DOMAIN reply.match, reply.match[k] # 0,
                      Sibling(reply.urls, Rewrite, k)
               PROVE  \/ Exactly(reply.urls, reply.items, reply.match[k], k)
                      \/ Canonically(reply.urls, reply.items, reply.match[k], k)
    BY DEF SiblingsNotMixed
  <2>1. reply.match \in Fitting(reply.urls, reply.items)
    BY DEF RepliesFit
  <2>2. k \in DOMAIN reply.urls
    BY <2>1 DEF Fitting
  <2>. QED  BY <2>1, <2>2 DEF Fitting, Earned
<1>3. Spec => []RepliesFit
  BY <1>1, RepliesFitStep, FallbackAlways, PTL DEF Spec
<1>. QED  BY <1>2, <1>3, PTL
=============================================================================
