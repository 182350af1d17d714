--------------------------- MODULE ProviderRequests ---------------------------
(***************************************************************************)
(* What a search asks of a provider, and what its answer says was asked:   *)
(* the options of run_search_request (search.py), the adapter of each      *)
(* provider (provider_dispatch.py, providers.py, octen.py, tinyfish.py)    *)
(* and the metadata of the answer.                                         *)
(*                                                                         *)
(* A domain filter is the set of sites it covers.  A message is what the   *)
(* request body says of domains, recency, vertical and locale, each in the *)
(* unified form and not in the provider's own spelling.                    *)
(***************************************************************************)
EXTENDS Integers, FiniteSetsExt, Selection

CONSTANTS
  Orders,          \* orders in which providers are tried
  Requests,        \* requests and the configuration they meet
  Site,            \* sites a result may come from
  Covers,          \* token -> the sites it covers, {} for a token that is no domain
  PublicSuffixes,        \* tokens that are public suffixes
  SiteLimit,       \* SITE_OPERATOR_LIMIT
  LinkupLimit,     \* domains Linkup takes
  BraveLanguages,  \* what search_lang may be
  HomeOf,          \* language -> LANGUAGE_HOME_COUNTRY
  None

VARIABLES
  pc,
  q,         \* the request, a member of Requests
  order,     \* providers to try, the current one first
  planned,   \* the provider of the plan
  sent,      \* the last message sent
  results,   \* sites of the results
  told       \* what the answer's metadata says

vars == <<pc, q, order, planned, sent, results, told>>

provider == Head(order)

\* The first of several sources of a setting that has one.
First(sources) ==
  LET given == {i \in DOMAIN sources : sources[i] # None} IN IF given = {} THEN None ELSE sources[Min(given)]

Take(n, seq) == SubSeq(seq, 1, IF n < Len(seq) THEN n ELSE Len(seq))

\* The usable filters of a list, in the order the caller wrote them, and each once.
Raw(list)     == Among([i \in DOMAIN list |-> Covers[list[i]]], (SUBSET Site) \ {{}})
Hosts(tokens) == Distinct(Raw(tokens))

\* domain_filters: what is excluded is not included.
Excluded == Hosts(q.exclude)
Included == Among(Hosts(q.include), Range(Hosts(q.include)) \ Range(Excluded))

\* domain_filters raises rather than search unrestricted.
NothingLeft == q.include # <<>> /\ Included = <<>>

\* public_suffix_entries.
HasSuffix == Range(q.include \o q.exclude) \cap PublicSuffixes # {}
-----------------------------------------------------------------------------
(***************************************************************************)
(* The locale of a request, resolve_locale.                                *)
(***************************************************************************)
TellsCountry  == {"serper", "serpbase", "brave", "querit", "firecrawl", "you"}
TellsLanguage == {"serper", "serpbase", "brave", "querit", "you", "searxng"}

OwnCountry(x)  == IF x \in TellsCountry THEN q.ownCountry ELSE None
OwnLanguage(x) == IF x \in TellsLanguage THEN q.ownLanguage ELSE None

Auto == "auto" \in {q.language, q.defaultLanguage}

\* Command line, the provider's configuration, the default unless a language is
\* to be detected; the language of the query comes before English.
Language(x) ==
  First(<<IF q.language = "auto" THEN None ELSE q.language,
          OwnLanguage(x),
          IF Auto THEN None ELSE q.defaultLanguage,
          q.inferred,
          IF Auto THEN None ELSE "en">>)

\* A language detected for want of any other setting moves the country too.
HomeCountry(x) ==
  IF ~Auto /\ First(<<q.language, OwnLanguage(x), q.defaultLanguage>>) = None /\ q.inferred # None
  THEN HomeOf[q.inferred] ELSE None

Country(x) == First(<<q.country, OwnCountry(x), q.hint, q.defaultCountry, HomeCountry(x), "us">>)
-----------------------------------------------------------------------------
(***************************************************************************)
(* The adapters.                                                           *)
(***************************************************************************)
\* effective_recency, and what the built-in adapters are called with.
Recency == First(<<q.timeRange, q.freshness>>)

Unified == {"day", "week", "month", "year"}

\* octen.py and tinyfish.py look at freshness first.
SdkRecency ==
  First(<<IF q.freshness \in Unified THEN q.freshness ELSE None,
          IF q.timeRange \in Unified THEN q.timeRange ELSE None>>)

Plain ==
  [include |-> <<>>, exclude |-> <<>>, dropped |-> 0, recency |-> None, type |-> "search",
   country |-> None, language |-> None, answers |-> FALSE]

\* _site_operator_parts: a query with a site: of its own keeps it.
Operators ==
  [Plain EXCEPT !.include = IF q.ownSite THEN <<>> ELSE Take(SiteLimit, Included),
                !.exclude = Take(SiteLimit, Excluded),
                !.country = Country(provider), !.language = Language(provider)]

Serper   == [Operators EXCEPT !.recency = Recency, !.type = q.type]
SerpBase == Operators

\* fit_query: exclusions go when the operators leave no room for a word.
Fit(m) ==
  LET kept == Take(q.room - Len(m.include), m.exclude)
  IN [m EXCEPT !.exclude = kept, !.dropped = Len(m.exclude) - Len(kept)]

\* search_lang is left out for a language Brave does not know; an hour becomes a day.
Brave ==
  LET m == Fit(Operators)
  IN [m EXCEPT !.recency = IF Recency = "hour" THEN "day" ELSE Recency,
               !.language = IF @ \in BraveLanguages THEN @ ELSE None]

Tavily ==
  [Plain EXCEPT !.include = Included, !.exclude = Excluded, !.recency = Recency]

Querit ==
  [Plain EXCEPT !.include = Raw(q.include), !.exclude = Raw(q.exclude), !.recency = Recency,
                !.country = Country(provider), !.language = Language(provider)]

Linkup ==
  [Plain EXCEPT !.include = Raw(Take(LinkupLimit, q.include)),
                !.exclude = Raw(Take(LinkupLimit, q.exclude)), !.answers = q.answers]

\* Recency becomes two dates.
Exa ==
  [Plain EXCEPT !.include = Raw(q.include), !.exclude = Raw(q.exclude),
                !.recency = Recency, !.answers = q.answers]

\* site: operators here too, beside one the query has; a country and no language.
Firecrawl ==
  [Plain EXCEPT !.include = Take(SiteLimit, Included), !.exclude = Take(SiteLimit, Excluded),
                !.recency = Recency, !.country = Country(provider)]

Parallel == [Plain EXCEPT !.include = Raw(q.include), !.exclude = Raw(q.exclude)]

You == [Operators EXCEPT !.recency = Recency]

\* No domain filter reaches it.
SearXNG == [Plain EXCEPT !.recency = Recency, !.language = Language(provider)]

\* The first domain as the caller wrote it; exclusions are not passed.
Keenable ==
  [Plain EXCEPT !.recency = Recency,
                !.include = IF q.include = <<>> THEN <<>> ELSE <<Covers[Head(q.include)]>>]

Octen ==
  [Plain EXCEPT !.include = Raw(q.include), !.exclude = Raw(q.exclude), !.recency = SdkRecency]

\* The command line's locale only.
TinyFish ==
  [Octen EXCEPT !.type = q.type, !.country = q.country, !.language = q.language]

\* The providers there is an adapter for.
Adapted == {"serper", "serpbase", "brave", "tavily", "querit", "linkup", "exa", "firecrawl", "parallel",
            "you", "searxng", "keenable", "octen", "tinyfish"}

Messages ==
  [serper |-> Serper, serpbase |-> SerpBase, brave |-> Brave, tavily |-> Tavily, querit |-> Querit,
   linkup |-> Linkup, exa |-> Exa, firecrawl |-> Firecrawl, parallel |-> Parallel, you |-> You,
   searxng |-> SearXNG, keenable |-> Keenable, octen |-> Octen, tinyfish |-> TinyFish]

\* validate_outbound_body: no synthesized answers.
Gate(x) == x \in {"linkup", "exa"} /\ q.answers

\* What an adapter raises before it sends.
Raises ==
  \/ provider = "tavily" /\ HasSuffix
  \/ provider = "brave" /\ Len(Operators.include) > q.room
  \/ provider = "tinyfish" /\ (HasSuffix \/ \E t \in Range(q.include \o q.exclude) : Covers[t] = {})
  \/ Gate(provider)
-----------------------------------------------------------------------------
(***************************************************************************)
(* A provider honours the filters it is sent and ignores an entry that is  *)
(* no domain.  TinyFish's adapter filters the results itself.              *)
(***************************************************************************)
Matches(m) ==
  {s \in Site : /\ m.include = <<>> \/ \E f \in Range(m.include) : s \in f
                /\ \A f \in Range(m.exclude) : s \notin f}
-----------------------------------------------------------------------------
(***************************************************************************)
(* What the answer says.                                                   *)
(***************************************************************************)

\* PROVIDER_FRESHNESS_FORMATS and the SDK's supports_freshness.
TellsRecency == {"serper", "brave", "querit", "firecrawl", "keenable", "you", "searxng", "tavily",
                 "octen", "tinyfish"}

\* freshness_metadata: only Exa reports what was sent.
ToldRecency(x) ==
  IF x = "exa" THEN sent.recency
  ELSE IF x \in TellsRecency /\ Recency \in Unified THEN Recency ELSE None

ToldType(x) == IF x = "serper" THEN q.type ELSE "search"

BugTeller == planned
\* successful_provider.
Teller == provider

Tell ==
  [recency |-> ToldRecency(Teller),
   type |-> ToldType(Teller),
   country |-> IF Teller \in TellsCountry \cup TellsLanguage THEN Country(Teller) ELSE None,
   language |-> IF Teller \in TellsCountry \cup TellsLanguage THEN Language(Teller) ELSE None,
   dropped |-> sent.dropped]
-----------------------------------------------------------------------------
Init ==
  /\ q \in Requests /\ order \in Orders
  /\ planned = Head(order)
  /\ pc = "asked" /\ sent = None /\ results = {} /\ told = None

\* The checks of run_search_request; an automatic choice leaves Tavily out when
\* it could not apply the filters.
Check ==
  /\ pc = "asked"
  /\ LET able == Among(order, {x \in Range(order) : x = "tavily" => ~HasSuffix}) IN
     IF NothingLeft \/ (Len(order) = 1 /\ provider = "tavily" /\ HasSuffix) \/ able = <<>>
     THEN pc' = "refused" /\ UNCHANGED <<order, planned>>
     ELSE pc' = "dispatch" /\ order' = able /\ planned' = Head(able)
  /\ UNCHANGED <<q, sent, results, told>>

NextProvider ==
  IF Len(order) > 1
  THEN pc' = "dispatch" /\ order' = Tail(order)
  ELSE pc' = "failed" /\ UNCHANGED order

Dispatch ==
  /\ pc = "dispatch"
  /\ IF Raises
     THEN NextProvider /\ UNCHANGED sent
     ELSE sent' = Messages[provider] /\ pc' = "sent" /\ UNCHANGED order
  /\ UNCHANGED <<q, planned, results, told>>

Fails ==
  /\ pc = "sent"
  /\ NextProvider
  /\ UNCHANGED <<q, planned, sent, results, told>>

Answers ==
  /\ pc = "sent"
  /\ \E sites \in SUBSET Matches(sent) : results' = sites
  /\ told' = Tell
  /\ pc' = "answered"
  /\ UNCHANGED <<q, order, planned, sent>>

Next == Check \/ Dispatch \/ Fails \/ Answers
Spec == Init /\ [][Next]_vars
-----------------------------------------------------------------------------
(***************************************************************************)
(* Properties.                                                             *)
(***************************************************************************)

\* Neither excluded nor unasked for, when the provider takes the whole list.
TooLong(list) == provider = "linkup" /\ Len(list) > LinkupLimit

Asked(s) ==
  /\ \/ q.include = <<>> \/ q.ownSite \/ TooLong(q.include)
     \/ \E t \in Range(q.include) : s \in Covers[t]
  /\ \/ TooLong(q.exclude)
     \/ \A t \in Range(q.exclude) : s \notin Covers[t]
     \/ told.dropped > 0
     \/ Len(Excluded) > SiteLimit

\* No result is from a site the caller excluded or did not ask for, whichever
\* provider answered after whichever failed; a domain list longer than a
\* provider takes is the exception, and a site: the query itself has.  What
\* Brave's limit costs is said in the answer (provider_dispatch.py:77-111,
\* urls.py:332-358, query_limits.py:40-85).  SearXNG and Keenable
\* are exempt: SearXNG is sent no domains, Keenable the first to include and none to
\* exclude (providers.py:1806-1957, 1958-2003).
Restricted ==
  pc = "answered" /\ provider \notin {"searxng", "keenable"} => \A s \in results : Asked(s)

\* The metadata is true of the provider that answered and of what it was sent: a
\* recency told as applied was sent and one told as not applied was not, for the
\* values the table has; so too the vertical and the locale (providers.py:179-213,
\* search.py:1051-1060, 1527-1551).  Exempt are SearXNG's country, which the metadata
\* tells and the adapter has no parameter for (providers.py:1806-1815), Firecrawl's
\* language likewise, the vertical TinyFish is sent and does not tell, and the recency
\* of an SDK provider given two.
ToldTruly ==
  pc = "answered" =>
    LET sdk == provider \in {"octen", "tinyfish"} IN
    /\ Recency \in Unified /\ (sdk => Recency = SdkRecency) => told.recency = sent.recency
    /\ ~sdk => told.type = sent.type
    /\ provider \in TellsCountry => told.country = sent.country
    /\ provider \in TellsLanguage => told.language = sent.language \/ (provider = "brave" /\ sent.language = None)

\* No provider is asked for a synthesized answer, whatever the configuration says
\* (request_gate_v3.py:68-87).
SourceOnly == sent # None => ~sent.answers
-----------------------------------------------------------------------------
(***************************************************************************)
(* The inductive invariant of Restricted, ToldTruly and SourceOnly.        *)
(***************************************************************************)
SearchInv ==
  /\ q \in Requests /\ order \in Seq(Adapted)
  /\ pc \in {"asked", "dispatch", "sent", "answered"} => order # <<>>
  /\ pc \in {"dispatch", "sent", "answered"} => ~NothingLeft
  /\ pc \in {"sent", "answered"} => ~Raises /\ sent = Messages[provider]
  /\ pc = "answered" => results \subseteq Matches(sent) /\ told = Tell
  /\ SourceOnly
=============================================================================
