------------------------------- MODULE Services -------------------------------
(***************************************************************************)
(* The components around the attempt engine that share nothing with one    *)
(* another, side by side: the initial state picks the part that moves.     *)
(* The response cache is one of the parts and keeps its own variables.     *)
(* The variables of any other part are "clock", "step" (its now and pc)    *)
(* and as many of s1 .. s15 as it needs; what it does not need stays at    *)
(* None.                                                                   *)
(***************************************************************************)
EXTENDS ResponseCache, Sequences

CONSTANTS
  \* DonsetchSession
  NumUrls, Timeouts, RequestDeadlines, MaxNoise, SessionTime,
  \* ConnectionPool; its processes are those of FullTextStore too
  PoolCaller, Process, ProcessOf, Forked, IdleSeconds, MaxIdle, MaxRedirects, MaxConns, PoolTime,
  \* CallPacer
  PacedCaller, Intervals, MaxWait, PacedDeadlines, PacedTime, MaxCalls,
  \* FullTextStore
  NumPages, Size, TextTtl, MaxBytes, MinAge, StoreTime, MaxJobs, StoreFaults,
  \* LegacySearch
  Priority, Configured, Queries, AnswerPages(_), SameScope(_, _), Ladder, Decay, LegacyTtl, Searches, LegacyTime,
  \* ToolCall
  ToolCalls, Slots,
  \* ExtractBatch
  Adapters, Sizes, Workers, Patience, BatchDeadlines, BatchTime,
  \* ProviderRequests
  Orders, Requests, Site, Covers, PublicSuffixes, SiteLimit, LinkupLimit, BraveLanguages, HomeOf

\* A number or a time is not None, nor is the name of a state.
ASSUME ServerAssumption ==
  None \notin {"starting", "running", "scope", "usage", "error", "ok", "failed", "not_json", "warning",
               "failed_after_warning", "killed", "timeout", "exception", "worker", "child"}
ASSUME PoolAssumption ==
  /\ ProcessOf \in [PoolCaller -> Process] /\ Forked \in Process \cup {None}
  /\ MaxRedirects \in Nat /\ PoolTime \in Nat
ASSUME PacerAssumption ==
  /\ Intervals \subseteq Nat /\ MaxWait \in Nat /\ PacedDeadlines \subseteq Nat
  /\ PacedTime \in Nat /\ MaxCalls \in Nat /\ None \notin Nat
ASSUME StoreAssumption ==
  /\ NumPages \in Nat \ {0} /\ StoreTime \in Nat /\ MaxJobs \in Nat /\ StoreFaults \in Nat
  /\ Size \in [0..NumPages -> Nat] /\ MaxBytes \in Nat
ASSUME BatchAssumption ==
  /\ Sizes \subseteq Nat /\ Workers \in Nat \ {0} /\ None \notin Nat
  /\ None \notin {"pages", "pages_and_blocked", "blocked", "error", "deadline", "crashed", "urls_failed"}

VARIABLES
  part, clock, step, s1, s2, s3, s4, s5, s6, s7, s8, s9, s10, s11, s12, s13, s14, s15

Session ==
  INSTANCE DonsetchSession
    WITH now <- clock, pc <- step, op <- s1, timeout <- s2, limit <- s3, deadline <- s4, nextId <- s5,
         index <- s6, items <- s7, error <- s8, child <- s9, stdin <- s10, stdout <- s11,
         lines <- s12, reader <- s13, answered <- s14, noise <- s15, MaxTime <- SessionTime

ASSUME SessionAssumption ==
  /\ NumUrls \in Nat \ {0} /\ Timeouts \subseteq Nat /\ RequestDeadlines \subseteq Nat
  /\ None \notin Session!Codes \cup {"not_tried", "fetch_failed"}

Pool ==
  INSTANCE ConnectionPool
    WITH now <- clock, pc <- step, idle <- s1, pid <- s2, running <- s3, conns <- s4, call <- s5,
         Caller <- PoolCaller, MaxTime <- PoolTime

Pacer ==
  INSTANCE CallPacer
    WITH now <- clock, pc <- step, nextSlot <- s1, lastStart <- s2, interval <- s3, wake <- s4,
         calls <- s5, Caller <- PacedCaller, Deadlines <- PacedDeadlines, MaxTime <- PacedTime

Store ==
  INSTANCE FullTextStore
    WITH now <- clock, pc <- step, files <- s1, temp <- s2, orphans <- s3, page <- s4, scan <- s5,
         report <- s6, jobs <- s7, faults <- s8, died <- s9, swept <- s10,
         Ttl <- TextTtl, MaxTime <- StoreTime, MaxFaults <- StoreFaults

Legacy ==
  INSTANCE LegacySearch
    WITH now <- clock, pc <- step, health <- s1, entries <- s2, q <- s3, eligible <- s4, got <- s5,
         errors <- s6, cooling <- s7, answer <- s8,
         Pages <- AnswerPages, Ttl <- LegacyTtl, Requests <- Searches, MaxTime <- LegacyTime

\* What is asked names a number of results, and what is answered is a list.
ASSUME LegacyAssumption ==
  /\ LegacyTtl \in Nat /\ Priority \in Seq(Legacy!Range(Priority))
  /\ \A a \in Queries : a.max \in Nat
  /\ \A p \in Configured : \A pages \in AnswerPages(p) : pages \in Seq(Legacy!Range(pages))

Server ==
  INSTANCE ToolCall
    WITH pc <- step, forced <- s1, engine <- s2, worker <- s3, job <- s4, ran <- s5, child <- s6,
         answer <- s7, Call <- ToolCalls

Batch ==
  INSTANCE ExtractBatch
    WITH now <- clock, outcome <- step, deadline <- s1, adapter <- s2, urls <- s3, fetch <- s4,
         stopped <- s5, at <- s6, items <- s7, sent <- s8, after <- s9,
         Deadlines <- BatchDeadlines, MaxTime <- BatchTime

Search ==
  INSTANCE ProviderRequests
    WITH pc <- step, q <- s1, order <- s2, planned <- s3, sent <- s4, results <- s5, told <- s6

\* Every provider named has an adapter, and a token of a filter covers sites or none.
ASSUME SearchAssumption ==
  /\ Orders \subseteq Seq(Search!Adapted) \ {<<>>}
  /\ SiteLimit \in Nat \ {0} /\ LinkupLimit \in Nat
  /\ Covers \in [DOMAIN Covers -> SUBSET Site]
  /\ \A r \in Requests :
       r.include \in Seq(DOMAIN Covers) /\ r.exclude \in Seq(DOMAIN Covers) /\ r.room \in Int

after5  == <<s6, s7, s8, s9, s10, s11, s12, s13, s14, s15>>
after6  == <<s7, s8, s9, s10, s11, s12, s13, s14, s15>>
after7  == <<s8, s9, s10, s11, s12, s13, s14, s15>>
after8  == <<s9, s10, s11, s12, s13, s14, s15>>
after9  == <<s10, s11, s12, s13, s14, s15>>
after10 == <<s11, s12, s13, s14, s15>>
slots   == <<s1, s2, s3, s4, s5, after5>>
allVars == <<vars, part, clock, step, slots>>

NoneAfter10 == s11 = None /\ s12 = None /\ s13 = None /\ s14 = None /\ s15 = None
NoneAfter9  == s10 = None /\ NoneAfter10
NoneAfter8  == s9 = None /\ NoneAfter9
NoneAfter7  == s8 = None /\ NoneAfter8
NoneAfter6  == s7 = None /\ NoneAfter7
NoneAfter5  == s6 = None /\ NoneAfter6
NoSlot      == s1 = None /\ s2 = None /\ s3 = None /\ s4 = None /\ s5 = None /\ NoneAfter5
-----------------------------------------------------------------------------
ServicesInit ==
  /\ Init
  /\ \/ part = "session" /\ Session!Init
     \/ part = "pool" /\ Pool!Init /\ NoneAfter5
     \/ part = "pacer" /\ Pacer!Init /\ NoneAfter5
     \/ part = "store" /\ Store!Init /\ NoneAfter10
     \/ part = "legacy" /\ Legacy!Init /\ NoneAfter8
     \/ part = "server" /\ Server!Init /\ clock = None /\ NoneAfter7
     \/ part = "batch" /\ Batch!Init /\ NoneAfter9
     \/ part = "search" /\ Search!Init /\ clock = None /\ NoneAfter6
     \/ part = "cache" /\ clock = None /\ step = None /\ NoSlot

\* A step of one part leaves the others alone.
InSession(action) == part = "session" /\ action /\ UNCHANGED <<vars, part>>
InServer(action)  == part = "server" /\ action /\ UNCHANGED <<vars, part, clock, after7>>
InBatch(action)   == part = "batch" /\ action /\ UNCHANGED <<vars, part, after9>>

CacheMoves   == part = "cache" /\ Next /\ UNCHANGED <<part, clock, step, slots>>
SessionMoves == InSession(Session!SessionNext)
PoolMoves    == part = "pool" /\ Pool!Next /\ UNCHANGED <<vars, part, after5>>
PacerMoves   == part = "pacer" /\ Pacer!Next /\ UNCHANGED <<vars, part, after5>>
StoreMoves   == part = "store" /\ Store!Next /\ UNCHANGED <<vars, part, after10>>
LegacyMoves  == part = "legacy" /\ Legacy!Next /\ UNCHANGED <<vars, part, after8>>
ServerMoves  == InServer(Server!Next)
BatchMoves   == InBatch(Batch!Next)
SearchMoves  == part = "search" /\ Search!Next /\ UNCHANGED <<vars, part, clock, after6>>

ServicesNext ==
  \/ CacheMoves \/ SessionMoves \/ PoolMoves \/ PacerMoves \/ StoreMoves \/ LegacyMoves
  \/ ServerMoves \/ BatchMoves \/ SearchMoves

Services == ServicesInit /\ [][ServicesNext]_allVars

\* The fairness of DonsetchSession and of ToolCall, a caller that goes on and a clock.
ServicesSpec ==
  /\ Services
  /\ WF_allVars(InSession(Session!SessionStep)) /\ WF_allVars(InSession(Session!Tick))
  /\ \A c \in ToolCalls : WF_allVars(InServer(Server!ServerStep(c)))
  /\ WF_allVars(InBatch(Batch!Collector)) /\ WF_allVars(InBatch(Batch!Tick))
-----------------------------------------------------------------------------
(***************************************************************************)
(* The properties of each part, stated and explained in its module.        *)
(***************************************************************************)
\* A page belongs to the URL it is stored for, every URL is accounted for, a page
\* read is not lost to a later failure, and the child is gone (donsetch.py:404-427,
\* 718-752, 1013-1058).
SessionHolds ==
  part = "session" =>
    Session!TypeOK /\ Session!PagesBelong /\ Session!EveryUrlAccounted /\ Session!PagesSurvive /\ Session!ChildReaped

\* Answers are the caller's own, a connection has one user, a request is sent again
\* only as far as the code allows (http_client.py:67-103, 187-206, 262-293), and the
\* slots of a paced provider are an interval apart and before their callers'
\* deadlines (providers.py:525-549).
TransportHolds ==
  /\ part = "pool" => Pool!TypeOK /\ Pool!AnswersAreOwn /\ Pool!OneUser /\ Pool!SentSparingly
  /\ part = "pacer" => Pacer!TypeOK /\ Pacer!SlotsSpaced /\ Pacer!StartsInTime

\* The stored texts fit their limit at rest, and a reader sees whole texts only
\* (bounded_context_v3.py:404-407, 431-447, 469-497).
StoreHolds == part = "store" => Store!TypeOK /\ Store!StoreBounded /\ Store!LookupTrue

\* No file of the user's among them is ever replaced or removed
\* (bounded_context_v3.py:337-345, 435-441).
ForeignTextsKept == [][part = "store" => Store!ForeignStays]_allVars

\* What the older search answers is what its providers gave it
\* (search.py:1187-1225, 1412-1497; cache.py:236-278).
LegacyHolds == part = "legacy" => Legacy!AnswersTrue

\* A tool call runs its pipeline at most once and reports success only for one that
\* succeeded (server.py:1014-1021, 1069-1073, 1094-1097).
ServerHolds == part = "server" => Server!TypeOK /\ Server!OneExecution /\ Server!SuccessIsReal

\* An extraction batch keeps the pages it paid for and reports an account-wide
\* error, in whatever order its fetches end, and sends hardly anything after one
\* (providers.py:1040-1103, 1199-1277).
BatchHolds ==
  part = "batch" =>
    /\ Batch!TypeOK /\ Batch!PaidPagesKept /\ Batch!BlockReported /\ Batch!FewAfterBlock
    /\ Batch!OneVerdict

\* A search keeps to the domains the caller named, whichever provider answered, and
\* its metadata is true of that provider (provider_dispatch.py:77-345,
\* providers.py:179-213, search.py:1527-1551).
SearchHolds == part = "search" => Search!Restricted /\ Search!ToldTruly /\ Search!SourceOnly

\* Whoever waits is answered: a DonSeTch session ends by its timeout though the
\* child never says a word, a tool call is answered or cancelled though no pipeline
\* ends, a batch of Linkup's ends though no fetch does.
AlwaysAnswered ==
  /\ <>(part = "session" => Session!Over)
  /\ \A c \in ToolCalls : <>(part = "server" => Server!CallOver(c))
  /\ <>(part = "batch" => Batch!LinkupOver)
=============================================================================
