-------------------------------- MODULE ToolCall --------------------------------
(***************************************************************************)
(* A tool call of the MCP server (server.py).  The pipeline runs on a      *)
(* daemon thread of the server's process, or in a child process when the   *)
(* operator asks for that, the engine cannot be imported, or the arguments *)
(* are outside what the thread accepts.  Either is awaited from a thread   *)
(* of the event loop's executor (Slots of them) and for a limited time; no *)
(* assumption is made on how long that is compared with the pipeline.  The *)
(* client may cancel a call (the SDK, external): what runs then runs on.   *)
(***************************************************************************)
EXTENDS Naturals, FiniteSets

CONSTANTS
  Call,
  Slots,         \* threads of the default executor
  None

VARIABLES
  forced,        \* WSP_FORCE_SUBPROCESS
  engine,        \* _search_engine, _search_engine_failed: "unknown", "loaded", "broken"
  pc,            \* call -> "new", "waiting", "answered", "cancelled"
  worker,        \* call -> its daemon thread: None, "starting", "running" or its outcome
  child,         \* call -> its process: the same
  job,           \* call -> what an executor thread does for it
  answer,        \* call -> None or [status, is_error]
  \* History, for the properties only.
  ran            \* call -> how often its pipeline was started

vars == <<forced, engine, pc, worker, child, job, answer, ran>>

Live     == {"starting", "running"}
NoJob    == [on |-> None, at |-> "none", result |-> None]
Job(on)  == [on |-> on, at |-> "queued", result |-> None]

Init ==
  /\ forced \in BOOLEAN /\ engine = "unknown"
  /\ pc = [c \in Call |-> "new"]
  /\ worker = [c \in Call |-> None] /\ child = [c \in Call |-> None]
  /\ job = [c \in Call |-> NoJob] /\ answer = [c \in Call |-> None]
  /\ ran = [c \in Call |-> 0]

Answer(c, status, isError) ==
  /\ pc' = [pc EXCEPT ![c] = "answered"]
  /\ answer' = [answer EXCEPT ![c] = [status |-> status, is_error |-> isError]]
-----------------------------------------------------------------------------
(***************************************************************************)
(* _mcp_call_tool and call_tool up to the pipeline.                        *)
(***************************************************************************)
\* Arguments the schema refuses, a value that could be taken for an option, a
\* retired provider, a bad server default: answered at once.
Refuse(c) ==
  /\ pc[c] = "new"
  /\ \E status \in {"invalid_params", "failed"} : Answer(c, status, TRUE)
  /\ UNCHANGED <<forced, engine, worker, child, job, ran>>

\* _run_cmd: the engine is imported once, a failure to import it is kept.  The
\* daemon thread starts at once, the wait for it needs an executor thread.
Dispatch(c) ==
  /\ pc[c] = "new"
  /\ engine' \in IF forced \/ engine # "unknown" THEN {engine} ELSE {"loaded", "broken"}
  /\ pc' = [pc EXCEPT ![c] = "waiting"]
  /\ \/ /\ ~forced /\ engine' = "loaded"
        /\ worker' = [worker EXCEPT ![c] = "starting"]
        /\ job' = [job EXCEPT ![c] = Job("worker")]
     \/ /\ forced \/ engine' = "broken"
        /\ job' = [job EXCEPT ![c] = Job("child")] /\ UNCHANGED worker
  /\ UNCHANGED <<forced, child, answer, ran>>
-----------------------------------------------------------------------------
(***************************************************************************)
(* The pipeline, on either side.                                           *)
(***************************************************************************)
\* run_cli_contract_v3 and main: configuration and arguments first.
PipelineStarts(c) ==
  /\ \/ worker[c] = "starting" /\ worker' = [worker EXCEPT ![c] = "running"] /\ UNCHANGED child
     \/ child[c] = "starting" /\ child' = [child EXCEPT ![c] = "running"] /\ UNCHANGED worker
  /\ ran' = [ran EXCEPT ![c] = @ + 1]
  /\ UNCHANGED <<forced, engine, pc, job, answer>>

\* "scope": a ValueError for an argv that is not a contract search or extract.
WorkerEnds(c) ==
  /\ \/ worker[c] = "starting" /\ \E o \in {"scope", "usage", "error"} : worker' = [worker EXCEPT ![c] = o]
     \/ worker[c] = "running"
        /\ \E o \in {"ok", "failed", "error", "not_json"} : worker' = [worker EXCEPT ![c] = o]
  /\ UNCHANGED <<forced, engine, pc, child, job, answer, ran>>

\* A payload goes to stdout with exit status 0, a failed one to stderr with 1,
\* after a warning of the configuration if there is one ("failed_after_warning").
\* A process that is killed leaves nothing, or the warning alone.
ChildEnds(c) ==
  /\ \/ child[c] = "starting"
        /\ \E o \in {"usage", "error", "warning"} : child' = [child EXCEPT ![c] = o]
     \/ child[c] = "running"
        /\ \E o \in {"ok", "failed", "failed_after_warning", "error", "warning"} :
             child' = [child EXCEPT ![c] = o]
  /\ UNCHANGED <<forced, engine, pc, worker, job, answer, ran>>
-----------------------------------------------------------------------------
(***************************************************************************)
(* The wait on an executor thread.                                         *)
(***************************************************************************)
Busy == {c \in Call : job[c].at = "running"}
Over(c, result) == job' = [job EXCEPT ![c].at = "over", ![c].result = result]

\* task.result, or subprocess.run, which may fail to start the process.
TakeThread(c) ==
  /\ job[c].at = "queued" /\ Cardinality(Busy) < Slots
  /\ \/ job[c].on = "worker" /\ job' = [job EXCEPT ![c].at = "running"] /\ UNCHANGED child
     \/ /\ job[c].on = "child" /\ job' = [job EXCEPT ![c].at = "running"]
        /\ child' = [child EXCEPT ![c] = "starting"]
     \/ job[c].on = "child" /\ Over(c, "exception") /\ UNCHANGED child
  /\ UNCHANGED <<forced, engine, pc, worker, answer, ran>>

WaitEnds(c) ==
  /\ job[c].at = "running"
  /\ \/ job[c].on = "worker" /\ worker[c] \notin Live /\ Over(c, worker[c])
     \/ job[c].on = "child"  /\ child[c] \notin Live  /\ Over(c, child[c])
  /\ UNCHANGED <<forced, engine, pc, worker, child, answer, ran>>

BugMayTimeOut(on) == on = "child"
MayTimeOut(on)    == TRUE

\* The time is up.  The thread runs on, the process is killed.
TimesOut(c) ==
  /\ job[c].at = "running" /\ MayTimeOut(job[c].on)
  /\ Over(c, "timeout")
  /\ child' = IF job[c].on = "child" THEN [child EXCEPT ![c] = "killed"] ELSE child
  /\ UNCHANGED <<forced, engine, pc, worker, answer, ran>>
-----------------------------------------------------------------------------
(***************************************************************************)
(* Back in the event loop.                                                 *)
(***************************************************************************)
\* The one outcome of the thread after which the child process is used.
BugFallsBack(r) == r.on = "worker" /\ r.result \in {"scope", "timeout"}
FallsBack(r)    == r.on = "worker" /\ r.result = "scope"

\* What the client is told.  A lone line of JSON on stderr is passed on as it is;
\* two of them are not JSON.
Told(r) ==
  CASE r.result = "ok"        -> "ok"
    [] r.result = "failed"    -> "typed"
    [] r.result = "timeout"   -> "timeout"
    [] r.result = "warning"   -> "warning"
    [] r.result = "exception" -> "tool_execution_failed"
    [] OTHER                  -> "subprocess_failed"

\* _content_reports_failure: the payload's own status.
ReportsFailure(told)    == told \notin {"ok", "warning"}

Resume(c) ==
  /\ pc[c] = "waiting" /\ job[c].at = "over"
  /\ \/ FallsBack(job[c]) /\ job' = [job EXCEPT ![c] = Job("child")] /\ UNCHANGED <<pc, answer>>
     \/ /\ ~FallsBack(job[c])
        /\ Answer(c, Told(job[c]), ReportsFailure(Told(job[c])))
        /\ job' = [job EXCEPT ![c] = NoJob]
  /\ UNCHANGED <<forced, engine, worker, child, ran>>

\* A job still in the executor's queue is dropped, one on a thread stays on it.
Cancel(c) ==
  /\ pc[c] = "waiting"
  /\ pc' = [pc EXCEPT ![c] = "cancelled"]
  /\ job' = IF job[c].at = "running" THEN job ELSE [job EXCEPT ![c] = NoJob]
  /\ UNCHANGED <<forced, engine, worker, child, answer, ran>>

ServerStep(c) == Refuse(c) \/ Dispatch(c) \/ TakeThread(c) \/ WaitEnds(c) \/ TimesOut(c) \/ Resume(c)

Next ==
  \E c \in Call : ServerStep(c) \/ PipelineStarts(c) \/ WorkerEnds(c) \/ ChildEnds(c) \/ Cancel(c)

Spec == Init /\ [][Next]_vars

\* The server goes on and its waits run out; nothing is assumed of a pipeline.
FairSpec == Spec /\ \A c \in Call : WF_vars(ServerStep(c))
-----------------------------------------------------------------------------
(***************************************************************************)
(* Properties.                                                             *)
(***************************************************************************)
TypeOK ==
  /\ forced \in BOOLEAN /\ engine \in {"unknown", "loaded", "broken"}
  /\ pc \in [Call -> {"new", "waiting", "answered", "cancelled"}]
  /\ \A c \in Call : job[c].at \in {"none", "queued", "running", "over"} /\ ran[c] \in Nat

\* One call runs the pipeline, which spends money, at most once: a thread that was
\* given up on may still run, so no child process may be started after it
\* (server.py:1014-1021, 1094-1097).
OneExecution == \A c \in Call : ran[c] <= 1

\* A call is told to have succeeded only if its pipeline did.  The one exception
\* is a process killed after it printed a warning: the warning is passed on as a
\* result (server.py:1069-1073, 1284-1293).
SuccessIsReal ==
  \A c \in Call : answer[c] # None /\ ~answer[c].is_error =>
    \/ answer[c].status = "ok" /\ (worker[c] = "ok" \/ child[c] = "ok")
    \/ answer[c].status = "warning" /\ child[c] = "warning"

\* What every call comes to, even if no pipeline ever ends: every wait is limited,
\* so every executor thread comes back.
CallOver(c) == pc[c] \in {"answered", "cancelled"}
-----------------------------------------------------------------------------
(***************************************************************************)
(* The inductive invariant: what a call's thread, process and job may be   *)
(* together.  The process is used after the thread in one case only, that  *)
(* the thread had not started its pipeline ("scope").                      *)
(***************************************************************************)
WorkerStates == {None} \cup Live \cup {"scope", "usage", "error", "ok", "failed", "not_json"}
ChildStates  == {None} \cup Live \cup {"usage", "error", "warning", "ok", "failed", "failed_after_warning", "killed"}
Jobs ==
  [on : {None, "worker", "child"}, at : {"none", "queued", "running", "over"},
   result : WorkerStates \cup ChildStates \cup {"timeout", "exception"}]

NotRunYet(c) == worker[c] \in {None, "starting", "scope"} /\ child[c] \in {None, "starting"}

CallOK(c) ==
  /\ ran[c] <= 1 /\ (NotRunYet(c) => ran[c] = 0)
  /\ child[c] # None \/ job[c].on = "child" => worker[c] \in {None, "scope"}
  /\ job[c].on = "worker" \/ job[c].at = "queued" => child[c] = None
  /\ job[c].on = "worker" => worker[c] # None
  /\ job[c].on = "child" /\ job[c].at = "running" => child[c] # None
  /\ pc[c] = "new" => worker[c] = None /\ child[c] = None
  /\ pc[c] \in {"new", "answered"} => job[c] = NoJob
  /\ pc[c] # "answered" => answer[c] = None
  /\ job[c].at \in {"running", "over"} => job[c].on # None
  /\ job[c].at = "over" =>
       /\ job[c].on = "worker" /\ job[c].result # "timeout" =>
            worker[c] = job[c].result /\ job[c].result \notin {None} \cup Live \cup {"warning", "exception"}
       /\ job[c].on = "child" /\ job[c].result \notin {"timeout", "exception"} =>
            child[c] = job[c].result /\ job[c].result \notin Live

Inv ==
  /\ TypeOK /\ SuccessIsReal
  /\ worker \in [Call -> WorkerStates] /\ child \in [Call -> ChildStates] /\ job \in [Call -> Jobs]
  /\ ran \in [Call -> Nat] /\ DOMAIN answer = Call
  /\ \A c \in Call : CallOK(c)
=============================================================================
