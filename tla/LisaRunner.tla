------------------------------ MODULE LisaRunner ------------------------------
(***************************************************************************)
(* The scheduler of LISA: one LisaRunner driven by the loop of RootRunner, *)
(* the environments and test results it owns, and the worker threads that  *)
(* deploy, initialize, test and delete environments.                       *)
(*                                                                         *)
(* The main thread runs RootRunner._start_loop, which calls                *)
(* LisaRunner.fetch_task; a task is handed to a free worker thread.  Main  *)
(* and workers share the status fields of Environment and TestResult with  *)
(* no lock, so every statement that reads or writes one of them and can be *)
(* told apart by the other threads is a step of its own here.              *)
(*                                                                         *)
(* Costs and priorities (platform and test metadata) only order equals:    *)
(* where the code takes the first of a sorted list, the model takes any    *)
(* member that the parts of the order kept here allow.                     *)
(*                                                                         *)
(* A definition named for an omission or a slip (RunnableNewIgnored,       *)
(* KeptWhenBad, NeverReleased...) is a plausible wrong version of the one  *)
(* after it; it is not part of the specification, and shows what the       *)
(* properties would catch.                                                 *)
(***************************************************************************)
EXTENDS Naturals, FiniteSets

CONSTANTS
  Envs,                \* environments of the runbook, or generated ones
  Results,             \* test results, one per selected test case
  Workers,             \* slots of TaskManager, runbook.concurrency of them
  None,                \* no source_test_result
  Source,              \* environment.source_test_result
  Fits,                \* <<r, e>>: check_platform and the capability check pass
  Unsupported,         \* results the platform cannot serve
  UseNew,              \* runtime_data.use_new_environment
  NeedsDeployed,       \* requirement.environment_status is Deployed
  OsMismatch,          \* requirement.os_type excludes the OS of this run
  DirtiesNode,         \* test cases that may call mark_dirty of a node
  IgnoreFailure,       \* runtime_data.ignore_failure
  CaseRetry,           \* runtime_data.retry
  EnvRetry,            \* environment.retry
  MaxAwaits,           \* attempts that fit in wait_resource_timeout
  KeepEnvironment,     \* platform.runbook.keep_environment
  ExitOnFirstFailure,  \* runbook.exit_on_first_failure
  GuestEnabled,        \* platform.runbook.guest_enabled
  ReuseDirtyEnv,       \* ReadyPlatformSchema.reuse_dirty_env
  Failures             \* the external calls that may fail in this instance

IsPredefined(e) == Source[e] = None

ASSUME FiniteAssumption ==
  /\ IsFiniteSet(Envs) /\ IsFiniteSet(Results) /\ IsFiniteSet(Workers)
  /\ Workers # {}
  /\ None \notin Results \cup Envs \cup Workers

\* Environments come from the runbook, or else one is made for each test result.
ASSUME SourceAssumption ==
  /\ Source \in [Envs -> Results \cup {None}]
  /\ \A e \in Envs : IsPredefined(e) => \A f \in Envs : IsPredefined(f)
  /\ \A e, f \in Envs : Source[e] = Source[f] => e = f \/ IsPredefined(e)
  /\ Unsupported # {} => \A e \in Envs : ~IsPredefined(e)

ASSUME CaseAssumption ==
  /\ Fits \subseteq Results \X Envs
  /\ Unsupported \subseteq Results /\ UseNew \subseteq Results
  /\ NeedsDeployed \subseteq Results /\ OsMismatch \subseteq Results
  /\ DirtiesNode \subseteq Results
  /\ IgnoreFailure \subseteq Results
  /\ CaseRetry \in [Results -> Nat]

ASSUME RunbookAssumption ==
  /\ EnvRetry \in Nat /\ MaxAwaits \in Nat
  /\ KeepEnvironment \in {"no", "failed", "always"}
  /\ ExitOnFirstFailure \in BOOLEAN /\ GuestEnabled \in BOOLEAN
  /\ ReuseDirtyEnv \in BOOLEAN
  /\ Failures \subseteq {"prepare", "deploy", "init", "test", "connection", "cleanup",
                    "free", "close"}

VARIABLES
  pc,                \* where the main thread is
  environments,      \* LisaRunner.environments
  test_results,      \* LisaRunner.test_results
  toVisit,           \* environments a loop of the main thread has still to see
  proceeded,         \* proceeded_environments of _prepare_environments
  pass,              \* the status _sort_environments collects next
  ranked,            \* available_environments not yet visited, by sort key
  available,         \* available_environments
  availableResults,  \* available_results
  envStatus, inUse, isNew, isDirty, triedTimes,   \* fields of Environment
  nodeDirty,         \* is_dirty of some node of the environment
  resources,         \* what the platform created for the environment exists
  orphaned,          \* environments whose created resources lost their context
  left,              \* environments whose resources were left on purpose or by a failed
                     \* deletion (history)
  ran,               \* a test ran since the last deployment (history)
  status, retried, logHandler,                    \* fields of TestResult
  tasks,             \* what each worker slot is executing
  crashed,           \* a task raised and wait_worker has not joined it yet
  awaits             \* resource waits since the timer was reset

loopVars   == <<toVisit, proceeded>>
fetchVars  == <<pass, ranked, available, availableResults>>
mainVars   == <<pc, environments, test_results, loopVars, fetchVars>>
flagVars   == <<isNew, isDirty, nodeDirty, triedTimes>>
deployVars == <<resources, orphaned, left, ran>>
envVars    == <<envStatus, inUse, flagVars, deployVars>>
caseVars   == <<status, retried, logHandler>>
vars       == <<mainVars, envVars, caseVars, tasks, crashed, awaits>>

EnvironmentStatus == {"New", "Prepared", "Deployed", "Connected", "Deleted", "Bad"}
TestStatus == {"QUEUED", "ASSIGNED", "RUNNING", "FAILED", "PASSED", "SKIPPED", "ATTEMPTED"}

\* _is_completed_status
Completed == {"FAILED", "PASSED", "SKIPPED", "ATTEMPTED"}

\* TestResult.can_run
CanRun(r) == status[r] \in {"QUEUED", "ASSIGNED"}

-----------------------------------------------------------------------------
(* Worker slots.  "idle": not in TaskManager._futures; "done": its future is
   finished and not yet reaped; anything else: where the task is. *)

TaskKinds == {"deploy", "init", "run", "rerun", "delete"}
TaskSteps == {"idle", "done", "subscribe", "deploy", "awaiting", "timed_out", "failed",
              "attach", "attach_skip",
              "delete", "freeing", "unsubscribe", "init", "begin",
              "case", "close", "check", "retry", "renew", "requeue", "tail", "release"}

Idle == [pc |-> "idle", kind |-> "delete", env |-> None, first |-> None, results |-> {}]

Busy(w) == tasks[w].pc \notin {"idle", "done"}

FirstStep == [deploy |-> "subscribe", init |-> "init", run |-> "begin", delete |-> "delete"]

\* TaskManager._process_done_futures
Reaped == [w \in Workers |-> IF Busy(w) THEN tasks[w] ELSE Idle]

-----------------------------------------------------------------------------
(* What the scheduler reads. *)

\* TestResult.check_environment raises SkippedException, and
\* _get_runnable_test_results turns it into the SKIPPED status of the result.
OsSkipped(e, rs) ==
  {r \in rs : /\ envStatus[e] = "Connected" /\ status[r] = "QUEUED"
              /\ <<r, e>> \in Fits /\ r \in OsMismatch}

RunnableNewIgnored(e, rs) ==
  {r \in rs : status[r] = "QUEUED" /\ <<r, e>> \in Fits} \ OsSkipped(e, rs)

\* LisaRunner._get_runnable_test_results, before one new-environment case is kept.
Runnable(e, rs) ==
  {r \in rs : /\ status[r] = "QUEUED"
              /\ <<r, e>> \in Fits
              /\ r \in UseNew => isNew[e]} \ OsSkipped(e, rs)

\* "only select one test case, which needs the new environment"
KeepOneNew(rs) ==
  IF rs \cap UseNew = {} THEN {rs} ELSE {(rs \ UseNew) \cup {r} : r \in rs \cap UseNew}

\* LisaRunner._get_test_result_to_run prefers the case that needs a new environment.
Preferred(rs) == IF rs \cap UseNew = {} THEN rs ELSE rs \cap UseNew

IsDoneResultsIgnored ==
  \A e \in environments : ~inUse[e] /\ envStatus[e] \in {"Prepared", "Deleted"}

\* LisaRunner.is_done
IsDone ==
  /\ \A r \in test_results : status[r] \in Completed
  /\ \A e \in environments : ~inUse[e] /\ envStatus[e] \in {"Prepared", "Deleted"}

WithStatus(rs, s) == [r \in Results |-> IF r \in rs THEN s ELSE status[r]]

-----------------------------------------------------------------------------
(* LisaRunner._initialize: results the platform cannot serve are skipped and
   get no environment of their own. *)

Init ==
  /\ pc = "submit"
  /\ environments = {e \in Envs : Source[e] \notin Unsupported}
  /\ test_results = Results
  /\ toVisit = {} /\ proceeded = {}
  /\ pass = 1 /\ ranked = [k \in 1..4 |-> {}] /\ available = {} /\ availableResults = {}
  /\ envStatus = [e \in Envs |-> "New"]
  /\ inUse = [e \in Envs |-> FALSE]
  /\ isNew = [e \in Envs |-> TRUE]
  /\ isDirty = [e \in Envs |-> FALSE] /\ nodeDirty = [e \in Envs |-> FALSE]
  /\ triedTimes = [e \in Envs |-> 0]
  /\ resources = [e \in Envs |-> FALSE]
  /\ orphaned = {} /\ left = {}
  /\ ran = [e \in Envs |-> FALSE]
  /\ status = [r \in Results |-> IF r \in Unsupported THEN "SKIPPED" ELSE "QUEUED"]
  /\ retried = [r \in Results |-> 0]
  /\ logHandler = [r \in Results |-> FALSE]
  /\ tasks = [w \in Workers |-> Idle]
  /\ crashed = FALSE
  /\ awaits = [n \in {"prepare", "deploy"} |-> 0]
-----------------------------------------------------------------------------
(* The main thread: RootRunner._start_loop and _submit_runner_tasks. *)

Goto(label) == pc' = label

Abort == pc' = "abort" /\ toVisit' = environments

\* task_manager.wait_worker: blocks until some future is done, then raises the
\* exception of a failed task.
WaitWorker ==
  /\ pc = "wait"
  /\ (\E w \in Workers : tasks[w].pc = "done") \/ (\A w \in Workers : ~Busy(w))
  /\ tasks' = Reaped
  /\ crashed' = FALSE
  /\ IF crashed THEN Abort ELSE Goto("submit") /\ UNCHANGED toVisit
  /\ UNCHANGED <<environments, test_results, proceeded, fetchVars, envVars, caseVars,
                 awaits>>

\* runner.is_done: runner.close() is next.
RunnerIsDone ==
  /\ pc \in {"submit", "none"}
  /\ IsDone
  /\ Goto("close") /\ toVisit' = environments
  /\ UNCHANGED <<environments, test_results, proceeded, fetchVars, envVars, caseVars, tasks,
                 crashed, awaits>>

\* fetch_task gave no task, or no worker is idle: leave the submit loop.
LeaveSubmitLoop ==
  /\ ~IsDone
  /\ pc = "none" \/ (pc = "submit" /\ \A w \in Workers : Busy(w))
  /\ tasks' = Reaped
  /\ Goto("wait")
  /\ UNCHANGED <<environments, test_results, loopVars, fetchVars, envVars, caseVars,
                 crashed, awaits>>

\* fetch_task begins: _prepare_environments returns at once if nothing is new.
FetchTask ==
  /\ pc = "submit"
  /\ ~IsDone
  /\ \E w \in Workers : ~Busy(w)
  /\ tasks' = Reaped
  /\ IF \E e \in environments : envStatus[e] = "New"
       THEN Goto("prepare") /\ toVisit' = environments
       ELSE Goto("early") /\ UNCHANGED toVisit
  /\ UNCHANGED <<environments, test_results, proceeded, fetchVars, envVars, caseVars,
                 crashed, awaits>>

\* After the runner closed, wait_worker runs until no future is left.
Drain ==
  /\ pc = "drain"
  /\ \A w \in Workers : ~Busy(w)
  /\ tasks' = Reaped
  /\ crashed' = FALSE
  /\ Goto(IF crashed THEN "aborted" ELSE "finished")
  /\ UNCHANGED <<environments, test_results, loopVars, fetchVars, envVars, caseVars,
                 awaits>>
-----------------------------------------------------------------------------
(* LisaRunner._prepare_environments, one environment at a time. *)

\* What handle_exception makes of a failure that is not a skip.
FailedStatus(r) == IF r \in IgnoreFailure THEN "ATTEMPTED" ELSE "FAILED"

\* LisaRunner._match_failed_environment_with_result: every result it may name.
MatchFailed(e) ==
  LET runnable == Runnable(e, test_results)
      queued   == {r \in test_results : status[r] = "QUEUED"}
  IN  IF ~IsPredefined(e) /\ status[Source[e]] = "QUEUED" THEN {Source[e]}
      ELSE IF runnable # {} THEN runnable ELSE queued

\* Only a new environment is prepared.
NeedsPreparing(e) == envStatus[e] = "New"

\* The environment is not new, is prepared, or waits for a resource and stays new.
PrepareProceeds(e) ==
  /\ pc = "prepare" /\ e \in toVisit
  /\ \/ ~NeedsPreparing(e) /\ UNCHANGED <<envStatus, awaits>>
     \/ /\ NeedsPreparing(e)
        /\ envStatus' = [envStatus EXCEPT ![e] = "Prepared"]
        /\ awaits' = [awaits EXCEPT !["prepare"] = 0]
     \/ /\ NeedsPreparing(e)
        /\ awaits["prepare"] < MaxAwaits
        /\ awaits' = [awaits EXCEPT !["prepare"] = @ + 1]
        /\ UNCHANGED envStatus
  /\ toVisit' = toVisit \ {e}
  /\ proceeded' = proceeded \cup {e}
  /\ UNCHANGED <<pc, environments, test_results, fetchVars, inUse, flagVars, deployVars,
                 caseVars, tasks, crashed>>

\* The platform fails, or the wait for resources times out: the environment is
\* dropped and the failure goes to a result; with none left the run is aborted.
PrepareFails(e) ==
  /\ pc = "prepare" /\ e \in toVisit
  /\ NeedsPreparing(e)
  /\ "prepare" \in Failures \/ (MaxAwaits > 0 /\ awaits["prepare"] = MaxAwaits)
  /\ \/ /\ MatchFailed(e) # {}
        /\ \E r \in MatchFailed(e) :
             \/ status' = [status EXCEPT ![r] = "SKIPPED"]
             \/ "prepare" \in Failures /\ status' = [status EXCEPT ![r] = FailedStatus(r)]
        /\ toVisit' = toVisit \ {e}
        /\ UNCHANGED pc
     \/ MatchFailed(e) = {} /\ Abort /\ UNCHANGED status
  /\ UNCHANGED <<environments, test_results, proceeded, fetchVars, envVars, retried,
                 logHandler, tasks, crashed, awaits>>

PrepareEnds ==
  /\ pc = "prepare" /\ toVisit = {}
  /\ environments' = proceeded
  /\ proceeded' = {}
  /\ Goto("early")
  /\ UNCHANGED <<test_results, toVisit, fetchVars, envVars, caseVars, tasks, crashed,
                 awaits>>
-----------------------------------------------------------------------------
(* The rest of LisaRunner.fetch_task. *)

\* LisaRunner._should_early_stop
ShouldEarlyStop ==
  /\ pc = "early"
  /\ Goto("cleanup_envs")
  /\ status' = IF ExitOnFirstFailure /\ \E r \in test_results : status[r] = "FAILED"
                 THEN WithStatus({r \in test_results : CanRun(r)}, "SKIPPED")
                 ELSE status
  /\ UNCHANGED <<environments, test_results, loopVars, fetchVars, envVars, retried,
                 logHandler, tasks, crashed, awaits>>

\* LisaRunner._cleanup_deleted_environments
CleanupDeletedEnvironments ==
  /\ pc = "cleanup_envs"
  /\ environments' = {e \in environments : envStatus[e] # "Deleted"}
  /\ Goto("cleanup_results")
  /\ UNCHANGED <<test_results, loopVars, fetchVars, envVars, caseVars, tasks, crashed,
                 awaits>>

\* LisaRunner._cleanup_done_results
CleanupDoneResults ==
  /\ pc = "cleanup_results"
  /\ test_results' = {r \in test_results : status[r] \notin Completed}
  /\ Goto("sort")
  /\ UNCHANGED <<environments, loopVars, fetchVars, envVars, caseVars, tasks, crashed,
                 awaits>>

\* LisaRunner._sort_environments makes one pass over the list for each status, so
\* an environment that changes its status meanwhile may be missed.
SortedStatus == <<"Connected", "Deployed", "Prepared", "New">>

SortEnvironments ==
  /\ pc = "sort"
  /\ LET found == {e \in environments : envStatus[e] = SortedStatus[pass]}
     IN  /\ ranked' = [ranked EXCEPT ![pass] = found]
         /\ available' = available \cup found
  /\ IF pass < 4
       THEN pass' = pass + 1 /\ UNCHANGED <<pc, availableResults>>
       ELSE /\ pass' = 1
            /\ availableResults' = {r \in test_results : CanRun(r)}
            /\ Goto("delete_unused")
  /\ UNCHANGED <<environments, test_results, loopVars, envVars, caseVars, tasks, crashed,
                 awaits>>

ForgetFetch ==
  /\ ranked' = [k \in 1..4 |-> {}]
  /\ available' = {}
  /\ availableResults' = {}

AssignedForgotten(rs, old) == old

\* "return assigned but not run cases": the queued results of a task become assigned.
Assigned(rs, old) ==
  [r \in Results |-> IF r \in rs /\ old[r] = "QUEUED" THEN "ASSIGNED" ELSE old[r]]

\* LisaRunner._generate_task, and the submit of the task to a free worker.
\* newStatus is the status of the results before the task takes its own.
GenerateTask(kind, e, first, rs, newStatus) ==
  /\ inUse' = [inUse EXCEPT ![e] = TRUE]
  /\ status' = Assigned(rs, newStatus)
  /\ \E w \in Workers :
       /\ ~Busy(w)
       /\ tasks' = [Reaped EXCEPT ![w] =
            [pc |-> FirstStep[kind], kind |-> kind, env |-> e, first |-> first, results |-> rs]]
  /\ Goto("submit")
  /\ ForgetFetch

DeployedOrInUse(e) == envStatus[e] \in {"Deployed", "Connected"}

\* _delete_unused_environments looks at environments that are deployed and not in use.
DeployedNotInUse(e) == ~inUse[e] /\ envStatus[e] \in {"Deployed", "Connected"}

\* LisaRunner._delete_unused_environments.  Environments are looked at in the order
\* of _sort_environments up to the first that no queued result can use; each
\* connected one looked at skips the results whose OS does not match.
DeleteUnusedEnvironments ==
  LET idle      == {e \in environments : DeployedNotInUse(e)}
      connected == {e \in idle : envStatus[e] = "Connected"}
      deletable == {e \in idle : Runnable(e, test_results) = {}}
      Skip(es)  == WithStatus(UNION {OsSkipped(e, test_results) : e \in es}, "SKIPPED")
  IN
  /\ pc = "delete_unused"
  /\ \/ /\ deletable = {}
        /\ status' = Skip(connected)
        /\ Goto("dispatch")
        /\ UNCHANGED <<inUse, tasks, ranked, available, availableResults>>
     \/ \E e \in deletable, seen \in SUBSET (connected \ deletable) :
          /\ e \notin connected => deletable \cap connected = {} /\ seen = connected
          /\ GenerateTask("delete", e, None, {}, Skip(seen \cup {e}))
  /\ UNCHANGED <<environments, test_results, loopVars, pass, envStatus, flagVars,
                 deployVars, retried, logHandler, crashed, awaits>>
-----------------------------------------------------------------------------
(* The loop over available_environments and _dispatch_test_result. *)

\* environment_results: the source result if it can still run (assigned ones
\* included), else what runs here; a prepared environment waits for its source.
EnvironmentResults(e) ==
  IF Source[e] \in availableResults THEN {{Source[e]}}
  ELSE IF ~IsPredefined(e) /\ envStatus[e] = "Prepared" THEN {{}}
  ELSE KeepOneNew(Runnable(e, availableResults))

\* The results whose OS is checked, and skipped, when e is looked at.
OsSkippedByDispatch(e) ==
  OsSkipped(e, IF Source[e] \in availableResults THEN {Source[e]} ELSE availableResults)

\* The tasks _dispatch_test_result may return for e: <<kind, first result, results>>.
Dispatch(e, rs) ==
  LET onDeployed  == Preferred(Runnable(e, rs) \cap NeedsDeployed)
      onConnected == Runnable(e, rs) \ NeedsDeployed
  IN  CASE envStatus[e] = "Prepared"  -> {<<"deploy", r, {r}>> : r \in rs}
        [] envStatus[e] = "Deployed"  ->
             IF onDeployed # {} THEN {<<"run", r, {r}>> : r \in onDeployed}
             ELSE {<<"init", r, onConnected>> : r \in onConnected}
        [] envStatus[e] = "Connected" -> {<<"run", r, {r}>> : r \in Preferred(onConnected)}
        [] OTHER -> {}

\* The first environment of available_environments not visited yet.
IsNext(e) == \E k \in 1..4 : e \in ranked[k] /\ \A j \in 1..(k - 1) : ranked[j] = {}

\* The loop moves on: the environment is in use, or nothing can be done on it.
VisitEnvironment(e) ==
  /\ pc = "dispatch" /\ availableResults # {} /\ IsNext(e)
  /\ \/ inUse[e] /\ UNCHANGED status
     \/ /\ ~inUse[e]
        /\ \E rs \in EnvironmentResults(e) : Dispatch(e, rs) = {}
        /\ status' = WithStatus(OsSkippedByDispatch(e), "SKIPPED")
  /\ ranked' = [k \in 1..4 |-> IF \E j \in 1..(k - 1) : ranked[j] # {}
                                 THEN ranked[k] ELSE ranked[k] \ {e}]
  /\ UNCHANGED <<pc, environments, test_results, loopVars, pass, available,
                 availableResults, envVars, retried, logHandler, tasks, crashed, awaits>>

DispatchTestResult(e) ==
  /\ pc = "dispatch" /\ availableResults # {} /\ IsNext(e)
  /\ ~inUse[e]
  /\ \E rs \in EnvironmentResults(e) : \E t \in Dispatch(e, rs) :
       GenerateTask(t[1], e, t[2], t[3], WithStatus(OsSkippedByDispatch(e), "SKIPPED"))
  /\ UNCHANGED <<environments, test_results, loopVars, pass, envStatus, flagVars,
                 deployVars, retried, logHandler, crashed, awaits>>

SkippableAlways(r) == TRUE

\* _skip_test_results: "already completed, don't skip it."
Skippable(r) == status[r] \notin Completed

\* No environment took a result.  Unless some available one is in use or new, the
\* available results are skipped; so they are when no environment is available.
SkipTestResults ==
  /\ pc = "dispatch"
  /\ availableResults = {} \/ \A k \in 1..4 : ranked[k] = {}
  /\ status' = IF \E e \in available : inUse[e] \/ envStatus[e] = "New"
                 THEN status
                 ELSE WithStatus({r \in availableResults : Skippable(r)}, "SKIPPED")
  /\ Goto("none")
  /\ ForgetFetch
  /\ UNCHANGED <<environments, test_results, loopVars, pass, envVars, retried, logHandler,
                 tasks, crashed, awaits>>
-----------------------------------------------------------------------------
(* Environment and platform operations shared by main thread and workers. *)

KeptWhenBad(e) == KeepEnvironment = "always" \/ envStatus[e] = "Bad"

\* Platform.delete_environment keeps what the platform created.
Kept(e) == \/ KeepEnvironment = "always"
           \/ KeepEnvironment = "failed" /\ envStatus[e] = "Bad"

\* _delete_environment_task does not call the platform.
NothingToDelete(e) == \/ envStatus[e] = "Deleted"
                      \/ envStatus[e] = "Prepared" /\ ~inUse[e]

\* ReadyPlatform._delete_environment brings a dirty environment back.
StatusAfterFree == IF ReuseDirtyEnv THEN "Prepared" ELSE "Deleted"

\* Environment.status = New runs _reset, which makes new nodes and drops the context that
\* names the resources of the last deployment.  It leaves _is_dirty alone.
ResetToNew(e) ==
  /\ envStatus' = [envStatus EXCEPT ![e] = "New"]
  /\ isNew' = [isNew EXCEPT ![e] = TRUE]
  /\ nodeDirty' = [nodeDirty EXCEPT ![e] = FALSE]
  /\ orphaned' = orphaned \cup {x \in {e} : resources[x]}
  /\ resources' = [resources EXCEPT ![e] = FALSE]

\* What exists for e stays, because a step of its deletion raised, or because a failed
\* deployment is tried again without a deletion.
Leave(e) == left' = left \cup {x \in {e} : resources[x]}

\* What exists for e stays, as keep_environment of the runbook asks for.
Keep(e) == IF KeepEnvironment = "no" THEN UNCHANGED left ELSE Leave(e)

\* LisaRunner.close: every environment of the list is deleted.  After an exception
\* RootRunner._cleanup closes the runner too, and then some may be in use.  What
\* delete_environment raises, before or after it sets Deleted, is only logged.
CloseDeletes(e) ==
  /\ pc \in {"close", "abort"} /\ e \in toVisit
  /\ toVisit' = toVisit \ {e}
  /\ \/ /\ NothingToDelete(e)
        /\ envStatus' = [envStatus EXCEPT ![e] = "Deleted"]
        /\ UNCHANGED <<resources, left>>
     \/ /\ ~NothingToDelete(e) /\ Kept(e)
        /\ envStatus' = [envStatus EXCEPT ![e] = "Deleted"]
        /\ Keep(e) /\ UNCHANGED resources
     \/ /\ ~NothingToDelete(e) /\ ~Kept(e)
        /\ envStatus' = [envStatus EXCEPT ![e] = StatusAfterFree]
        /\ resources' = [resources EXCEPT ![e] = FALSE]
        /\ UNCHANGED left
     \/ /\ ~NothingToDelete(e) /\ ~Kept(e) /\ "free" \in Failures
        /\ envStatus' = [envStatus EXCEPT ![e] = "Deleted"]
        /\ Leave(e) /\ UNCHANGED resources
     \/ /\ ~NothingToDelete(e) /\ "cleanup" \in Failures
        /\ Leave(e) /\ UNCHANGED <<envStatus, resources>>
  /\ UNCHANGED <<pc, environments, test_results, proceeded, fetchVars, inUse, flagVars,
                 orphaned, ran, caseVars, tasks, crashed, awaits>>

\* platform.cleanup() ends the close.  If it raises, the loop of RootRunner does, and
\* _cleanup closes the runner again, where exceptions are only logged.
CloseEnds ==
  /\ pc \in {"close", "abort"} /\ toVisit = {}
  /\ \/ Goto(IF pc = "close" THEN "drain" ELSE "aborted") /\ UNCHANGED toVisit
     \/ pc = "close" /\ "close" \in Failures /\ Abort
  /\ UNCHANGED <<environments, test_results, proceeded, fetchVars, envVars, caseVars, tasks,
                 crashed, awaits>>
-----------------------------------------------------------------------------
(* Worker threads. *)

At(w, label) == tasks[w].pc = label
Move(w, label) == tasks' = [tasks EXCEPT ![w].pc = label]
Env(w) == tasks[w].env
First(w) == tasks[w].first

\* An exception leaves the task: is_in_use stays set, wait_worker will raise it.
Crash(w) == Move(w, "done") /\ crashed' = TRUE

\* _deploy_environment_task: test_result.subscribe_log(environment.log)
Subscribe(w) ==
  /\ At(w, "subscribe")
  /\ logHandler' = [logHandler EXCEPT ![First(w)] = TRUE]
  /\ Move(w, "deploy")
  /\ UNCHANGED <<mainVars, envVars, status, retried, crashed, awaits>>

\* platform.deploy_environment succeeds.
DeploySucceeds(w) ==
  /\ At(w, "deploy")
  /\ envStatus' = [envStatus EXCEPT ![Env(w)] = "Deployed"]
  /\ resources' = [resources EXCEPT ![Env(w)] = TRUE]
  /\ ran' = [ran EXCEPT ![Env(w)] = FALSE]
  /\ awaits' = [awaits EXCEPT !["deploy"] = 0]
  /\ Move(w, "unsubscribe")
  /\ UNCHANGED <<mainVars, inUse, flagVars, orphaned, left, caseVars, crashed>>

\* platform.deploy_environment raises: it sets Bad, unless a step after Deployed
\* failed; the resources created so far may exist.
DeployFails(w) ==
  /\ At(w, "deploy")
  /\ "deploy" \in Failures
  /\ \E created \in BOOLEAN, s \in {"Bad", "Deployed"} :
       /\ s = "Deployed" => created
       /\ envStatus' = [envStatus EXCEPT ![Env(w)] = s]
       /\ resources' = [resources EXCEPT ![Env(w)] = created]
  /\ ran' = [ran EXCEPT ![Env(w)] = FALSE]
  /\ Move(w, "failed")
  /\ UNCHANGED <<mainVars, inUse, flagVars, orphaned, left, caseVars, crashed, awaits>>

\* The platform raises ResourceAwaitableException.
DeployAwaits(w) ==
  /\ At(w, "deploy")
  /\ MaxAwaits > 0
  /\ envStatus' = [envStatus EXCEPT ![Env(w)] = "Bad"]
  /\ \E created \in BOOLEAN : resources' = [resources EXCEPT ![Env(w)] = created]
  /\ Move(w, "awaiting")
  /\ UNCHANGED <<mainVars, inUse, flagVars, orphaned, left, ran, caseVars, crashed, awaits>>

\* _is_awaitable_timeout sleeps and says no, or says yes.
AwaitResource(w) ==
  /\ At(w, "awaiting")
  /\ \/ /\ awaits["deploy"] < MaxAwaits
        /\ awaits' = [awaits EXCEPT !["deploy"] = @ + 1]
        /\ Leave(Env(w)) /\ ResetToNew(Env(w))
        /\ Move(w, "unsubscribe")
     \/ /\ awaits["deploy"] = MaxAwaits
        /\ Move(w, "timed_out")
        /\ UNCHANGED <<envStatus, isNew, nodeDirty, orphaned, left, resources, awaits>>
  /\ UNCHANGED <<mainVars, inUse, isDirty, triedTimes, ran, caseVars, crashed>>

TriedAgainNotCounted(e) == triedTimes
TriedAgain(e) == [triedTimes EXCEPT ![e] = @ + 1]

MayRetryOffByOne(e) == triedTimes[e] <= EnvRetry
MayRetry(e) == triedTimes[e] < EnvRetry

\* BaseRunner._need_retry
NeedRetry(w) ==
  /\ At(w, "failed") \/ At(w, "timed_out")
  /\ IF MayRetry(Env(w))
       THEN /\ triedTimes' = TriedAgain(Env(w))
            /\ Leave(Env(w)) /\ ResetToNew(Env(w))
            /\ Move(w, "unsubscribe")
       ELSE /\ Move(w, IF At(w, "failed") THEN "attach" ELSE "attach_skip")
            /\ UNCHANGED <<triedTimes, envStatus, isNew, nodeDirty, orphaned, left, resources>>
  /\ UNCHANGED <<mainVars, inUse, isDirty, ran, caseVars, crashed, awaits>>

\* _attach_failed_environment_to_result: the result is skipped, failed, or failed by
\* a bad-environment exception; after a timed out wait it is skipped.
AttachFailure(w) ==
  /\ \/ /\ At(w, "attach") \/ At(w, "attach_skip")
        /\ status' = [status EXCEPT ![First(w)] = "SKIPPED"]
        /\ UNCHANGED envStatus
     \/ /\ At(w, "attach")
        /\ status' = [status EXCEPT ![First(w)] = FailedStatus(First(w))]
        /\ UNCHANGED envStatus
     \/ /\ At(w, "attach")
        /\ status' = [status EXCEPT ![First(w)] = "FAILED"]
        /\ envStatus' = [envStatus EXCEPT ![Env(w)] = "Bad"]
  /\ Move(w, "delete")
  /\ UNCHANGED <<mainVars, inUse, flagVars, deployVars, retried, logHandler, crashed,
                 awaits>>

\* What a task does after _delete_environment_task
AfterDelete == [deploy |-> "unsubscribe", init |-> "tail", run |-> "retry",
                rerun |-> "renew", delete |-> "tail"]

\* _delete_environment_task.  Platform.delete_environment sets Deleted before it calls the
\* platform's own delete.  An exception of environment.cleanup() before that is only
\* logged, and the environment stays as it is.
DeleteEnvironment(w) ==
  /\ At(w, "delete")
  /\ \/ /\ envStatus' = [envStatus EXCEPT ![Env(w)] = "Deleted"]
        /\ IF NothingToDelete(Env(w)) \/ Kept(Env(w))
             THEN /\ Move(w, AfterDelete[tasks[w].kind])
                  /\ IF NothingToDelete(Env(w)) THEN UNCHANGED left ELSE Keep(Env(w))
             ELSE Move(w, "freeing") /\ UNCHANGED left
     \/ /\ "cleanup" \in Failures /\ ~NothingToDelete(Env(w))
        /\ Move(w, AfterDelete[tasks[w].kind])
        /\ Leave(Env(w)) /\ UNCHANGED envStatus
  /\ UNCHANGED <<mainVars, inUse, flagVars, resources, orphaned, ran, caseVars, crashed, awaits>>

\* The platform's own delete, Platform._delete_environment, frees what it created.  If it
\* raises, that is only logged too, and the status stays Deleted.
FreeResources(w) ==
  /\ At(w, "freeing")
  /\ \/ /\ resources' = [resources EXCEPT ![Env(w)] = FALSE]
        /\ envStatus' = [envStatus EXCEPT ![Env(w)] = StatusAfterFree]
        /\ UNCHANGED left
     \/ "free" \in Failures /\ Leave(Env(w)) /\ UNCHANGED <<resources, envStatus>>
  /\ Move(w, AfterDelete[tasks[w].kind])
  /\ UNCHANGED <<mainVars, inUse, flagVars, orphaned, ran, caseVars, crashed, awaits>>

\* test_result.unsubscribe_log asserts that the log file handler is set.
Unsubscribe(w) ==
  /\ At(w, "unsubscribe")
  /\ IF logHandler[First(w)] THEN Move(w, "tail") /\ UNCHANGED crashed ELSE Crash(w)
  /\ UNCHANGED <<mainVars, envVars, caseVars, awaits>>

\* _initialize_environment_task: environment.initialize() and the transformers.
InitializeSucceeds(w) ==
  /\ At(w, "init")
  /\ envStatus[Env(w)] = "Deployed"
  /\ envStatus' = [envStatus EXCEPT ![Env(w)] = "Connected"]
  /\ Move(w, "tail")
  /\ UNCHANGED <<mainVars, inUse, flagVars, deployVars, caseVars, crashed, awaits>>

InitializeFails(w) ==
  /\ At(w, "init")
  /\ "init" \in Failures \/ envStatus[Env(w)] # "Deployed"
  /\ \/ UNCHANGED envStatus
     \/ /\ envStatus[Env(w)] = "Deployed"
        /\ envStatus' = [envStatus EXCEPT ![Env(w)] = "Connected"]
  /\ Move(w, "attach")
  /\ UNCHANGED <<mainVars, inUse, flagVars, deployVars, caseVars, crashed, awaits>>

\* _run_test_task up to RUNNING.  TestSuite.start clears is_new of the environment
\* it is given, which is a copy when guests are enabled.
BeginCase(w) ==
  /\ At(w, "begin")
  /\ isDirty' = [isDirty EXCEPT ![Env(w)] = @ \/ envStatus[Env(w)] = "Deployed"]
  /\ isNew' = IF GuestEnabled THEN isNew ELSE [isNew EXCEPT ![Env(w)] = FALSE]
  /\ ran' = [ran EXCEPT ![Env(w)] = TRUE]
  /\ logHandler' = [logHandler EXCEPT ![First(w)] = TRUE]
  /\ status' = [status EXCEPT ![First(w)] = "RUNNING"]
  /\ Move(w, "case")
  /\ UNCHANGED <<mainVars, envStatus, inUse, nodeDirty, triedTimes, resources, orphaned, left,
                 retried, crashed, awaits>>

\* TestSuite.__before_case and __run_case: the test decides, and may mark a node as dirty
\* (with guests enabled, one of a guest).
RunCase(w) ==
  /\ At(w, "case")
  /\ \/ /\ \E s \in {"PASSED", "SKIPPED"} \cup
                    (IF "test" \in Failures THEN {FailedStatus(First(w))} ELSE {}) :
             status' = [status EXCEPT ![First(w)] = s]
        /\ UNCHANGED envStatus
     \/ /\ "test" \in Failures
        /\ status' = [status EXCEPT ![First(w)] = "FAILED"]
        /\ envStatus' = IF GuestEnabled THEN envStatus
                        ELSE [envStatus EXCEPT ![Env(w)] = "Bad"]
  /\ \/ UNCHANGED nodeDirty
     \/ /\ First(w) \in DirtiesNode /\ ~GuestEnabled
        /\ nodeDirty' = [nodeDirty EXCEPT ![Env(w)] = TRUE]
  /\ Move(w, "close")
  /\ UNCHANGED <<mainVars, inUse, isNew, isDirty, triedTimes, deployVars, retried, logHandler,
                 crashed, awaits>>

\* unsubscribe_log, with its assertion, and close_log_file_handler.
CloseCaseLog(w) ==
  /\ At(w, "close")
  /\ IF logHandler[First(w)]
       THEN /\ logHandler' = [logHandler EXCEPT ![First(w)] = FALSE]
            /\ Move(w, "check")
            /\ UNCHANGED crashed
       ELSE Crash(w) /\ UNCHANGED logHandler
  /\ UNCHANGED <<mainVars, envVars, status, retried, awaits>>

KeptOnFailureNever(s) == FALSE
\* "keep failed environment, not to delete"
KeptOnFailure(s) == s = "FAILED" /\ KeepEnvironment = "failed"

\* Environment.is_dirty
IsDirty(e) == isDirty[e] \/ nodeDirty[e]

DeletedAfterCaseIfBad(e, s) == s = "Bad"
\* "it's in Bad status or marked as dirty"
DeletedAfterCase(e, s) == s = "Bad" \/ IsDirty(e)

\* test_connections may find the nodes lost, and then a kernel panic.  A failed
\* environment may be kept; a bad or dirty one is deleted.
CheckConnections(w) ==
  /\ At(w, "check")
  /\ \E lost \in BOOLEAN, panic \in BOOLEAN :
       /\ lost => "connection" \in Failures
       /\ panic => lost
       /\ LET s     == IF panic THEN "FAILED" ELSE status[First(w)]
              found == IF lost THEN "Bad" ELSE envStatus[Env(w)]
              after == IF KeptOnFailure(s) THEN "Deleted" ELSE found
          IN  /\ status' = [status EXCEPT ![First(w)] = s]
              /\ envStatus' = [envStatus EXCEPT ![Env(w)] = after]
              /\ IF KeptOnFailure(s) THEN Keep(Env(w)) ELSE UNCHANGED left
              /\ Move(w, IF DeletedAfterCase(Env(w), after) THEN "delete" ELSE "retry")
  /\ UNCHANGED <<mainVars, inUse, flagVars, resources, orphaned, ran, retried, logHandler,
                 crashed, awaits>>

RetryWithoutDelete(w) ==
  /\ At(w, "retry")
  /\ IF status[First(w)] \notin {"PASSED", "SKIPPED"} /\ retried[First(w)] < CaseRetry[First(w)]
       THEN tasks' = [tasks EXCEPT ![w].kind = "rerun", ![w].pc = "renew"]
       ELSE Move(w, "tail")
  /\ UNCHANGED <<mainVars, envVars, caseVars, crashed, awaits>>

\* A result that neither passed nor was skipped is retried on a fresh environment.
RetryCase(w) ==
  /\ At(w, "retry")
  /\ IF status[First(w)] \notin {"PASSED", "SKIPPED"} /\ retried[First(w)] < CaseRetry[First(w)]
       THEN tasks' = [tasks EXCEPT ![w].kind = "rerun", ![w].pc = "delete"]
       ELSE Move(w, "tail")
  /\ UNCHANGED <<mainVars, envVars, caseVars, crashed, awaits>>

\* The environment is new before its result is queued again.
RenewEnvironment(w) ==
  /\ At(w, "renew")
  /\ ResetToNew(Env(w))
  /\ Move(w, "requeue")
  /\ UNCHANGED <<mainVars, inUse, isDirty, triedTimes, left, ran, caseVars, crashed, awaits>>

RequeueCase(w) ==
  /\ At(w, "requeue")
  /\ retried' = [retried EXCEPT ![First(w)] = @ + 1]
  /\ status' = [status EXCEPT ![First(w)] = "QUEUED"]
  /\ Move(w, "tail")
  /\ UNCHANGED <<mainVars, envVars, logHandler, crashed, awaits>>

ReleaseBeforeReturn(w) ==
  /\ At(w, "tail")
  /\ inUse' = [inUse EXCEPT ![Env(w)] = FALSE]
  /\ status' = WithStatus({r \in tasks[w].results : status[r] = "ASSIGNED"}, "QUEUED")
  /\ Move(w, "release")
  /\ UNCHANGED <<mainVars, envStatus, flagVars, deployVars, retried, logHandler, crashed, awaits>>

\* _run_task, after the task method: assigned results that did not run are returned.
ReturnAssigned(w) ==
  /\ At(w, "tail")
  /\ status' = WithStatus({r \in tasks[w].results : status[r] = "ASSIGNED"}, "QUEUED")
  /\ Move(w, "release")
  /\ UNCHANGED <<mainVars, envVars, retried, logHandler, crashed, awaits>>

NeverReleased(w) ==
  /\ At(w, "release")
  /\ Move(w, "done")
  /\ UNCHANGED <<mainVars, envVars, caseVars, crashed, awaits>>

ReleaseEnvironment(w) ==
  /\ At(w, "release")
  /\ inUse' = [inUse EXCEPT ![Env(w)] = FALSE]
  /\ Move(w, "done")
  /\ UNCHANGED <<mainVars, envStatus, flagVars, deployVars, caseVars, crashed, awaits>>

-----------------------------------------------------------------------------
MainStep ==
  \/ WaitWorker \/ RunnerIsDone \/ LeaveSubmitLoop \/ FetchTask \/ Drain
  \/ \E e \in Envs : PrepareProceeds(e) \/ PrepareFails(e)
  \/ PrepareEnds
  \/ ShouldEarlyStop \/ CleanupDeletedEnvironments \/ CleanupDoneResults
  \/ SortEnvironments \/ DeleteUnusedEnvironments
  \/ \E e \in Envs : VisitEnvironment(e) \/ DispatchTestResult(e)
  \/ SkipTestResults
  \/ \E e \in Envs : CloseDeletes(e)
  \/ CloseEnds

WorkerStep(w) ==
  \/ Subscribe(w) \/ DeploySucceeds(w) \/ DeployFails(w) \/ DeployAwaits(w)
  \/ AwaitResource(w) \/ NeedRetry(w) \/ AttachFailure(w)
  \/ DeleteEnvironment(w) \/ FreeResources(w) \/ Unsubscribe(w)
  \/ InitializeSucceeds(w) \/ InitializeFails(w)
  \/ BeginCase(w) \/ RunCase(w) \/ CloseCaseLog(w) \/ CheckConnections(w)
  \/ RetryCase(w) \/ RenewEnvironment(w) \/ RequeueCase(w)
  \/ ReturnAssigned(w) \/ ReleaseEnvironment(w)

\* The process has nothing left to do.
Terminated ==
  /\ pc \in {"finished", "aborted"}
  /\ \A w \in Workers : ~Busy(w)
  /\ UNCHANGED vars

Next == MainStep \/ (\E w \in Workers : WorkerStep(w)) \/ Terminated

Spec == Init /\ [][Next]_vars

\* The loop of the main thread never stops by itself, and every external call a
\* task makes is bounded by a timeout: a thread that can step does.
FairSpec == Spec /\ WF_vars(MainStep) /\ \A w \in Workers : WF_vars(WorkerStep(w))
-----------------------------------------------------------------------------
(* Properties. *)

Tasks == [pc : TaskSteps, kind : TaskKinds, env : Envs \cup {None},
          first : Results \cup {None}, results : SUBSET Results]

\* Every field has its type, and a busy worker has the environment, and the result,
\* that the step it is at works on.
TypeOK ==
  /\ pc \in {"submit", "none", "wait", "drain", "prepare", "early", "cleanup_envs",
             "cleanup_results", "sort", "delete_unused", "dispatch", "close", "abort", "finished",
             "aborted"}
  /\ environments \in SUBSET Envs /\ test_results \in SUBSET Results
  /\ toVisit \in SUBSET Envs /\ proceeded \in SUBSET Envs
  /\ pass \in 1..4 /\ ranked \in [1..4 -> SUBSET Envs]
  /\ available \in SUBSET Envs /\ availableResults \in SUBSET Results
  /\ envStatus \in [Envs -> EnvironmentStatus]
  /\ inUse \in [Envs -> BOOLEAN] /\ isNew \in [Envs -> BOOLEAN] /\ isDirty \in [Envs -> BOOLEAN]
  /\ nodeDirty \in [Envs -> BOOLEAN] /\ left \in SUBSET Envs
  /\ triedTimes \in [Envs -> 0..EnvRetry]
  /\ resources \in [Envs -> BOOLEAN] /\ orphaned \in SUBSET Envs /\ ran \in [Envs -> BOOLEAN]
  /\ status \in [Results -> TestStatus]
  /\ retried \in [Results -> Nat]
  /\ logHandler \in [Results -> BOOLEAN]
  /\ tasks \in [Workers -> Tasks]
  /\ \A w \in Workers : Busy(w) =>
       /\ tasks[w].env \in Envs
       /\ tasks[w].kind # "delete" => tasks[w].first \in Results
       /\ tasks[w].kind = "delete" => tasks[w].pc \in {"delete", "freeing", "tail", "release"}
  /\ crashed \in BOOLEAN
  /\ awaits \in [{"prepare", "deploy"} -> 0..MaxAwaits]

\* _generate_task and _run_task assert is_in_use; together they must make a task the
\* only user of its environment, from its generation to its last statement.
EnvironmentExclusive ==
  \A w \in Workers : Busy(w) =>
    /\ inUse[Env(w)]
    /\ \A v \in Workers : Busy(v) /\ Env(v) = Env(w) => v = w

\* A test only executes on an environment that is deployed and not being deleted, as
\* long as the run is not aborted.
RunsOnLiveEnvironment ==
  pc \notin {"abort", "aborted"} =>
    \A w \in Workers : At(w, "case") =>
      /\ resources[Env(w)]
      /\ envStatus[Env(w)] = IF First(w) \in NeedsDeployed THEN "Deployed" ELSE "Connected"

\* A task that may still write the status of its results.
Holds(w, r) == Busy(w) /\ ~At(w, "release") /\ r \in tasks[w].results

\* A test result is in the hands of one worker at a time.
ResultOwnedOnce ==
  \A v, w \in Workers, r \in Results : Holds(v, r) /\ Holds(w, r) => v = w

\* RootRunner.start raises when it finds a queued result after a run that ended
\* normally: when the loop ends, every result has a final status.
FinishedMeansCompleted ==
  pc = "finished" => \A r \in Results : status[r] \in Completed

\* When a run ends normally, what the platform created is deleted, unless
\* keep_environment says otherwise, a deletion raised (which is only logged), or a failed
\* deployment was tried again.
NothingLeaked ==
  pc = "finished" => \A e \in Envs : resources[e] \/ e \in orphaned => e \in left

\* Both: a run that ends normally is complete.
EndsComplete == FinishedMeansCompleted /\ NothingLeaked

\* No deployment starts on top of one that still exists, under its old name or after a
\* retry gave the environment a new one: what still exists was left by keep_environment,
\* by a deletion that raised, or by a failed deployment that is tried again.
NoDoubleDeployment ==
  \A w \in Workers : At(w, "deploy") =>
    ~resources[Env(w)] /\ (Env(w) \in orphaned => Env(w) \in left)

\* A case that asks for a new environment starts on one where no test ran since it
\* was deployed.
NewEnvironmentIsNew ==
  [][\A w \in Workers : At(w, "begin") /\ ~At(w, "begin")' /\ First(w) \in UseNew
        => ~ran[Env(w)]]_vars

\* The verdict of a test that ran, or of a deployment that failed, is only replaced by
\* a retry of the same case, or by the kernel panic found right after it.
VerdictIsFinal ==
  [][\A r \in Results : status[r] \in {"PASSED", "FAILED", "ATTEMPTED"} /\ status'[r] # status[r] =>
       \/ status'[r] = "QUEUED" /\ retried'[r] = retried[r] + 1
       \/ \E w \in Workers : At(w, "check") /\ First(w) = r /\ status'[r] = "FAILED"]_vars

\* An environment that a test used before it was initialized is "dirty to prevent it
\* run other test cases", and so is one with a node that a test marked.
DirtyEnvironmentNotReused ==
  [][\A w \in Workers : At(w, "begin") /\ ~At(w, "begin")' => ~IsDirty(Env(w))]_vars

\* With keep_environment "failed", the environment of a failed test is not freed.
FailedEnvironmentKept ==
  [][\A w \in Workers :
       /\ KeepEnvironment = "failed" /\ tasks[w].kind \in {"run", "rerun"}
       /\ At(w, "freeing") /\ ~At(w, "freeing")'
       => status[First(w)] # "FAILED"]_vars

(* The promise of TestRun.  An environment is its task's until the task ends; a test
   is open while it is queued or assigned. *)

user == [e \in Envs |-> IF \E w \in Workers : Busy(w) /\ Env(w) = e
                         THEN CHOOSE w \in Workers : Busy(w) /\ Env(w) = e ELSE None]

test == [r \in Results |-> IF CanRun(r) THEN "open"
                           ELSE IF status[r] = "RUNNING" THEN CHOOSE w \in Workers : At(w, "case") /\ First(w) = r
                           ELSE "closed"]

Promise == INSTANCE TestRun WITH Nobody <- None, tries <- retried

\* fetch_task, the task methods and _run_task, interleaved as they are, keep the promise,
\* for environments of the runbook and without exit_on_first_failure.
KeepsPromise == Promise!Spec

\* The run ends: the loop does not spin or block for ever.
Terminates == <>(pc \in {"finished", "aborted"})
=============================================================================
