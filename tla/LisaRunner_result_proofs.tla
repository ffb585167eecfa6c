----------------------- MODULE LisaRunner_result_proofs -----------------------
(***************************************************************************)
(* Theorems about the results of LisaRunner: a verdict is final, a failed  *)
(* environment is kept, and the scheduler implements TestRun.              *)
(*                                                                         *)
(* They are about environments of the runbook and cases without retries,   *)
(* like ResultExclusion, on which all of them rest: only then is a result  *)
(* in one pair of hands.                                                   *)
(***************************************************************************)
EXTENDS LisaRunner_env_proofs

\* A task holds the result it works on.
FirstIsHeld ==
  \A w \in Workers : Busy(w) /\ tasks[w].kind # "delete" => tasks[w].first \in tasks[w].results

\* A task that runs a test neither deploys nor initializes.
RunSteps == {"begin", "case", "close", "check", "delete", "freeing", "retry", "tail", "release"}

RunStaysRun == \A w \in Workers : Busy(w) /\ tasks[w].kind = "run" => tasks[w].pc \in RunSteps

\* The steps of a task before it gives its result a verdict.
BeforeVerdict == {"subscribe", "deploy", "awaiting", "timed_out", "failed", "attach",
                  "attach_skip", "init", "begin", "case"}

\* A task that has not come to a verdict finds none.
NoVerdictYet ==
  \A w \in Workers : tasks[w].pc \in BeforeVerdict =>
    status[tasks[w].first] \notin {"PASSED", "FAILED", "ATTEMPTED"}

\* With keep_environment "failed", a task that failed has closed its environment.
KeptIfFailed(w) ==
  tasks[w].kind = "run" /\ status[tasks[w].first] = "FAILED" =>
    /\ tasks[w].pc # "freeing"
    /\ tasks[w].pc = "delete" => envStatus[tasks[w].env] = "Deleted"

FailedIsKept == KeepEnvironment = "failed" => \A w \in Workers : KeptIfFailed(w)

VerdictInv == FirstIsHeld /\ RunStaysRun /\ NoVerdictYet /\ FailedIsKept

\* What the scheduler offers an environment of the runbook, and gives to a task, is queued
\* and not skipped on the way.
LEMMA DispatchedIsQueued ==
  ASSUME TypeOK, NEW e \in Envs, IsPredefined(e), NEW rs \in EnvironmentResults(e),
         NEW t \in Dispatch(e, rs)
  PROVE  \A r \in t[3] : status[r] = "QUEUED" /\ r \notin OsSkippedByDispatch(e)
<1>1. rs \in SUBSET Results /\ \A r \in rs : status[r] = "QUEUED"
  BY EnvironmentResultsType, OfferedIsQueued
<1>2. t[3] \subseteq rs
  BY <1>1, DispatchType
<1>3. CASE envStatus[e] = "Connected"
  <2>1. PICK r \in Preferred(Runnable(e, rs) \ NeedsDeployed) : t = <<"run", r, {r}>>
    BY <1>3 DEF Dispatch
  <2>2. t[3] = {r} /\ r \in Runnable(e, rs)
    BY <2>1 DEF Preferred
  <2>3. r \notin OsSkipped(e, rs) /\ r \in rs
    BY <2>2 DEF Runnable
  <2>4. r \notin OsSkippedByDispatch(e)
    BY <2>3 DEF OsSkippedByDispatch, OsSkipped
  <2> QED
    BY <1>1, <2>2, <2>3, <2>4
<1>4. CASE envStatus[e] # "Connected"
  BY <1>1, <1>2, <1>4 DEF OsSkippedByDispatch, OsSkipped
<1> QED
  BY <1>3, <1>4

\* The results of a new task were queued and are assigned.
LEMMA NewTaskAssigned ==
  ASSUME IInv, LiveInv, MainStep, \A e \in Envs : IsPredefined(e),
         NEW w \in Workers, ~Busy(w), tasks'[w].pc \notin {"idle", "done"}
  PROVE  \A r \in tasks'[w].results :
           r \in Results => status[r] = "QUEUED" /\ status'[r] = "ASSIGNED"
<1>1. ASSUME NEW e \in Envs, DispatchTestResult(e)
      PROVE  \A r \in tasks'[w].results :
               r \in Results => status[r] = "QUEUED" /\ status'[r] = "ASSIGNED"
  <2>1. PICK rs \in EnvironmentResults(e) : \E t \in Dispatch(e, rs) :
          GenerateTask(t[1], e, t[2], t[3], WithStatus(OsSkippedByDispatch(e), "SKIPPED"))
    BY <1>1 DEF DispatchTestResult
  <2>2. PICK t \in Dispatch(e, rs) :
          GenerateTask(t[1], e, t[2], t[3], WithStatus(OsSkippedByDispatch(e), "SKIPPED"))
    BY <2>1
  <2>3. t[1] \in {"deploy", "init", "run"}
    BY EnvironmentResultsType, DispatchType DEF IInv
  <2>4. PICK v \in Workers :
           /\ ~Busy(v) /\ tasks'[v].results = t[3]
           /\ \A u \in Workers \ {v} : tasks'[u] = IF Busy(u) THEN tasks[u] ELSE Idle
    BY <2>2, <2>3, GenerateFacts
  <2>5. v = w
    BY <2>4 DEF Idle
  <2>6. \A r \in t[3] : status[r] = "QUEUED" /\ r \notin OsSkippedByDispatch(e)
    BY DispatchedIsQueued DEF IInv
  <2>7. status' = Assigned(t[3], WithStatus(OsSkippedByDispatch(e), "SKIPPED"))
    BY <2>2 DEF GenerateTask
  <2> QED
    BY <2>4, <2>5, <2>6, <2>7 DEF Assigned, WithStatus
<1>2. CASE DeleteUnusedEnvironments
  <2> DEFINE idle      == {e \in environments : DeployedNotInUse(e)}
             deletable == {e \in idle : Runnable(e, test_results) = {}}
  <2>1. CASE UNCHANGED tasks
    BY <2>1 DEF Busy
  <2>2. ASSUME NEW e, NEW s, GenerateTask("delete", e, None, {}, s)
        PROVE  tasks'[w].results = {}
    <3>1. PICK v \in Workers :
             /\ ~Busy(v) /\ tasks'[v].results = {}
             /\ \A u \in Workers \ {v} : tasks'[u] = IF Busy(u) THEN tasks[u] ELSE Idle
      BY <2>2, GenerateFacts
    <3> QED
      BY <3>1 DEF Idle
  <2> QED
    BY <1>2, <2>1, <2>2 DEF DeleteUnusedEnvironments
<1>3. CASE tasks' = tasks \/ tasks' = Reaped
  BY <1>3, ReapedFacts DEF Busy
<1> QED
  BY <1>1, <1>2, <1>3 DEF MainStep, WaitWorker, RunnerIsDone, LeaveSubmitLoop, FetchTask, Drain,
     PrepareProceeds, PrepareFails, PrepareEnds, ShouldEarlyStop, CleanupDeletedEnvironments,
     CleanupDoneResults, SortEnvironments, VisitEnvironment, SkipTestResults, CloseDeletes,
     CloseEnds

\* A step of the main thread leaves a running task alone, or gives a free worker a task whose
\* results are its own.
LEMMA MainTask ==
  ASSUME IInv, LiveInv, MainStep, \A e \in Envs : IsPredefined(e), NEW w \in Workers
  PROVE  \/ Busy(w) /\ tasks'[w] = tasks[w]
         \/ ~Busy(w) /\ tasks'[w].pc \in {"idle", "done"}
         \/ /\ tasks'[w].kind \in {"deploy", "init", "run", "delete"}
            /\ tasks'[w].pc = FirstStep[tasks'[w].kind]
            /\ tasks'[w].kind # "delete" => /\ tasks'[w].first \in tasks'[w].results
                                            /\ tasks'[w].first \in Results
                                            /\ status'[tasks'[w].first] = "ASSIGNED"
            /\ pc' = "submit"
<1>1. CASE tasks' = tasks \/ tasks' = Reaped
  BY <1>1, ReapedFacts DEF Busy
<1>2. CASE SomeTaskGiven
  <2>1. PICK v \in Workers, kind \in {"deploy", "init", "run", "delete"}, e \in environments,
            first \in Results \cup {None}, rs \in SUBSET Results :
            TaskGiven(v, kind, e, first, rs)
    BY <1>2 DEF SomeTaskGiven
  <2>2. CASE w # v
    BY <2>1, <2>2 DEF TaskGiven, Idle
  <2>3. CASE w = v
    <3>1. /\ tasks'[w].kind = kind /\ tasks'[w].pc = FirstStep[kind] /\ ~Busy(w)
          /\ tasks'[w].first = first /\ tasks'[w].results = rs /\ pc' = "submit"
          /\ kind # "delete" => first \in rs
      BY <2>1, <2>3 DEF TaskGiven
    <3>2. FirstStep[kind] \in {"subscribe", "init", "begin", "delete"}
      BY DEF FirstStep
    <3>3. \A r \in rs : status'[r] = "ASSIGNED"
      BY <3>1, <3>2, NewTaskAssigned
    <3> QED
      BY <3>1, <3>3
  <2> QED
    BY <2>2, <2>3
<1> QED
  BY <1>1, <1>2, MainEffects

\* The main thread gives no verdict on a result in the hands of a worker.
LEMMA MainStepKeepsVerdict ==
  ASSUME IInv, LiveInv, ResultInv, VerdictInv, MainStep, \A e \in Envs : IsPredefined(e)
  PROVE  VerdictInv'
<1>0. (\A e \in Envs : MainEnvironment(e)) /\ (\A r \in Results : MainResult(r))
  BY MainEffects
<1>1. \A w \in Workers : Busy(w) /\ tasks[w].kind # "delete" /\ tasks[w].pc # "release" =>
        /\ tasks[w].first \in Results
        /\ status[tasks[w].first] # "QUEUED"
  BY DEF ResultInv, HeldNotQueued, Holds, At, VerdictInv, FirstIsHeld, IInv, TypeOK
<1>2. \A w \in Workers : Busy(w) /\ tasks[w].kind # "delete" /\ tasks[w].pc # "release" =>
        status'[tasks[w].first] \in {status[tasks[w].first], "SKIPPED"}
  BY <1>0, <1>1 DEF MainResult
<1>3. FirstStep["deploy"] = "subscribe" /\ FirstStep["init"] = "init"
      /\ FirstStep["run"] = "begin" /\ FirstStep["delete"] = "delete"
  BY DEF FirstStep
<1>4. FirstIsHeld'
  <2> SUFFICES ASSUME NEW w \in Workers, tasks'[w].pc \notin {"idle", "done"},
                      tasks'[w].kind # "delete"
               PROVE  tasks'[w].first \in tasks'[w].results
    BY DEF FirstIsHeld, Busy
  <2> QED
    BY MainTask DEF VerdictInv, FirstIsHeld, Busy
<1>5. RunStaysRun'
  <2> SUFFICES ASSUME NEW w \in Workers, tasks'[w].pc \notin {"idle", "done"},
                      tasks'[w].kind = "run"
               PROVE  tasks'[w].pc \in RunSteps
    BY DEF RunStaysRun, Busy
  <2> QED
    BY <1>3, MainTask DEF VerdictInv, RunStaysRun, RunSteps, Busy
<1>6. NoVerdictYet'
  <2> SUFFICES ASSUME NEW w \in Workers, tasks'[w].pc \in BeforeVerdict
               PROVE  status'[tasks'[w].first] \notin {"PASSED", "FAILED", "ATTEMPTED"}
    BY DEF NoVerdictYet
  <2>1. CASE Busy(w) /\ tasks'[w] = tasks[w]
    <3>1. tasks[w].kind # "delete" /\ tasks[w].pc # "release"
      BY <2>1 DEF BeforeVerdict, IInv, TypeOK
    <3> QED
      BY <2>1, <3>1, <1>2 DEF VerdictInv, NoVerdictYet
  <2> QED
    BY <2>1, <1>3, MainTask DEF BeforeVerdict
<1>7. FailedIsKept'
  <2> SUFFICES ASSUME NEW w \in Workers, KeepEnvironment = "failed", tasks'[w].kind = "run",
                      status'[tasks'[w].first] = "FAILED", tasks'[w].pc \in {"delete", "freeing"}
               PROVE  tasks'[w].pc # "freeing" /\ envStatus'[tasks'[w].env] = "Deleted"
    BY DEF FailedIsKept, KeptIfFailed
  <2>1. Busy(w) /\ tasks'[w] = tasks[w]
    BY <1>3, MainTask
  <2>2. status[tasks[w].first] = "FAILED" /\ tasks[w].env \in Envs
    BY <2>1, <1>2 DEF IInv, TypeOK
  <2>3. tasks[w].pc # "freeing" /\ envStatus[tasks[w].env] = "Deleted"
    BY <2>1, <2>2 DEF VerdictInv, FailedIsKept, KeptIfFailed
  <2> QED
    BY <2>1, <2>2, <2>3, <1>0 DEF MainEnvironment, NothingToDelete
<1> QED
  BY <1>4, <1>5, <1>6, <1>7 DEF VerdictInv

\* What a worker makes of its result.
OwnVerdict(w) ==
  /\ tasks'[w].pc \in BeforeVerdict => tasks[w].pc \in BeforeVerdict \ {"attach", "attach_skip", "case"}
  /\ tasks'[w].pc = "case" => status'[tasks[w].first] = "RUNNING"
  /\ tasks'[w].pc = "close" => status'[tasks[w].first] \in Completed
  /\ tasks'[w].pc = "check" => tasks[w].pc = "close" /\ status' = status
  /\ tasks[w].kind = "run" => tasks'[w].pc \in RunSteps \cup {"done"}
  /\ KeepEnvironment = "failed" => KeptIfFailed(w)'
  /\ tasks[w].pc = "begin" => tasks'[w].pc = "case"
  /\ tasks'[w].pc \in {"idle", "done"} => status' = status
  /\ retried' = retried

\* Every step of a worker is such a step.
LEMMA WorkerVerdict ==
  ASSUME IInv, NoRerun, VerdictInv, NEW w \in Workers, WorkerStep(w),
         \A r \in Results : CaseRetry[r] = 0
  PROVE  OwnVerdict(w)
<1>0. OwnStep(w) /\ tasks'[w].kind = tasks[w].kind
  BY WorkerFrame, WorkerStepKeepsKind
<1>01. /\ tasks[w].env \in Envs /\ tasks[w].kind \in TaskKinds /\ tasks[w].kind # "rerun"
       /\ tasks[w].pc \notin {"idle", "done", "renew", "requeue"}
       /\ tasks[w].kind # "delete" => tasks[w].first \in Results
       /\ tasks[w].kind = "delete" => tasks[w].pc \in {"delete", "freeing", "tail", "release"}
       /\ tasks[w].kind = "run" => tasks[w].pc \in RunSteps
       /\ KeepEnvironment = "failed" => KeptIfFailed(w)
       /\ envStatus \in [Envs -> EnvironmentStatus] /\ status \in [Results -> TestStatus]
       /\ retried \in [Results -> Nat]
       /\ tasks'[w].env = tasks[w].env /\ tasks'[w].first = tasks[w].first
       /\ tasks'[w].kind = tasks[w].kind
  BY <1>0 DEF OwnStep, OwnTaskOnly, IInv, TypeOK, Tasks, NoRerun, Busy, VerdictInv, RunStaysRun,
              FailedIsKept
<1>02. /\ tasks[w].kind = "run" => AfterDelete[tasks[w].kind] = "retry"
       /\ tasks[w].kind # "run" => AfterDelete[tasks[w].kind] \in {"unsubscribe", "tail"}
  BY <1>01 DEF AfterDelete, TaskKinds
<1> USE DEF At, Env, First, Crash, OwnVerdict, BeforeVerdict, RunSteps, KeptIfFailed, Completed,
            vars, envVars, caseVars
<1>1. CASE Subscribe(w)
  BY <1>1, <1>01, MoveFacts DEF Subscribe
<1>2. CASE DeploySucceeds(w)
  BY <1>2, <1>01, MoveFacts DEF DeploySucceeds
<1>3. CASE DeployFails(w)
  BY <1>3, <1>01, MoveFacts DEF DeployFails
<1>4. CASE DeployAwaits(w)
  BY <1>4, <1>01, MoveFacts DEF DeployAwaits
<1>5. CASE AwaitResource(w)
  BY <1>5, <1>01, MoveFacts DEF AwaitResource
<1>6. CASE NeedRetry(w)
  BY <1>6, <1>01, MoveFacts DEF NeedRetry
<1>7. CASE AttachFailure(w)
  BY <1>7, <1>01, MoveFacts DEF AttachFailure
<1>8. CASE DeleteEnvironment(w)
  BY <1>8, <1>01, <1>02, MoveFacts DEF DeleteEnvironment, NothingToDelete
<1>9. CASE FreeResources(w)
  BY <1>9, <1>01, <1>02, MoveFacts DEF FreeResources
<1>10. CASE Unsubscribe(w)
  BY <1>10, <1>01, MoveFacts DEF Unsubscribe
<1>11. CASE InitializeSucceeds(w)
  BY <1>11, <1>01, MoveFacts DEF InitializeSucceeds
<1>12. CASE InitializeFails(w)
  BY <1>12, <1>01, MoveFacts DEF InitializeFails
<1>13. CASE BeginCase(w)
  BY <1>13, <1>01, MoveFacts DEF BeginCase
<1>14. CASE RunCase(w)
  BY <1>14, <1>01, MoveFacts DEF RunCase, FailedStatus
<1>15. CASE CloseCaseLog(w)
  BY <1>15, <1>01, MoveFacts DEF CloseCaseLog
<1>16. CASE CheckConnections(w)
  BY <1>16, <1>01, MoveFacts DEF CheckConnections, KeptOnFailure
<1>17. CASE RetryCase(w)
  <2>1. ~(retried[First(w)] < CaseRetry[First(w)])
    BY <1>17, <1>01 DEF RetryCase
  <2>2. tasks'[w].pc = "tail"
    BY <1>17, <2>1, MoveFacts DEF RetryCase
  <2> QED
    BY <1>17, <2>2, <1>01 DEF RetryCase
<1>18. CASE RenewEnvironment(w)
  BY <1>18, <1>01 DEF RenewEnvironment
<1>19. CASE RequeueCase(w)
  BY <1>19, <1>01 DEF RequeueCase
<1>20. CASE ReturnAssigned(w)
  BY <1>20, <1>01, MoveFacts DEF ReturnAssigned
<1>21. CASE ReleaseEnvironment(w)
  BY <1>21, <1>01, MoveFacts DEF ReleaseEnvironment
<1> QED
  BY <1>1, <1>2, <1>3, <1>4, <1>5, <1>6, <1>7, <1>8, <1>9, <1>10, <1>11, <1>12,
     <1>13, <1>14, <1>15, <1>16, <1>17, <1>18, <1>19, <1>20, <1>21 DEF WorkerStep

\* A worker gives a verdict only on the result it holds.
LEMMA WorkerStepKeepsVerdict ==
  ASSUME IInv, ResultInv, VerdictInv, NEW w \in Workers, WorkerStep(w),
         \A r \in Results : CaseRetry[r] = 0
  PROVE  VerdictInv'
<1>0. NoRerun
  BY DEF ResultInv
<1>1. /\ OwnStep(w) /\ OwnVerdict(w) /\ tasks'[w].kind = tasks[w].kind
      /\ \A r \in Results : OwnResult(w, r)
  BY <1>0, WorkerFrame, WorkerStepKeepsKind, WorkerVerdict
<1>2. /\ tasks'[w].env = tasks[w].env /\ tasks'[w].first = tasks[w].first
      /\ tasks'[w].results = tasks[w].results
      /\ \A v \in Workers \ {w} : tasks'[v] = tasks[v]
  BY <1>1 DEF OwnStep, OwnTaskOnly
<1>3. FirstIsHeld'
  BY <1>1, <1>2 DEF OwnStep, VerdictInv, FirstIsHeld, Busy
<1>4. RunStaysRun'
  BY <1>1, <1>2 DEF OwnVerdict, RunSteps, VerdictInv, RunStaysRun, Busy
<1>5. \A v \in Workers \ {w} :
        Busy(v) /\ tasks[v].pc # "release" /\ tasks[v].kind # "delete" =>
          /\ tasks[v].first \in Results
          /\ status'[tasks[v].first] # status[tasks[v].first] => status'[tasks[v].first] = "QUEUED"
  <2> SUFFICES ASSUME NEW v \in Workers \ {w}, Busy(v), tasks[v].pc # "release",
                      tasks[v].kind # "delete"
               PROVE  /\ tasks[v].first \in Results
                      /\ status'[tasks[v].first] # status[tasks[v].first] =>
                           status'[tasks[v].first] = "QUEUED"
    OBVIOUS
  <2>1. tasks[v].first \in Results /\ Holds(v, tasks[v].first)
    BY DEF IInv, TypeOK, VerdictInv, FirstIsHeld, Holds, At
  <2>2. tasks[w].pc \in {"attach", "attach_skip", "case", "check", "begin"} => tasks[v].first # tasks[w].first
    <3> SUFFICES ASSUME tasks[w].pc \in {"attach", "attach_skip", "case", "check", "begin"},
                        tasks[v].first = tasks[w].first
                 PROVE  FALSE
      OBVIOUS
    <3>1. Busy(w) /\ tasks[w].kind # "delete" /\ tasks[w].pc # "release"
      BY DEF Busy, IInv, TypeOK
    <3>2. Holds(w, tasks[v].first)
      BY <3>1 DEF VerdictInv, FirstIsHeld, Holds, At
    <3> QED
      BY <2>1, <3>2 DEF ResultInv, ResultOwnedOnce
  <2> QED
    BY <1>1, <2>1, <2>2 DEF OwnResult
<1>6. NoVerdictYet'
  <2> SUFFICES ASSUME NEW v \in Workers, tasks'[v].pc \in BeforeVerdict
               PROVE  status'[tasks'[v].first] \notin {"PASSED", "FAILED", "ATTEMPTED"}
    BY DEF NoVerdictYet
  <2>1. CASE v # w
    <3>1. Busy(v) /\ tasks[v].kind # "delete" /\ tasks[v].pc # "release" /\ tasks'[v] = tasks[v]
      BY <2>1, <1>2 DEF BeforeVerdict, Busy, IInv, TypeOK
    <3> QED
      BY <2>1, <3>1, <1>5 DEF VerdictInv, NoVerdictYet
  <2>2. CASE v = w
    <3>1. tasks[w].pc \in BeforeVerdict \ {"attach", "attach_skip", "case"}
      BY <2>2, <1>1 DEF OwnVerdict
    <3>2. tasks[w].first \in Results
      BY <3>1 DEF BeforeVerdict, IInv, TypeOK, Busy
    <3>3. status[tasks[w].first] \notin {"PASSED", "FAILED", "ATTEMPTED"}
      BY <3>1 DEF VerdictInv, NoVerdictYet
    <3> QED
      BY <2>2, <3>1, <3>2, <3>3, <1>1, <1>2 DEF OwnResult, BeforeVerdict
  <2> QED
    BY <2>1, <2>2
<1>7. FailedIsKept'
  <2> SUFFICES ASSUME KeepEnvironment = "failed", NEW v \in Workers PROVE KeptIfFailed(v)'
    BY DEF FailedIsKept
  <2>1. CASE v = w
    BY <2>1, <1>1 DEF OwnVerdict
  <2>2. CASE v # w
    <3> SUFFICES ASSUME tasks[v].kind = "run", status'[tasks[v].first] = "FAILED",
                        tasks[v].pc \in {"delete", "freeing"}
                 PROVE  tasks[v].pc # "freeing" /\ envStatus'[tasks[v].env] = "Deleted"
      BY <2>2, <1>2 DEF KeptIfFailed
    <3>1. Busy(v) /\ status[tasks[v].first] = "FAILED"
      BY <2>2, <1>5 DEF Busy
    <3>2. tasks[v].env \in Envs /\ tasks[v].env # tasks[w].env
      BY <2>2, <3>1, <1>1, OwnEnvironment DEF OwnStep
    <3> QED
      BY <3>1, <3>2, <1>1 DEF VerdictInv, FailedIsKept, KeptIfFailed, OwnStep, OwnEnvironmentOnly
  <2> QED
    BY <2>1, <2>2
<1> QED
  BY <1>3, <1>4, <1>6, <1>7 DEF VerdictInv

\* VerdictInv holds at first, and every step keeps it.
LEMMA VerdictInvariance ==
  ASSUME \A e \in Envs : IsPredefined(e), \A r \in Results : CaseRetry[r] = 0
  PROVE  Spec => []VerdictInv
<1>1. Init => VerdictInv
  BY DEF Init, VerdictInv, FirstIsHeld, RunStaysRun, NoVerdictYet, FailedIsKept, KeptIfFailed,
         BeforeVerdict, Busy, Idle
<1>2. IInv /\ LiveInv /\ ResultInv /\ VerdictInv /\ [Next]_vars => VerdictInv'
  <2> SUFFICES ASSUME IInv, LiveInv, ResultInv, VerdictInv, [Next]_vars PROVE VerdictInv'
    OBVIOUS
  <2>1. CASE MainStep
    BY <2>1, MainStepKeepsVerdict
  <2>2. ASSUME NEW w \in Workers, WorkerStep(w) PROVE VerdictInv'
    BY <2>2, WorkerStepKeepsVerdict
  <2>3. CASE UNCHANGED vars
    BY <2>3 DEF VerdictInv, FirstIsHeld, RunStaysRun, NoVerdictYet, FailedIsKept, KeptIfFailed,
       Busy, vars, envVars, caseVars
  <2> QED
    BY <2>1, <2>2, <2>3 DEF Next, Terminated
<1> QED
  BY <1>1, <1>2, Invariance, LiveInvariance, ResultInvariance, PTL DEF Spec

\* The verdict of a test that ran, or of a deployment that failed, stays: neither the main
\* thread, which skips and fails results, nor another worker replaces it.
THEOREM VerdictStands ==
  ASSUME \A e \in Envs : IsPredefined(e), \A r \in Results : CaseRetry[r] = 0
  PROVE  Spec => VerdictIsFinal
<1> DEFINE A == \A r \in Results :
       status[r] \in {"PASSED", "FAILED", "ATTEMPTED"} /\ status'[r] # status[r] =>
         \/ status'[r] = "QUEUED" /\ retried'[r] = retried[r] + 1
         \/ \E w \in Workers : At(w, "check") /\ First(w) = r /\ status'[r] = "FAILED"
<1>1. IInv /\ LiveInv /\ ResultInv /\ VerdictInv /\ [Next]_vars => [A]_vars
  <2> SUFFICES ASSUME IInv, LiveInv, ResultInv, VerdictInv, [Next]_vars PROVE [A]_vars
    OBVIOUS
  <2>1. CASE MainStep
    BY <2>1, MainEffects DEF MainResult, Completed, CanRun
  <2>2. ASSUME NEW w \in Workers, WorkerStep(w) PROVE A
    <3>1. \A r \in Results : OwnResult(w, r)
      BY <2>2, WorkerStepKeepsKind DEF ResultInv
    <3> QED
      BY <3>1 DEF OwnResult, VerdictInv, NoVerdictYet, BeforeVerdict, At, First
  <2>3. CASE UNCHANGED vars
    BY <2>3
  <2> QED
    BY <2>1, <2>2, <2>3 DEF Next, Terminated
<1> QED
  BY <1>1, Invariance, LiveInvariance, ResultInvariance, VerdictInvariance, PTL
     DEF Spec, VerdictIsFinal

\* With keep_environment "failed" no worker frees the environment of a test that failed,
\* also when the environment is dirty, bad or lost and is deleted after the test.
THEOREM FailedStays ==
  ASSUME \A e \in Envs : IsPredefined(e), \A r \in Results : CaseRetry[r] = 0
  PROVE  Spec => FailedEnvironmentKept
<1>1. ResultInv /\ VerdictInv /\ [Next]_vars =>
        [\A w \in Workers :
           /\ KeepEnvironment = "failed" /\ tasks[w].kind \in {"run", "rerun"}
           /\ At(w, "freeing") /\ ~At(w, "freeing")'
           => status[First(w)] # "FAILED"]_vars
  BY DEF ResultInv, NoRerun, VerdictInv, FailedIsKept, KeptIfFailed, At, First, Busy
<1> QED
  BY <1>1, ResultInvariance, VerdictInvariance, PTL DEF Spec, FailedEnvironmentKept
-----------------------------------------------------------------------------
(* The scheduler implements TestRun. *)

\* A test has its status from the worker that runs it.
CaseRuns(w) ==
  /\ tasks[w].pc = "begin" => status[tasks[w].first] = "ASSIGNED"
  /\ tasks[w].pc = "case" => status[tasks[w].first] = "RUNNING"
  /\ tasks[w].pc \in {"close", "check"} => status[tasks[w].first] \in Completed

\* _sort_environments does not miss an environment that a test runs on.
Found(w) ==
  tasks[w].pc \in {"begin", "case"} =>
    /\ pc = "sort" /\ (pass > 2 \/ (pass = 2 /\ Wanted(tasks[w].first) = "Connected")) =>
         tasks[w].env \in available
    /\ pc \in {"delete_unused", "dispatch"} => tasks[w].env \in available

PromiseInv ==
  /\ \A w \in Workers : CaseRuns(w)
  /\ \A w \in Workers : Found(w)
  /\ pc # "sort" => pass = 1

\* fetch_task finds the environment of every test that runs.
LEMMA MainStepFinds ==
  ASSUME IInv, LiveInv, PromiseInv, MainStep, \A e \in Envs : IsPredefined(e)
  PROVE  (\A w \in Workers : Found(w)') /\ (pc' # "sort" => pass' = 1)
<1> USE DEF Goto, Abort, GenerateTask, fetchVars
<1>1. CASE SortEnvironments
  <2>1. tasks' = tasks /\ pc = "sort" /\ pass \in 1..4
    BY <1>1 DEF SortEnvironments, IInv, TypeOK
  <2>2. available' = available \cup {e \in environments : envStatus[e] = SortedStatus[pass]}
    BY <1>1 DEF SortEnvironments
  <2>3. \A w \in Workers : tasks[w].pc \in {"begin", "case"} =>
          /\ tasks[w].env \in environments
          /\ envStatus[tasks[w].env] = Wanted(tasks[w].first)
    BY <2>1 DEF LiveInv, TaskEnvironmentListed, TaskFindsEnvironment, NotAborted, Listed
  <2>4. SortedStatus[1] = "Connected" /\ SortedStatus[2] = "Deployed"
    BY DEF SortedStatus
  <2>5. \A w \in Workers : tasks[w].pc \in {"begin", "case"} =>
          /\ pass \in {3, 4} => tasks[w].env \in available
          /\ pass = 2 /\ Wanted(tasks[w].first) = "Connected" => tasks[w].env \in available
    BY <2>1 DEF PromiseInv, Found
  <2>6. \A w \in Workers : tasks[w].pc \in {"begin", "case"} /\ pass \in {2, 3, 4} =>
          tasks[w].env \in available'
    BY <2>2, <2>3, <2>4, <2>5 DEF Wanted
  <2>7. \A w \in Workers : tasks[w].pc \in {"begin", "case"} /\ pass = 1 /\ Wanted(tasks[w].first) = "Connected" =>
          tasks[w].env \in available'
    BY <2>2, <2>3, <2>4
  <2>8. CASE pass < 4
    <3>1. pc' = "sort" /\ pass' = pass + 1
      BY <1>1, <2>8, <2>1 DEF SortEnvironments
    <3> QED
      BY <2>1, <2>6, <2>7, <3>1 DEF Found, Wanted
  <2>9. CASE pass = 4
    <3>1. pc' = "delete_unused" /\ pass' = 1
      BY <1>1, <2>9 DEF SortEnvironments
    <3> QED
      BY <2>1, <2>6, <2>9, <3>1 DEF Found
  <2> QED
    BY <2>1, <2>8, <2>9
<1>2. CASE pc' = pc /\ pc \in {"delete_unused", "dispatch"} /\ available' = available /\ tasks' = tasks /\ pass' = pass
  BY <1>2 DEF PromiseInv, Found
<1>3. CASE pc = "delete_unused" /\ pc' = "dispatch" /\ available' = available /\ tasks' = tasks /\ pass' = pass
  BY <1>3 DEF PromiseInv, Found
<1>4. CASE pc' \notin {"sort", "delete_unused", "dispatch"} /\ pass' = pass /\ pc # "sort"
  BY <1>4 DEF PromiseInv, Found
<1>5. CASE CleanupDoneResults
  BY <1>5 DEF CleanupDoneResults, PromiseInv, Found
<1> QED
  BY <1>1, <1>2, <1>3, <1>4, <1>5 DEF MainStep, WaitWorker, RunnerIsDone, LeaveSubmitLoop,
     FetchTask, Drain, PrepareProceeds, PrepareFails, PrepareEnds, ShouldEarlyStop,
     CleanupDeletedEnvironments, DeleteUnusedEnvironments, VisitEnvironment, DispatchTestResult,
     SkipTestResults, CloseDeletes, CloseEnds

\* While a test runs, or is about to, fetch_task skips nothing.
LEMMA NoSkipWhileRunning ==
  ASSUME IInv, LiveInv, ResultInv, VerdictInv, PromiseInv, MainStep, ~ExitOnFirstFailure,
         NEW w \in Workers, tasks[w].pc \in {"begin", "case", "close", "check"}
  PROVE  status'[tasks[w].first] = status[tasks[w].first]
<1>1. Busy(w) /\ tasks[w].kind # "delete" /\ tasks[w].pc # "release" /\ tasks[w].first \in Results
  BY DEF Busy, IInv, TypeOK
<1>2. status[tasks[w].first] # "QUEUED" /\ MainResult(tasks[w].first)
  BY <1>1, MainEffects DEF ResultInv, HeldNotQueued, Holds, At, VerdictInv, FirstIsHeld
<1>3. CASE tasks[w].pc \in {"begin", "case"}
  <2>1. pc = "dispatch" => tasks[w].env \in available /\ inUse[tasks[w].env]
    BY <1>1, <1>3, OwnEnvironment DEF PromiseInv, Found
  <2> QED
    BY <1>2, <2>1 DEF MainResult
<1>4. CASE tasks[w].pc \in {"close", "check"}
  <2>1. status[tasks[w].first] \in Completed
    BY <1>4 DEF PromiseInv, CaseRuns
  <2> QED
    BY <1>2, <2>1 DEF MainResult
<1> QED
  BY <1>3, <1>4

\* The main thread leaves tests that run alone.
LEMMA MainStepKeepsPromise ==
  ASSUME IInv, LiveInv, ResultInv, VerdictInv, PromiseInv, MainStep, ~ExitOnFirstFailure,
         \A e \in Envs : IsPredefined(e)
  PROVE  PromiseInv'
<1>1. ASSUME NEW w \in Workers PROVE CaseRuns(w)'
  <2>1. CASE Busy(w) /\ tasks'[w] = tasks[w]
    <3>1. tasks[w].pc \in {"begin", "case", "close", "check"} =>
            status'[tasks[w].first] = status[tasks[w].first]
      BY NoSkipWhileRunning
    <3> QED
      BY <2>1, <3>1 DEF PromiseInv, CaseRuns
  <2>2. FirstStep["deploy"] = "subscribe" /\ FirstStep["init"] = "init"
        /\ FirstStep["run"] = "begin" /\ FirstStep["delete"] = "delete"
    BY DEF FirstStep
  <2> QED
    BY <2>1, <2>2, MainTask DEF CaseRuns
<1> QED
  BY <1>1, MainStepFinds DEF PromiseInv

\* A worker leaves the tests of others alone.
LEMMA OthersCaseKept ==
  ASSUME IInv, ResultInv, VerdictInv, NEW w \in Workers, WorkerStep(w),
         \A r \in Results : CaseRetry[r] = 0,
         NEW v \in Workers \ {w}, tasks[v].pc \in {"begin", "case", "close", "check"}
  PROVE  status'[tasks[v].first] = status[tasks[v].first]
<1>0. NoRerun
  BY DEF ResultInv
<1>1. OwnStep(w) /\ \A r \in Results : OwnResult(w, r)
  BY <1>0, WorkerFrame, WorkerStepKeepsKind
<1>2. Busy(v) /\ tasks[v].kind # "delete" /\ tasks[v].first \in Results
  BY DEF Busy, IInv, TypeOK
<1>3. Holds(v, tasks[v].first)
  BY <1>2 DEF VerdictInv, FirstIsHeld, Holds, At
<1>4. ~Holds(w, tasks[v].first)
  BY <1>2, <1>3 DEF ResultInv, ResultOwnedOnce
<1>5. tasks[w].pc \in {"attach", "attach_skip", "case", "check", "begin"} => tasks[v].first # tasks[w].first
  <2>1. tasks[w].pc \in {"attach", "attach_skip", "case", "check", "begin"} =>
          Busy(w) /\ tasks[w].kind # "delete" /\ tasks[w].pc # "release"
    BY DEF Busy, IInv, TypeOK
  <2> QED
    BY <1>4, <2>1 DEF VerdictInv, FirstIsHeld, Holds, At
<1>6. tasks[w].pc = "tail" => tasks[v].first \notin tasks[w].results
  BY <1>4 DEF Holds, At, Busy
<1> QED
  BY <1>1, <1>2, <1>5, <1>6 DEF OwnResult

\* The worker that runs a test sets its status.
LEMMA WorkerStepKeepsPromise ==
  ASSUME IInv, ResultInv, VerdictInv, PromiseInv, NEW w \in Workers, WorkerStep(w),
         \A r \in Results : CaseRetry[r] = 0
  PROVE  PromiseInv'
<1>0. NoRerun
  BY DEF ResultInv
<1>1. OwnStep(w) /\ OwnVerdict(w)
  BY <1>0, WorkerFrame, WorkerVerdict
<1>2. UNCHANGED <<pc, pass, available>>
  BY <1>1 DEF OwnStep, mainVars, fetchVars
<1>3. \A v \in Workers : Found(v)'
  BY <1>1, <1>2 DEF OwnStep, OwnTaskOnly, PromiseInv, Found, Wanted
<1>4. \A v \in Workers \ {w} : CaseRuns(v)'
  <2>1. \A v \in Workers \ {w} : tasks'[v] = tasks[v]
    BY <1>1 DEF OwnStep, OwnTaskOnly
  <2>2. \A v \in Workers \ {w} : tasks[v].pc \in {"begin", "case", "close", "check"} =>
          status'[tasks[v].first] = status[tasks[v].first]
    BY OthersCaseKept
  <2> QED
    BY <2>1, <2>2 DEF PromiseInv, CaseRuns
<1>5. CaseRuns(w)'
  BY <1>1 DEF OwnStep, OwnTaskOnly, OwnVerdict, PromiseInv, CaseRuns
<1> QED
  BY <1>2, <1>3, <1>4, <1>5 DEF PromiseInv

\* PromiseInv holds at first, and every step keeps it.
LEMMA PromiseInvariance ==
  ASSUME \A e \in Envs : IsPredefined(e), \A r \in Results : CaseRetry[r] = 0, ~ExitOnFirstFailure
  PROVE  Spec => []PromiseInv
<1>1. Init => PromiseInv
  BY DEF Init, PromiseInv, CaseRuns, Found, Idle
<1>2. IInv /\ LiveInv /\ ResultInv /\ VerdictInv /\ PromiseInv /\ [Next]_vars => PromiseInv'
  <2> SUFFICES ASSUME IInv, LiveInv, ResultInv, VerdictInv, PromiseInv, [Next]_vars
               PROVE  PromiseInv'
    OBVIOUS
  <2>1. CASE MainStep
    BY <2>1, MainStepKeepsPromise
  <2>2. ASSUME NEW w \in Workers, WorkerStep(w) PROVE PromiseInv'
    BY <2>2, WorkerStepKeepsPromise
  <2>3. CASE UNCHANGED vars
    BY <2>3 DEF PromiseInv, CaseRuns, Found, Wanted, vars, mainVars, fetchVars, caseVars
  <2> QED
    BY <2>1, <2>2, <2>3 DEF Next, Terminated
<1> QED
  BY <1>1, <1>2, Invariance, LiveInvariance, ResultInvariance, VerdictInvariance, PTL DEF Spec

\* The refinement mapping: an environment is its one task's.
UserIs ==
  /\ user = [e \in Envs |-> user[e]]
  /\ \A w \in Workers : Busy(w) => user[tasks[w].env] = w
  /\ \A e \in Envs : (\A w \in Workers : Busy(w) => tasks[w].env # e) => user[e] = None

\* The mapping of the users holds wherever environments are exclusive.
LEMMA UserFacts == IInv => UserIs
<1> SUFFICES ASSUME IInv PROVE UserIs
  OBVIOUS
<1>1. user = [e \in Envs |-> user[e]]
  BY DEF user
<1>2. ASSUME NEW w \in Workers, Busy(w) PROVE user[tasks[w].env] = w
  <2>1. tasks[w].env \in Envs /\ \A v \in Workers : Busy(v) /\ tasks[v].env = tasks[w].env => v = w
    BY <1>2, OwnEnvironment
  <2> QED
    BY <1>2, <2>1 DEF user, Env
<1>3. ASSUME NEW e \in Envs, \A w \in Workers : Busy(w) => tasks[w].env # e PROVE user[e] = None
  BY <1>3 DEF user, Env
<1> QED
  BY <1>1, <1>2, <1>3 DEF UserIs

\* A test is open, closed, or its one worker's.
TestIs ==
  /\ test = [r \in Results |-> test[r]]
  /\ \A r \in Results : /\ CanRun(r) => test[r] = "open"
                        /\ status[r] \in Completed => test[r] = "closed"
  /\ \A w \in Workers : tasks[w].pc = "case" => test[tasks[w].first] = w

\* The mapping of the tests holds wherever a result has one worker.
LEMMA TestFacts == IInv /\ ResultInv /\ VerdictInv /\ PromiseInv => TestIs
<1> SUFFICES ASSUME IInv, ResultInv, VerdictInv, PromiseInv PROVE TestIs
  OBVIOUS
<1>1. test = [r \in Results |-> test[r]]
  BY DEF test
<1>2. \A r \in Results : /\ CanRun(r) => test[r] = "open"
                         /\ status[r] \in Completed => test[r] = "closed"
  BY DEF test, CanRun, Completed
<1>3. ASSUME NEW w \in Workers, tasks[w].pc = "case" PROVE test[tasks[w].first] = w
  <2>1. \A v \in Workers : tasks[v].pc = "case" =>
          /\ Busy(v) /\ tasks[v].first \in Results /\ Holds(v, tasks[v].first)
    BY DEF Busy, IInv, TypeOK, VerdictInv, FirstIsHeld, Holds, At
  <2>2. \A v \in Workers : tasks[v].pc = "case" /\ tasks[v].first = tasks[w].first => v = w
    BY <1>3, <2>1 DEF ResultInv, ResultOwnedOnce
  <2>3. tasks[w].first \in Results /\ status[tasks[w].first] = "RUNNING"
    BY <1>3, <2>1 DEF PromiseInv, CaseRuns
  <2>4. test[tasks[w].first] = CHOOSE v \in Workers : At(v, "case") /\ First(v) = tasks[w].first
    BY <2>3 DEF test, CanRun
  <2> QED
    BY <1>3, <2>2, <2>4 DEF At, First
<1> QED
  BY <1>1, <1>2, <1>3 DEF TestIs

\* Tests that only close take a step of TestRun.
LEMMA CloseStep ==
  ASSUME TestIs, TestIs',
         \A r \in Results : test'[r] = test[r] \/ (test[r] = "open" /\ test'[r] = "closed")
  PROVE  Promise!CloseSome
<1> DEFINE rs == {r \in Results : test[r] = "open" /\ test'[r] = "closed"}
<1>1. test' = [r \in Results |-> test'[r]]
  BY DEF TestIs
<1>2. test' = [r \in Results |-> IF r \in rs THEN "closed" ELSE test[r]]
  BY <1>1
<1>3. rs \in SUBSET {r \in Results : test[r] = "open"}
  OBVIOUS
<1> QED
  BY <1>2, <1>3 DEF Promise!CloseSome

\* A step that leaves the running tasks as they are leaves the environments with them.
LEMMA SameUsers ==
  ASSUME UserIs, UserIs', \A w \in Workers : tasks[w].env \in Envs \/ ~Busy(w),
         \A w \in Workers : /\ Busy(w)' <=> Busy(w)
                            /\ Busy(w) => tasks'[w].env = tasks[w].env
  PROVE  user' = user
<1>1. user = [e \in Envs |-> user[e]] /\ user' = [e \in Envs |-> user'[e]]
  BY DEF UserIs
<1>2. ASSUME NEW e \in Envs PROVE user'[e] = user[e]
  <2>1. CASE \E w \in Workers : Busy(w) /\ tasks[w].env = e
    BY <2>1 DEF UserIs
  <2>2. CASE \A w \in Workers : Busy(w) => tasks[w].env # e
    BY <2>2 DEF UserIs
  <2> QED
    BY <2>1, <2>2
<1> QED
  BY <1>1, <1>2

\* Every step of the main thread closes tests, or gives a free worker a free environment.
LEMMA MainStepImplements ==
  ASSUME IInv, LiveInv, ResultInv, VerdictInv, CompleteInv, PromiseInv, MainStep,
         UserIs, UserIs', TestIs, TestIs', ~ExitOnFirstFailure, \A e \in Envs : IsPredefined(e)
  PROVE  Promise!Next
<1>0. /\ retried' = retried /\ \A r \in Results : MainResult(r)
      /\ ((tasks' = tasks \/ tasks' = Reaped) /\ inUse' = inUse) \/ SomeTaskGiven
  BY MainEffects
<1>1. \A w \in Workers : Busy(w) => tasks'[w] = tasks[w]
  <2>1. CASE tasks' = tasks \/ tasks' = Reaped
    BY <2>1, ReapedFacts
  <2>2. CASE SomeTaskGiven
    BY <2>2 DEF SomeTaskGiven, TaskGiven
  <2> QED
    BY <2>1, <2>2, <1>0
<1>2. ASSUME NEW r \in Results
      PROVE  test'[r] = test[r] \/ (test[r] = "open" /\ test'[r] = "closed")
  <2>1. CASE status[r] = "RUNNING"
    <3>1. PICK w \in Workers : tasks[w].pc = "case" /\ tasks[w].first = r
      BY <2>1 DEF CompleteInv, RunningHasWorker
    <3>2. tasks'[w] = tasks[w]
      BY <3>1, <1>1 DEF Busy
    <3> QED
      BY <3>1, <3>2 DEF TestIs
  <2>2. CASE status[r] \in Completed
    <3>1. status'[r] = status[r]
      BY <2>2, <1>0 DEF MainResult, Completed, CanRun
    <3> QED
      BY <2>2, <3>1 DEF TestIs
  <2>3. CASE CanRun(r)
    <3>1. status'[r] \in {"QUEUED", "ASSIGNED"} \/ status'[r] \in Completed
      BY <2>3, <1>0 DEF MainResult, Completed, CanRun
    <3> QED
      BY <2>3, <3>1 DEF TestIs, CanRun
  <2> QED
    BY <2>1, <2>2, <2>3 DEF IInv, TypeOK, TestStatus, Completed, CanRun
<1>3. Promise!CloseSome
  BY <1>2, CloseStep
<1>4. \A w \in Workers : Busy(w) => tasks[w].env \in Envs
  BY DEF IInv, TypeOK
<1>5. CASE tasks' = tasks \/ tasks' = Reaped
  <2>1. user' = user
    BY <1>4, <1>5, ReapedFacts, SameUsers
  <2> QED
    BY <1>0, <1>3, <2>1 DEF Promise!Next, Promise!Close
<1>6. CASE SomeTaskGiven
  <2>1. PICK w \in Workers, kind \in {"deploy", "init", "run", "delete"}, e \in environments,
            first \in Results \cup {None}, rs \in SUBSET Results :
            TaskGiven(w, kind, e, first, rs)
    BY <1>6 DEF SomeTaskGiven
  <2>2. /\ ~Busy(w) /\ ~inUse[e] /\ e \in Envs /\ tasks'[w].env = e
        /\ tasks'[w].pc \in {"subscribe", "init", "begin", "delete"}
        /\ \A v \in Workers \ {w} : tasks'[v] = IF Busy(v) THEN tasks[v] ELSE Idle
    BY <2>1 DEF TaskGiven, FirstStep, IInv, TypeOK
  <2>3. /\ Busy(w)'
        /\ \A v \in Workers \ {w} : (Busy(v)' <=> Busy(v)) /\ (Busy(v) => tasks'[v] = tasks[v])
    BY <2>2 DEF Busy, Idle
  <2>4. \A v \in Workers : Busy(v) => tasks[v].env # e
    BY <2>2, OwnEnvironment
  <2>5. user[e] = None
    BY <2>2, <2>4 DEF UserIs
  <2>6. \A f \in Envs : user[f] # w
    <3> SUFFICES ASSUME NEW f \in Envs PROVE user[f] # w
      OBVIOUS
    <3>1. CASE \E v \in Workers : Busy(v) /\ tasks[v].env = f
      BY <2>2, <3>1 DEF UserIs
    <3>2. CASE \A v \in Workers : Busy(v) => tasks[v].env # f
      BY <3>2, FiniteAssumption DEF UserIs
    <3> QED
      BY <3>1, <3>2
  <2>7. ASSUME NEW f \in Envs \ {e} PROVE user'[f] = user[f]
    <3>1. CASE \E v \in Workers : Busy(v) /\ tasks[v].env = f
      <4>1. PICK v \in Workers : Busy(v) /\ tasks[v].env = f
        BY <3>1
      <4>2. v # w /\ Busy(v)' /\ tasks'[v].env = f
        BY <4>1, <2>2, <2>3
      <4> QED
        BY <4>1, <4>2 DEF UserIs
    <3>2. CASE \A v \in Workers : Busy(v) => tasks[v].env # f
      <4>1. \A v \in Workers : Busy(v)' => tasks'[v].env # f
        BY <3>2, <2>2, <2>3, <2>7
      <4> QED
        BY <3>2, <4>1 DEF UserIs
    <3> QED
      BY <3>1, <3>2
  <2>8. user'[e] = w
    BY <2>2, <2>3 DEF UserIs
  <2>9. user' = [user EXCEPT ![e] = w]
    BY <2>7, <2>8 DEF UserIs
  <2>10. Promise!Take(w, e)
    BY <1>0, <1>3, <2>5, <2>6, <2>9 DEF Promise!Take
  <2> QED
    BY <2>2, <2>10 DEF Promise!Next
<1> QED
  BY <1>0, <1>5, <1>6

\* Every step of a worker begins or ends its test, closes its test, gives its environment
\* back, or does nothing that TestRun tells apart.
LEMMA WorkerStepImplements ==
  ASSUME IInv, LiveInv, ResultInv, VerdictInv, CompleteInv, PromiseInv,
         NEW w \in Workers, WorkerStep(w), \A r \in Results : CaseRetry[r] = 0,
         UserIs, UserIs', TestIs, TestIs'
  PROVE  Promise!Next
<1>0. NoRerun
  BY DEF ResultInv
<1>1. OwnStep(w) /\ OwnVerdict(w) /\ \A r \in Results : OwnResult(w, r)
  BY <1>0, WorkerFrame, WorkerVerdict, WorkerStepKeepsKind
<1>2. /\ Busy(w) /\ tasks[w].env \in Envs /\ retried' = retried
      /\ tasks'[w].env = tasks[w].env /\ tasks'[w].first = tasks[w].first
      /\ \A v \in Workers \ {w} : tasks'[v] = tasks[v]
  BY <1>1, OwnEnvironment DEF OwnStep, OwnTaskOnly, OwnVerdict
<1>3. \A v \in Workers \ {w} : Busy(v)' <=> Busy(v)
  BY <1>2 DEF Busy
<1>4. \A v \in Workers : Busy(v) => tasks[v].env \in Envs
  BY DEF IInv, TypeOK
<1>5. Busy(w)' => user' = user
  BY <1>2, <1>3, <1>4, SameUsers
\* Only the test it runs, or begins, can do more than close.
<1>6. ASSUME NEW r \in Results, tasks[w].pc \in {"begin", "case"} => r # tasks[w].first
      PROVE  test'[r] = test[r] \/ (test[r] = "open" /\ test'[r] = "closed")
  <2>1. CASE status[r] = "RUNNING"
    <3>1. PICK v \in Workers : tasks[v].pc = "case" /\ tasks[v].first = r
      BY <2>1 DEF CompleteInv, RunningHasWorker
    <3>2. tasks'[v] = tasks[v]
      BY <3>1, <1>2, <1>6
    <3> QED
      BY <3>1, <3>2 DEF TestIs
  <2>2. CASE status[r] \in Completed
    <3>1. status'[r] \in Completed
      BY <2>2, <1>1, <1>6 DEF OwnResult, Completed
    <3> QED
      BY <2>2, <3>1 DEF TestIs
  <2>3. CASE CanRun(r)
    <3>1. status'[r] \in {"QUEUED", "ASSIGNED"} \/ status'[r] \in Completed
      BY <2>3, <1>1, <1>6 DEF OwnResult, CanRun
    <3> QED
      BY <2>3, <3>1 DEF TestIs, CanRun
  <2> QED
    BY <2>1, <2>2, <2>3 DEF IInv, TypeOK, TestStatus, Completed, CanRun
<1>7. CASE tasks[w].pc = "begin"
  <2>1. tasks[w].first \in Results /\ status[tasks[w].first] = "ASSIGNED"
    BY <1>7 DEF PromiseInv, CaseRuns, IInv, TypeOK, Busy
  <2>2. tasks'[w].pc = "case" /\ Busy(w)'
    BY <1>1, <1>7 DEF OwnVerdict, Busy
  <2>3. test[tasks[w].first] = "open" /\ test'[tasks[w].first] = w
    BY <1>2, <2>1, <2>2 DEF TestIs, CanRun
  <2>4. ASSUME NEW r \in Results \ {tasks[w].first} PROVE test'[r] = test[r]
    <3>1. status'[r] = status[r]
      BY <1>1, <1>7 DEF OwnResult
    <3>2. CASE status[r] = "RUNNING"
      <4>1. PICK v \in Workers : tasks[v].pc = "case" /\ tasks[v].first = r
        BY <3>2 DEF CompleteInv, RunningHasWorker
      <4>2. tasks'[v] = tasks[v]
        BY <4>1, <1>2, <1>7
      <4> QED
        BY <4>1, <4>2 DEF TestIs
    <3> QED
      BY <3>1, <3>2 DEF TestIs, IInv, TypeOK, TestStatus, Completed, CanRun
  <2>5. test' = [test EXCEPT ![tasks[w].first] = w]
    BY <2>3, <2>4 DEF TestIs
  <2>6. user[tasks[w].env] = w /\ user' = user
    BY <1>2, <1>5, <2>2 DEF UserIs
  <2>7. Promise!Begin(w, tasks[w].first)
    BY <1>2, <2>3, <2>5, <2>6 DEF Promise!Begin
  <2> QED
    BY <2>1, <2>7 DEF Promise!Next
<1>8. CASE tasks[w].pc = "case"
  <2>1. tasks[w].first \in Results /\ status[tasks[w].first] = "RUNNING"
    BY <1>8 DEF PromiseInv, CaseRuns, IInv, TypeOK, Busy
  <2>2. status'[tasks[w].first] \in Completed
    BY <1>1, <1>8, <2>1 DEF OwnResult
  <2>3. Busy(w)'
    BY <1>1, <2>1, <2>2 DEF OwnVerdict, Busy, Completed
  <2>4. test[tasks[w].first] = w /\ test'[tasks[w].first] = "closed"
    BY <1>8, <2>1, <2>2 DEF TestIs
  <2>5. ASSUME NEW r \in Results \ {tasks[w].first} PROVE test'[r] = test[r]
    <3>1. status'[r] = status[r]
      BY <1>1, <1>8 DEF OwnResult
    <3>2. CASE status[r] = "RUNNING"
      <4>1. PICK v \in Workers : tasks[v].pc = "case" /\ tasks[v].first = r
        BY <3>2 DEF CompleteInv, RunningHasWorker
      <4>2. tasks'[v] = tasks[v]
        BY <4>1, <1>2, <2>5
      <4> QED
        BY <4>1, <4>2 DEF TestIs
    <3> QED
      BY <3>1, <3>2 DEF TestIs, IInv, TypeOK, TestStatus, Completed, CanRun
  <2>6. test' = [test EXCEPT ![tasks[w].first] = "closed"]
    BY <2>4, <2>5 DEF TestIs
  <2>7. Promise!End(w, tasks[w].first)
    BY <1>2, <1>5, <2>3, <2>4, <2>6 DEF Promise!End
  <2> QED
    BY <2>1, <2>7 DEF Promise!Next
<1>9. CASE tasks[w].pc \notin {"begin", "case"} /\ Busy(w)'
  <2>1. Promise!CloseSome
    BY <1>6, <1>9, CloseStep
  <2> QED
    BY <1>2, <1>5, <1>9, <2>1 DEF Promise!Next, Promise!Close
<1>10. CASE ~Busy(w)'
  <2>1. status' = status
    BY <1>1, <1>10 DEF OwnVerdict, Busy
  <2>2. tasks[w].pc # "case"
    BY <1>8, <1>10, <2>1, <1>1 DEF OwnResult, PromiseInv, CaseRuns, Completed, IInv, TypeOK, Busy
  <2>3. ASSUME NEW r \in Results PROVE test'[r] = test[r]
    <3>1. CASE status[r] = "RUNNING"
      <4>1. PICK v \in Workers : tasks[v].pc = "case" /\ tasks[v].first = r
        BY <3>1 DEF CompleteInv, RunningHasWorker
      <4>2. tasks'[v] = tasks[v]
        BY <4>1, <1>2, <2>2
      <4> QED
        BY <4>1, <4>2 DEF TestIs
    <3> QED
      BY <2>1, <3>1 DEF TestIs, IInv, TypeOK, TestStatus, Completed, CanRun
  <2>4. test' = test
    BY <2>3 DEF TestIs
  <2>5. user[tasks[w].env] = w /\ w # None
    BY <1>2, FiniteAssumption DEF UserIs
  <2>6. user'[tasks[w].env] = None
    <3>1. \A v \in Workers : Busy(v)' => tasks'[v].env # tasks[w].env
      BY <1>2, <1>3, <1>10, OwnEnvironment
    <3> QED
      BY <1>2, <3>1 DEF UserIs
  <2>7. ASSUME NEW e \in Envs \ {tasks[w].env} PROVE user'[e] = user[e]
    <3>1. CASE \E v \in Workers : Busy(v) /\ tasks[v].env = e
      <4>1. PICK v \in Workers : Busy(v) /\ tasks[v].env = e
        BY <3>1
      <4>2. v # w /\ Busy(v)' /\ tasks'[v].env = e
        BY <4>1, <1>2, <1>3
      <4> QED
        BY <4>1, <4>2 DEF UserIs
    <3>2. CASE \A v \in Workers : Busy(v) => tasks[v].env # e
      <4>1. \A v \in Workers : Busy(v)' => tasks'[v].env # e
        BY <3>2, <1>2, <1>3, <1>10
      <4> QED
        BY <3>2, <4>1 DEF UserIs
    <3> QED
      BY <3>1, <3>2
  <2>8. user' = [user EXCEPT ![tasks[w].env] = None]
    BY <2>6, <2>7 DEF UserIs
  <2>9. Promise!Give(tasks[w].env)
    BY <1>2, <2>4, <2>5, <2>8 DEF Promise!Give
  <2> QED
    BY <1>2, <2>9 DEF Promise!Next
<1> QED
  BY <1>7, <1>8, <1>9, <1>10

\* The scheduler and its workers, interleaved as they are, implement TestRun: a worker has its
\* environment to itself until it gives it back, a test runs on one environment at a time, and
\* a test that is closed stays closed.  exit_on_first_failure, which skips results that a
\* worker has begun to run, is not covered.
THEOREM PromiseKept ==
  ASSUME \A e \in Envs : IsPredefined(e), \A r \in Results : CaseRetry[r] = 0, ~ExitOnFirstFailure
  PROVE  Spec => KeepsPromise
<1> DEFINE Inv == IInv /\ LiveInv /\ ResultInv /\ VerdictInv /\ CompleteInv /\ PromiseInv
<1>1. Init => Promise!Init
  <2> SUFFICES ASSUME Init PROVE Promise!Init
    OBVIOUS
  <2>1. \A w \in Workers : ~Busy(w)
    BY DEF Init, Busy, Idle
  <2>2. user = [e \in Envs |-> None]
    BY <2>1 DEF user
  <2>3. \A r \in Results : test[r] \in {"open", "closed"}
    BY DEF Init, test, CanRun
  <2>4. test \in [Results -> {"open", "closed"}]
    BY <2>3 DEF test
  <2> QED
    BY <2>2, <2>4 DEF Init, Promise!Init
<1>2. Inv => UserIs /\ TestIs
  BY UserFacts, TestFacts
<1>3. Inv' => UserIs' /\ TestIs'
  BY <1>2, PTL
<1>4. Inv /\ Inv' /\ [Next]_vars => [Promise!Next]_(Promise!vars)
  <2> SUFFICES ASSUME Inv, UserIs, TestIs, UserIs', TestIs', [Next]_vars
               PROVE  [Promise!Next]_(Promise!vars)
    BY <1>2, <1>3
  <2>1. CASE MainStep
    BY <2>1, MainStepImplements
  <2>2. ASSUME NEW w \in Workers, WorkerStep(w) PROVE Promise!Next
    BY <2>2, WorkerStepImplements
  <2>3. CASE UNCHANGED vars
    BY <2>3 DEF Promise!vars, user, test, Busy, Env, At, First, CanRun, vars, caseVars
  <2> QED
    BY <2>1, <2>2, <2>3 DEF Next, Terminated
<1>5. Spec => []Inv
  BY Invariance, LiveInvariance, ResultInvariance, VerdictInvariance, CompleteInvariance,
     PromiseInvariance, PTL
<1> QED
  BY <1>1, <1>4, <1>5, PTL DEF Spec, KeepsPromise, Promise!Spec
=============================================================================
