--------------------------- MODULE LisaRunner_proofs ---------------------------
(***************************************************************************)
(* Theorems about LisaRunner, for any number of environments, results and  *)
(* workers.  IInv is inductive: a task has the environment it works on,    *)
(* that environment is marked in use, and no other task has it.            *)
(***************************************************************************)
EXTENDS LisaRunner, TLAPS

IInv == TypeOK /\ EnvironmentExclusive

\* The part of TypeOK, and of IInv, that is about the worker slots.
TasksOK ==
  /\ tasks \in [Workers -> Tasks]
  /\ \A w \in Workers : Busy(w) =>
       /\ tasks[w].env \in Envs
       /\ tasks[w].kind # "delete" => tasks[w].first \in Results
       /\ tasks[w].kind = "delete" => tasks[w].pc \in {"delete", "freeing", "tail", "release"}

-----------------------------------------------------------------------------
(* Operators keep their types. *)

\* set_status gives a result one of the statuses.
LEMMA WithStatusType ==
  ASSUME status \in [Results -> TestStatus], NEW rs, NEW s \in TestStatus
  PROVE  WithStatus(rs, s) \in [Results -> TestStatus]
BY DEF WithStatus

\* _process_done_futures leaves running tasks alone, and removes the others.
LEMMA ReapedKeeps ==
  ASSUME TasksOK, tasks' = Reaped
  PROVE  /\ TasksOK'
         /\ \A w \in Workers : Busy(w)' <=> Busy(w)
         /\ \A w \in Workers : Busy(w) => tasks'[w] = tasks[w]
<1>1. Idle \in Tasks
  BY DEF Idle, Tasks, TaskSteps, TaskKinds
<1>2. tasks' \in [Workers -> Tasks]
  BY <1>1 DEF TasksOK, Reaped
<1>3. \A w \in Workers : IF Busy(w) THEN tasks'[w] = tasks[w] ELSE tasks'[w] = Idle
  BY DEF Reaped
<1>4. \A w \in Workers : Busy(w)' <=> Busy(w)
  BY <1>3 DEF Busy, Idle
<1> QED
  BY <1>2, <1>3, <1>4 DEF TasksOK, Busy

\* A worker that moves on stays the worker of its task.
LEMMA MoveKeeps ==
  ASSUME TasksOK, NEW w \in Workers, Busy(w), NEW label \in TaskSteps,
         tasks[w].kind = "delete" =>
           label \in {"delete", "freeing", "tail", "release", "done"},
         Move(w, label)
  PROVE  /\ TasksOK'
         /\ \A v \in Workers : Busy(v)' => Busy(v) /\ tasks'[v].env = tasks[v].env
<1>1. tasks' \in [Workers -> Tasks]
  BY DEF TasksOK, Move, Tasks
<1>2. \A v \in Workers : v # w => tasks'[v] = tasks[v]
  BY DEF TasksOK, Move
<1>3. /\ tasks'[w].pc = label
      /\ tasks'[w].env = tasks[w].env
      /\ tasks'[w].first = tasks[w].first
      /\ tasks'[w].kind = tasks[w].kind
  BY DEF TasksOK, Move, Tasks
<1>4. \A v \in Workers : Busy(v)' => Busy(v) /\ tasks'[v].env = tasks[v].env
  BY <1>2, <1>3 DEF Busy
<1> QED
  BY <1>1, <1>2, <1>3, <1>4 DEF TasksOK, Busy

\* _generate_task takes a free environment: the new task is its only user.
LEMMA GenerateTaskKeeps ==
  ASSUME IInv, NEW kind \in {"deploy", "init", "run", "delete"}, NEW e \in Envs,
         NEW first \in Results \cup {None}, kind # "delete" => first \in Results,
         NEW rs \in SUBSET Results, NEW newStatus \in [Results -> TestStatus],
         ~inUse[e], GenerateTask(kind, e, first, rs, newStatus)
  PROVE  /\ TasksOK' /\ EnvironmentExclusive'
         /\ inUse' \in [Envs -> BOOLEAN]
         /\ status' \in [Results -> TestStatus]
         /\ pc' = "submit"
         /\ ranked' \in [1..4 -> SUBSET Envs]
         /\ available' = {} /\ availableResults' = {}
<1> DEFINE task == [pc |-> FirstStep[kind], kind |-> kind, env |-> e, first |-> first,
                    results |-> rs]
<1>1. TasksOK
  BY DEF IInv, TypeOK, TasksOK
<1>2. PICK w \in Workers : ~Busy(w) /\ tasks' = [Reaped EXCEPT ![w] = task]
  BY DEF GenerateTask
<1>3. /\ FirstStep[kind] \in {"subscribe", "init", "begin", "delete"}
      /\ kind = "delete" => FirstStep[kind] = "delete"
  BY DEF FirstStep
<1>4. task \in Tasks
  BY <1>3 DEF Tasks, TaskSteps, TaskKinds
<1>5. Idle \in Tasks
  BY DEF Idle, Tasks, TaskSteps, TaskKinds
<1>6. /\ tasks' \in [Workers -> Tasks]
      /\ tasks'[w] = task
      /\ \A v \in Workers \ {w} : tasks'[v] = IF Busy(v) THEN tasks[v] ELSE Idle
  BY <1>1, <1>2, <1>4, <1>5 DEF Reaped, TasksOK
<1>7. \A v \in Workers \ {w} : (Busy(v)' <=> Busy(v)) /\ (Busy(v) => tasks'[v] = tasks[v])
  BY <1>6 DEF Busy, Idle
<1>8. TasksOK'
  BY <1>1, <1>3, <1>6, <1>7 DEF TasksOK, Busy
<1>9. inUse' = [inUse EXCEPT ![e] = TRUE] /\ inUse' \in [Envs -> BOOLEAN]
  BY DEF GenerateTask, IInv, TypeOK
<1>10. \A v \in Workers \ {w} : Busy(v) => tasks[v].env # e /\ tasks[v].env \in Envs
  BY <1>1 DEF IInv, EnvironmentExclusive, Env, TasksOK
<1>11. tasks'[w].env = e
  BY <1>6
<1>12. EnvironmentExclusive'
  <2> SUFFICES ASSUME NEW v \in Workers, Busy(v)'
               PROVE  /\ inUse'[tasks'[v].env]
                      /\ \A u \in Workers : Busy(u)' /\ tasks'[u].env = tasks'[v].env => u = v
    BY DEF EnvironmentExclusive, Env
  <2>1. CASE v = w
    BY <2>1, <1>7, <1>9, <1>10, <1>11 DEF IInv, TypeOK
  <2>2. CASE v # w
    <3>1. Busy(v) /\ tasks'[v] = tasks[v] /\ tasks[v].env # e /\ inUse[tasks[v].env]
      BY <2>2, <1>7, <1>10 DEF IInv, EnvironmentExclusive, Env
    <3>2. inUse'[tasks'[v].env]
      BY <3>1, <1>9, <1>10, <2>2 DEF IInv, TypeOK
    <3>3. ASSUME NEW u \in Workers, Busy(u)', tasks'[u].env = tasks'[v].env PROVE u = v
      BY <3>1, <3>3, <1>7, <1>11 DEF IInv, EnvironmentExclusive, Env
    <3> QED
      BY <3>2, <3>3
  <2> QED
    BY <2>1, <2>2
<1>13. status' \in [Results -> TestStatus]
  BY DEF GenerateTask, Assigned, TestStatus
<1> QED
  BY <1>8, <1>9, <1>12, <1>13 DEF GenerateTask, Goto, ForgetFetch

\* The tasks _dispatch_test_result may return name a result that can run.
LEMMA DispatchType ==
  ASSUME NEW e \in Envs, NEW rs \in SUBSET Results, NEW t \in Dispatch(e, rs)
  PROVE  /\ t[1] \in {"deploy", "init", "run"} /\ t[2] \in rs /\ t[3] \in SUBSET rs
<1> DEFINE onDeployed  == Preferred(Runnable(e, rs) \cap NeedsDeployed)
           onConnected == Runnable(e, rs) \ NeedsDeployed
<1>1. onDeployed \subseteq rs /\ onConnected \subseteq rs /\ Preferred(onConnected) \subseteq rs
  BY DEF Preferred, Runnable
<1>2. CASE envStatus[e] = "Prepared"
  <2>1. PICK r \in rs : t = <<"deploy", r, {r}>>
    BY <1>2 DEF Dispatch
  <2> QED
    BY <2>1
<1>3. CASE envStatus[e] = "Deployed" /\ onDeployed # {}
  <2>1. PICK r \in onDeployed : t = <<"run", r, {r}>>
    BY <1>3 DEF Dispatch
  <2> QED
    BY <2>1, <1>1
<1>4. CASE envStatus[e] = "Deployed" /\ onDeployed = {}
  <2>1. PICK r \in onConnected : t = <<"init", r, onConnected>>
    BY <1>4 DEF Dispatch
  <2> QED
    BY <2>1, <1>1
<1>5. CASE envStatus[e] = "Connected"
  <2>1. PICK r \in Preferred(onConnected) : t = <<"run", r, {r}>>
    BY <1>5 DEF Dispatch
  <2> QED
    BY <2>1, <1>1
<1>6. CASE envStatus[e] \notin {"Prepared", "Deployed", "Connected"}
  BY <1>6 DEF Dispatch
<1> QED
  BY <1>2, <1>3, <1>4, <1>5, <1>6

\* environment_results are test results.
LEMMA EnvironmentResultsType ==
  ASSUME TypeOK, NEW e \in Envs, NEW rs \in EnvironmentResults(e)
  PROVE  rs \in SUBSET Results
<1>1. Runnable(e, availableResults) \subseteq availableResults
  BY DEF Runnable
<1>2. availableResults \subseteq Results
  BY DEF TypeOK
<1> QED
  BY <1>1, <1>2 DEF EnvironmentResults, KeepOneNew

-----------------------------------------------------------------------------
(* The invariant. *)

\* A step that frees no environment and gives no worker a new one.
LEMMA ExclusiveKept ==
  ASSUME EnvironmentExclusive, inUse' = inUse,
         \A v \in Workers : Busy(v)' => Busy(v) /\ tasks'[v].env = tasks[v].env
  PROVE  EnvironmentExclusive'
BY DEF EnvironmentExclusive, Env

\* A step that leaves the worker slots alone.
LEMMA TasksUnchanged ==
  ASSUME IInv, tasks' = tasks, inUse' = inUse
  PROVE  TasksOK' /\ EnvironmentExclusive'
<1>1. \A v \in Workers : (Busy(v)' <=> Busy(v)) /\ tasks'[v].env = tasks[v].env
  BY DEF Busy
<1>2. TasksOK'
  BY <1>1 DEF IInv, TypeOK, TasksOK
<1> QED
  BY <1>1, <1>2, ExclusiveKept DEF IInv

\* A step of the main thread that only reaps finished tasks.
LEMMA TasksReaped ==
  ASSUME IInv, tasks' = Reaped, inUse' = inUse
  PROVE  TasksOK' /\ EnvironmentExclusive'
<1>1. TasksOK
  BY DEF IInv, TypeOK, TasksOK
<1>2. TasksOK' /\ \A v \in Workers : Busy(v)' => Busy(v) /\ tasks'[v].env = tasks[v].env
  BY <1>1, ReapedKeeps
<1> QED
  BY <1>2, ExclusiveKept DEF IInv

\* A step of a worker that goes on with its task.
LEMMA TaskMoves ==
  ASSUME IInv, NEW w \in Workers, Busy(w), NEW label \in TaskSteps, Move(w, label),
         tasks[w].kind = "delete" =>
           label \in {"delete", "freeing", "tail", "release", "done"},
         inUse' = inUse
  PROVE  TasksOK' /\ EnvironmentExclusive'
<1>1. TasksOK
  BY DEF IInv, TypeOK, TasksOK
<1>2. TasksOK' /\ \A v \in Workers : Busy(v)' => Busy(v) /\ tasks'[v].env = tasks[v].env
  BY <1>1, MoveKeeps
<1> QED
  BY <1>2, ExclusiveKept DEF IInv

\* What is left behind belongs to environments.
LEMMA LeftType ==
  ASSUME left \in SUBSET Envs, NEW e \in Envs, Leave(e) \/ Keep(e) \/ left' = left
  PROVE  left' \in SUBSET Envs
BY DEF Leave, Keep

\* Every step of the main thread keeps the invariant.
LEMMA MainStepKeeps ==
  ASSUME IInv, MainStep
  PROVE  IInv'
<1> USE DEF IInv, Goto, EnvironmentStatus, TestStatus, vars, mainVars, loopVars, fetchVars, envVars, flagVars, deployVars, caseVars
<1>1. CASE WaitWorker
  <2>1. TasksOK' /\ EnvironmentExclusive'
    BY <1>1, TasksReaped DEF WaitWorker
  <2>2. TypeOK'
    BY <1>1, <2>1, RunbookAssumption DEF TypeOK, TasksOK, WaitWorker, Abort
  <2> QED
    BY <2>1, <2>2 DEF IInv
<1>2. CASE RunnerIsDone
  <2>1. TasksOK' /\ EnvironmentExclusive'
    BY <1>2, TasksUnchanged DEF RunnerIsDone
  <2>2. TypeOK'
    BY <1>2, <2>1, RunbookAssumption DEF TypeOK, TasksOK, RunnerIsDone
  <2> QED
    BY <2>1, <2>2 DEF IInv
<1>3. CASE LeaveSubmitLoop
  <2>1. TasksOK' /\ EnvironmentExclusive'
    BY <1>3, TasksReaped DEF LeaveSubmitLoop
  <2>2. TypeOK'
    BY <1>3, <2>1, RunbookAssumption DEF TypeOK, TasksOK, LeaveSubmitLoop
  <2> QED
    BY <2>1, <2>2 DEF IInv
<1>4. CASE FetchTask
  <2>1. TasksOK' /\ EnvironmentExclusive'
    BY <1>4, TasksReaped DEF FetchTask
  <2>2. TypeOK'
    BY <1>4, <2>1, RunbookAssumption DEF TypeOK, TasksOK, FetchTask
  <2> QED
    BY <2>1, <2>2 DEF IInv
<1>5. CASE Drain
  <2>1. TasksOK' /\ EnvironmentExclusive'
    BY <1>5, TasksReaped DEF Drain
  <2>2. TypeOK'
    BY <1>5, <2>1, RunbookAssumption DEF TypeOK, TasksOK, Drain
  <2> QED
    BY <2>1, <2>2 DEF IInv
<1>6. ASSUME NEW e \in Envs, PrepareProceeds(e) PROVE IInv'
  <2>1. TasksOK' /\ EnvironmentExclusive'
    BY <1>6, TasksUnchanged DEF PrepareProceeds
  <2>2. TypeOK'
    BY <1>6, <2>1, RunbookAssumption DEF TypeOK, TasksOK, PrepareProceeds, NeedsPreparing
  <2> QED
    BY <2>1, <2>2 DEF IInv
<1>7. ASSUME NEW e \in Envs, PrepareFails(e) PROVE IInv'
  <2>1. TasksOK' /\ EnvironmentExclusive'
    BY <1>7, TasksUnchanged DEF PrepareFails
  <2>2. TypeOK'
    BY <1>7, <2>1, RunbookAssumption DEF TypeOK, TasksOK, PrepareFails, FailedStatus, Abort
  <2> QED
    BY <2>1, <2>2 DEF IInv
<1>8. CASE PrepareEnds
  <2>1. TasksOK' /\ EnvironmentExclusive'
    BY <1>8, TasksUnchanged DEF PrepareEnds
  <2>2. TypeOK'
    BY <1>8, <2>1, RunbookAssumption DEF TypeOK, TasksOK, PrepareEnds
  <2> QED
    BY <2>1, <2>2 DEF IInv
<1>9. CASE ShouldEarlyStop
  <2>1. TasksOK' /\ EnvironmentExclusive'
    BY <1>9, TasksUnchanged DEF ShouldEarlyStop
  <2>2. TypeOK'
    BY <1>9, <2>1, RunbookAssumption DEF TypeOK, TasksOK, ShouldEarlyStop, WithStatus
  <2> QED
    BY <2>1, <2>2 DEF IInv
<1>10. CASE CleanupDeletedEnvironments
  <2>1. TasksOK' /\ EnvironmentExclusive'
    BY <1>10, TasksUnchanged DEF CleanupDeletedEnvironments
  <2>2. TypeOK'
    BY <1>10, <2>1, RunbookAssumption DEF TypeOK, TasksOK, CleanupDeletedEnvironments
  <2> QED
    BY <2>1, <2>2 DEF IInv
<1>11. CASE CleanupDoneResults
  <2>1. TasksOK' /\ EnvironmentExclusive'
    BY <1>11, TasksUnchanged DEF CleanupDoneResults
  <2>2. TypeOK'
    BY <1>11, <2>1, RunbookAssumption DEF TypeOK, TasksOK, CleanupDoneResults
  <2> QED
    BY <2>1, <2>2 DEF IInv
<1>12. CASE SortEnvironments
  <2>1. TasksOK' /\ EnvironmentExclusive'
    BY <1>12, TasksUnchanged DEF SortEnvironments
  <2>2. TypeOK'
    BY <1>12, <2>1, RunbookAssumption DEF TypeOK, TasksOK, SortEnvironments, SortedStatus
  <2> QED
    BY <2>1, <2>2 DEF IInv
<1>13. CASE DeleteUnusedEnvironments
  <2> DEFINE idle      == {e \in environments : DeployedNotInUse(e)}
             connected == {e \in idle : envStatus[e] = "Connected"}
             deletable == {e \in idle : Runnable(e, test_results) = {}}
             Skip(es)  == WithStatus(UNION {OsSkipped(e, test_results) : e \in es}, "SKIPPED")
  <2>1. \A es : Skip(es) \in [Results -> TestStatus]
    BY WithStatusType DEF TypeOK
  <2>2. CASE status' = Skip(connected) /\ Goto("dispatch")
             /\ UNCHANGED <<inUse, tasks, ranked, available, availableResults>>
    <3> HIDE DEF Skip
    <3>1. TasksOK' /\ EnvironmentExclusive'
      BY <2>2, TasksUnchanged
    <3>2. TypeOK'
      BY <1>13, <2>1, <2>2, <3>1 DEF TypeOK, TasksOK, DeleteUnusedEnvironments
    <3> QED
      BY <3>1, <3>2
  <2>3. ASSUME NEW e \in deletable, NEW seen,
               GenerateTask("delete", e, None, {}, Skip(seen \cup {e}))
        PROVE  IInv'
    <3>1. e \in Envs /\ ~inUse[e]
      BY DEF TypeOK, DeployedNotInUse
    <3> HIDE DEF Skip, deletable
    <3>2. /\ TasksOK' /\ EnvironmentExclusive'
          /\ inUse' \in [Envs -> BOOLEAN]
          /\ status' \in [Results -> TestStatus]
          /\ pc' = "submit"
          /\ ranked' \in [1..4 -> SUBSET Envs]
          /\ available' = {} /\ availableResults' = {}
      BY <2>1, <2>3, <3>1, GenerateTaskKeeps
    <3>3. TypeOK'
      BY <1>13, <3>2 DEF TypeOK, TasksOK, DeleteUnusedEnvironments
    <3> QED
      BY <3>2, <3>3
  <2> QED
    BY <1>13, <2>2, <2>3 DEF DeleteUnusedEnvironments
<1>14. ASSUME NEW e \in Envs, VisitEnvironment(e) PROVE IInv'
  <2>1. TasksOK' /\ EnvironmentExclusive'
    BY <1>14, TasksUnchanged DEF VisitEnvironment
  <2>2. TypeOK'
    BY <1>14, <2>1, RunbookAssumption DEF TypeOK, TasksOK, VisitEnvironment, WithStatus
  <2> QED
    BY <2>1, <2>2 DEF IInv
<1>15. ASSUME NEW e \in Envs, DispatchTestResult(e) PROVE IInv'
  <2>0. PICK rs \in EnvironmentResults(e) : \E t \in Dispatch(e, rs) :
          GenerateTask(t[1], e, t[2], t[3], WithStatus(OsSkippedByDispatch(e), "SKIPPED"))
    BY <1>15 DEF DispatchTestResult
  <2>1. PICK t \in Dispatch(e, rs) :
          GenerateTask(t[1], e, t[2], t[3], WithStatus(OsSkippedByDispatch(e), "SKIPPED"))
    BY <2>0
  <2>2. rs \in SUBSET Results
    BY EnvironmentResultsType
  <2>3. t[1] \in {"deploy", "init", "run"} /\ t[2] \in Results /\ t[3] \in SUBSET Results
    BY <2>2, DispatchType
  <2>4. WithStatus(OsSkippedByDispatch(e), "SKIPPED") \in [Results -> TestStatus]
    BY WithStatusType DEF TypeOK
  <2>5. ~inUse[e]
    BY <1>15 DEF DispatchTestResult
  <2>6. /\ TasksOK' /\ EnvironmentExclusive'
        /\ inUse' \in [Envs -> BOOLEAN]
        /\ status' \in [Results -> TestStatus]
        /\ pc' = "submit"
        /\ ranked' \in [1..4 -> SUBSET Envs]
        /\ available' = {} /\ availableResults' = {}
    BY <2>1, <2>3, <2>4, <2>5, GenerateTaskKeeps
  <2>7. TypeOK'
    BY <1>15, <2>6 DEF TypeOK, TasksOK, DispatchTestResult
  <2> QED
    BY <2>6, <2>7
<1>16. CASE SkipTestResults
  <2>1. TasksOK' /\ EnvironmentExclusive'
    BY <1>16, TasksUnchanged DEF SkipTestResults
  <2>2. TypeOK'
    BY <1>16, <2>1, RunbookAssumption DEF TypeOK, TasksOK, SkipTestResults, WithStatus, ForgetFetch
  <2> QED
    BY <2>1, <2>2 DEF IInv
<1>17. ASSUME NEW e \in Envs, CloseDeletes(e) PROVE IInv'
  <2>1. TasksOK' /\ EnvironmentExclusive'
    BY <1>17, TasksUnchanged DEF CloseDeletes
  <2>2. TypeOK'
    <3>1. StatusAfterFree \in EnvironmentStatus /\ "Deleted" \in EnvironmentStatus
      BY DEF StatusAfterFree, EnvironmentStatus
    <3>2. envStatus' \in [Envs -> EnvironmentStatus] /\ resources' \in [Envs -> BOOLEAN]
      <4>1. /\ \/ envStatus' = envStatus
               \/ envStatus' = [envStatus EXCEPT ![e] = "Deleted"]
               \/ envStatus' = [envStatus EXCEPT ![e] = StatusAfterFree]
            /\ resources' = resources \/ resources' = [resources EXCEPT ![e] = FALSE]
        BY <1>17, Zenon DEF CloseDeletes
      <4>2. envStatus \in [Envs -> EnvironmentStatus] /\ resources \in [Envs -> BOOLEAN]
        BY DEF TypeOK
      <4> HIDE DEF EnvironmentStatus
      <4>3. envStatus' \in [Envs -> EnvironmentStatus]
        BY <3>1, <4>1, <4>2
      <4>4. resources' \in [Envs -> BOOLEAN]
        BY <4>1, <4>2
      <4> QED
        BY <4>3, <4>4
    <3>3. toVisit' \in SUBSET Envs
      BY <1>17 DEF TypeOK, CloseDeletes
    <3>4. left' \in SUBSET Envs
      <4>1. Leave(e) \/ Keep(e) \/ left' = left
        BY <1>17, Zenon DEF CloseDeletes
      <4> QED
        BY <4>1, LeftType DEF TypeOK
    <3> QED
      BY <1>17, <2>1, <3>2, <3>3, <3>4 DEF TypeOK, TasksOK, CloseDeletes
  <2> QED
    BY <2>1, <2>2 DEF IInv
<1>18. CASE CloseEnds
  <2>1. TasksOK' /\ EnvironmentExclusive'
    BY <1>18, TasksUnchanged DEF CloseEnds
  <2>2. TypeOK'
    BY <1>18, <2>1, RunbookAssumption DEF TypeOK, TasksOK, CloseEnds, Abort
  <2> QED
    BY <2>1, <2>2 DEF IInv
<1> QED
  BY <1>1, <1>2, <1>3, <1>4, <1>5, <1>6, <1>7, <1>8, <1>9, <1>10, <1>11, <1>12,
     <1>13, <1>14, <1>15, <1>16, <1>17, <1>18 DEF MainStep

\* The step a task goes to after a delete.
LEMMA AfterDeleteStep ==
  ASSUME NEW kind \in TaskKinds
  PROVE  AfterDelete[kind] \in TaskSteps /\ (kind = "delete" => AfterDelete[kind] = "tail")
BY DEF AfterDelete, TaskKinds, TaskSteps

\* Every step of a worker keeps the invariant.
LEMMA WorkerStepKeeps ==
  ASSUME IInv, NEW w \in Workers, WorkerStep(w)
  PROVE  IInv'
<1> USE DEF IInv, At, Env, First, Crash, ResetToNew, EnvironmentStatus, TestStatus,
            vars, mainVars, loopVars, fetchVars, envVars, flagVars, deployVars, 
            caseVars
<1>0. TasksOK /\ tasks[w] \in Tasks /\ tasks[w].kind \in TaskKinds
  BY DEF TypeOK, TasksOK, Tasks
<1>1. CASE Subscribe(w)
  <2>1. TasksOK' /\ EnvironmentExclusive'
    BY <1>1, <1>0, TaskMoves DEF Subscribe, TasksOK, Busy, TaskSteps
  <2>2. TypeOK'
    BY <1>1, <2>1, RunbookAssumption DEF TypeOK, TasksOK, Subscribe
  <2> QED
    BY <2>1, <2>2
<1>2. CASE DeploySucceeds(w)
  <2>0. tasks[w].env \in Envs /\ tasks[w].first \in Results
    BY <1>2, <1>0 DEF DeploySucceeds, TasksOK, Busy
  <2>1. TasksOK' /\ EnvironmentExclusive'
    BY <1>2, <1>0, TaskMoves DEF DeploySucceeds, TasksOK, Busy, TaskSteps
  <2>2. envStatus' \in [Envs -> EnvironmentStatus]
    BY <1>2, <2>0, RunbookAssumption DEF TypeOK, DeploySucceeds
  <2>3. resources' \in [Envs -> BOOLEAN]
    BY <1>2, <2>0, RunbookAssumption DEF TypeOK, DeploySucceeds
  <2>4. ran' \in [Envs -> BOOLEAN]
    BY <1>2, <2>0, RunbookAssumption DEF TypeOK, DeploySucceeds
  <2>5. awaits' \in [{"prepare", "deploy"} -> 0..MaxAwaits]
    BY <1>2, <2>0, RunbookAssumption DEF TypeOK, DeploySucceeds
  <2>6. TypeOK'
    BY <1>2, <2>1, <2>2, <2>3, <2>4, <2>5 DEF TypeOK, TasksOK, DeploySucceeds
  <2> QED
    BY <2>1, <2>6
<1>3. CASE DeployFails(w)
  <2>0. tasks[w].env \in Envs /\ tasks[w].first \in Results
    BY <1>3, <1>0 DEF DeployFails, TasksOK, Busy
  <2>1. TasksOK' /\ EnvironmentExclusive'
    BY <1>3, <1>0, TaskMoves DEF DeployFails, TasksOK, Busy, TaskSteps
  <2>2. envStatus' \in [Envs -> EnvironmentStatus]
    BY <1>3, <2>0, RunbookAssumption DEF TypeOK, DeployFails
  <2>3. resources' \in [Envs -> BOOLEAN]
    BY <1>3, <2>0, RunbookAssumption DEF TypeOK, DeployFails
  <2>4. ran' \in [Envs -> BOOLEAN]
    BY <1>3, <2>0 DEF TypeOK, DeployFails
  <2>5. TypeOK'
    BY <1>3, <2>1, <2>2, <2>3, <2>4 DEF TypeOK, TasksOK, DeployFails
  <2> QED
    BY <2>1, <2>5
<1>4. CASE DeployAwaits(w)
  <2>0. tasks[w].env \in Envs /\ tasks[w].first \in Results
    BY <1>4, <1>0 DEF DeployAwaits, TasksOK, Busy
  <2>1. TasksOK' /\ EnvironmentExclusive'
    BY <1>4, <1>0, TaskMoves DEF DeployAwaits, TasksOK, Busy, TaskSteps
  <2>2. envStatus' \in [Envs -> EnvironmentStatus]
    BY <1>4, <2>0, RunbookAssumption DEF TypeOK, DeployAwaits
  <2>3. resources' \in [Envs -> BOOLEAN]
    BY <1>4, <2>0, RunbookAssumption DEF TypeOK, DeployAwaits
  <2>4. TypeOK'
    BY <1>4, <2>1, <2>2, <2>3 DEF TypeOK, TasksOK, DeployAwaits
  <2> QED
    BY <2>1, <2>4
<1>5. CASE AwaitResource(w)
  <2>0. tasks[w].env \in Envs /\ tasks[w].first \in Results
    BY <1>5, <1>0 DEF AwaitResource, TasksOK, Busy
  <2>1. TasksOK' /\ EnvironmentExclusive'
    BY <1>5, <1>0, TaskMoves DEF AwaitResource, TasksOK, Busy, TaskSteps
  <2>2. envStatus' \in [Envs -> EnvironmentStatus]
    BY <1>5, <2>0, RunbookAssumption DEF TypeOK, AwaitResource
  <2>3. isNew' \in [Envs -> BOOLEAN]
    BY <1>5, <2>0, RunbookAssumption DEF TypeOK, AwaitResource
  <2>4. resources' \in [Envs -> BOOLEAN]
    BY <1>5, <2>0, RunbookAssumption DEF TypeOK, AwaitResource
  <2>5. orphaned' \in SUBSET Envs /\ left' \in SUBSET Envs /\ nodeDirty' \in [Envs -> BOOLEAN]
    <3>1. left' \in SUBSET Envs
      BY <1>5, <2>0, LeftType DEF TypeOK, AwaitResource
    <3>2. orphaned' \in SUBSET Envs
      BY <1>5, <2>0 DEF TypeOK, AwaitResource
    <3>3. nodeDirty' \in [Envs -> BOOLEAN]
      BY <1>5, <2>0 DEF TypeOK, AwaitResource
    <3> QED
      BY <3>1, <3>2, <3>3
  <2>6. awaits' \in [{"prepare", "deploy"} -> 0..MaxAwaits]
    BY <1>5, <2>0, RunbookAssumption DEF TypeOK, AwaitResource
  <2>7. TypeOK'
    BY <1>5, <2>1, <2>2, <2>3, <2>4, <2>5, <2>6 DEF TypeOK, TasksOK, AwaitResource
  <2> QED
    BY <2>1, <2>7
<1>6. CASE NeedRetry(w)
  <2>0. tasks[w].env \in Envs /\ tasks[w].first \in Results
    BY <1>6, <1>0 DEF NeedRetry, TasksOK, Busy
  <2>1. TasksOK' /\ EnvironmentExclusive'
    BY <1>6, <1>0, TaskMoves DEF NeedRetry, TasksOK, Busy, TaskSteps
  <2>2. envStatus' \in [Envs -> EnvironmentStatus]
    BY <1>6, <2>0, RunbookAssumption DEF TypeOK, NeedRetry, MayRetry, TriedAgain
  <2>3. isNew' \in [Envs -> BOOLEAN]
    BY <1>6, <2>0, RunbookAssumption DEF TypeOK, NeedRetry, MayRetry, TriedAgain
  <2>4. resources' \in [Envs -> BOOLEAN]
    BY <1>6, <2>0, RunbookAssumption DEF TypeOK, NeedRetry, MayRetry, TriedAgain
  <2>5. orphaned' \in SUBSET Envs /\ left' \in SUBSET Envs /\ nodeDirty' \in [Envs -> BOOLEAN]
    <3>1. left' \in SUBSET Envs
      BY <1>6, <2>0, LeftType DEF TypeOK, NeedRetry
    <3>2. orphaned' \in SUBSET Envs
      BY <1>6, <2>0 DEF TypeOK, NeedRetry
    <3>3. nodeDirty' \in [Envs -> BOOLEAN]
      BY <1>6, <2>0 DEF TypeOK, NeedRetry
    <3> QED
      BY <3>1, <3>2, <3>3
  <2>6. triedTimes' \in [Envs -> 0..EnvRetry]
    BY <1>6, <2>0, RunbookAssumption DEF TypeOK, NeedRetry, MayRetry, TriedAgain
  <2>7. TypeOK'
    BY <1>6, <2>1, <2>2, <2>3, <2>4, <2>5, <2>6 DEF TypeOK, TasksOK, NeedRetry
  <2> QED
    BY <2>1, <2>7
<1>7. CASE AttachFailure(w)
  <2>1. TasksOK' /\ EnvironmentExclusive'
    BY <1>7, <1>0, TaskMoves DEF AttachFailure, TasksOK, Busy, TaskSteps
  <2>2. TypeOK'
    BY <1>7, <2>1, RunbookAssumption DEF TypeOK, TasksOK, AttachFailure, FailedStatus
  <2> QED
    BY <2>1, <2>2
<1>8. CASE DeleteEnvironment(w)
  <2>1. TasksOK' /\ EnvironmentExclusive'
    BY <1>8, <1>0, AfterDeleteStep, TaskMoves DEF DeleteEnvironment, TasksOK, Busy, TaskSteps
  <2>2. TypeOK'
    <3>1. tasks[w].env \in Envs
      BY <1>8, <1>0 DEF DeleteEnvironment, TasksOK, Busy
    <3>2. envStatus' \in [Envs -> EnvironmentStatus]
      BY <1>8, <3>1 DEF TypeOK, DeleteEnvironment
    <3>3. left' \in SUBSET Envs
      <4>1. Leave(Env(w)) \/ Keep(Env(w)) \/ left' = left
        BY <1>8, Zenon DEF DeleteEnvironment
      <4>2. Env(w) \in Envs /\ left \in SUBSET Envs
        BY <3>1 DEF TypeOK, Env
      <4> QED
        BY <4>1, <4>2, LeftType
    <3> QED
      BY <1>8, <2>1, <3>2, <3>3 DEF TypeOK, TasksOK, DeleteEnvironment
  <2> QED
    BY <2>1, <2>2
<1>9. CASE FreeResources(w)
  <2>1. TasksOK' /\ EnvironmentExclusive'
    BY <1>9, <1>0, AfterDeleteStep, TaskMoves DEF FreeResources, TasksOK, Busy, TaskSteps
  <2>2. TypeOK'
    <3>1. tasks[w].env \in Envs /\ StatusAfterFree \in EnvironmentStatus
      BY <1>9, <1>0 DEF FreeResources, TasksOK, Busy, StatusAfterFree
    <3>2. envStatus' \in [Envs -> EnvironmentStatus] /\ resources' \in [Envs -> BOOLEAN]
      <4>1. /\ envStatus' = envStatus \/ envStatus' = [envStatus EXCEPT ![Env(w)] = StatusAfterFree]
            /\ resources' = resources \/ resources' = [resources EXCEPT ![Env(w)] = FALSE]
        BY <1>9, Zenon DEF FreeResources
      <4>2. envStatus \in [Envs -> EnvironmentStatus] /\ resources \in [Envs -> BOOLEAN]
        BY DEF TypeOK
      <4> HIDE DEF EnvironmentStatus
      <4>3. envStatus' \in [Envs -> EnvironmentStatus]
        BY <3>1, <4>1, <4>2
      <4>4. resources' \in [Envs -> BOOLEAN]
        BY <4>1, <4>2
      <4> QED
        BY <4>3, <4>4
    <3>3. left' \in SUBSET Envs
      <4>1. Leave(Env(w)) \/ left' = left
        BY <1>9, Zenon DEF FreeResources
      <4>2. Env(w) \in Envs /\ left \in SUBSET Envs
        BY <3>1 DEF TypeOK, Env
      <4> QED
        BY <4>1, <4>2, LeftType
    <3> QED
      BY <1>9, <2>1, <3>2, <3>3 DEF TypeOK, TasksOK, FreeResources
  <2> QED
    BY <2>1, <2>2
<1>10. CASE Unsubscribe(w)
  <2>1. TasksOK' /\ EnvironmentExclusive'
    BY <1>10, <1>0, TaskMoves DEF Unsubscribe, TasksOK, Busy, TaskSteps
  <2>2. TypeOK'
    BY <1>10, <2>1, RunbookAssumption DEF TypeOK, TasksOK, Unsubscribe
  <2> QED
    BY <2>1, <2>2
<1>11. CASE InitializeSucceeds(w)
  <2>1. TasksOK' /\ EnvironmentExclusive'
    BY <1>11, <1>0, TaskMoves DEF InitializeSucceeds, TasksOK, Busy, TaskSteps
  <2>2. TypeOK'
    BY <1>11, <2>1, RunbookAssumption DEF TypeOK, TasksOK, InitializeSucceeds
  <2> QED
    BY <2>1, <2>2
<1>12. CASE InitializeFails(w)
  <2>1. TasksOK' /\ EnvironmentExclusive'
    BY <1>12, <1>0, TaskMoves DEF InitializeFails, TasksOK, Busy, TaskSteps
  <2>2. TypeOK'
    BY <1>12, <2>1, RunbookAssumption DEF TypeOK, TasksOK, InitializeFails
  <2> QED
    BY <2>1, <2>2
<1>13. CASE BeginCase(w)
  <2>1. TasksOK' /\ EnvironmentExclusive'
    BY <1>13, <1>0, TaskMoves DEF BeginCase, TasksOK, Busy, TaskSteps
  <2>2. TypeOK'
    BY <1>13, <2>1, RunbookAssumption DEF TypeOK, TasksOK, BeginCase
  <2> QED
    BY <2>1, <2>2
<1>14. CASE RunCase(w)
  <2>1. TasksOK' /\ EnvironmentExclusive'
    BY <1>14, <1>0, TaskMoves DEF RunCase, TasksOK, Busy, TaskSteps
  <2>2. nodeDirty' \in [Envs -> BOOLEAN]
    BY <1>14 DEF TypeOK, RunCase
  <2>3. /\ status' \in [Results -> TestStatus] /\ envStatus' \in [Envs -> EnvironmentStatus]
    BY <1>14 DEF TypeOK, RunCase, FailedStatus
  <2>4. TypeOK'
    BY <1>14, <2>1, <2>2, <2>3 DEF TypeOK, TasksOK, RunCase
  <2> QED
    BY <2>1, <2>4
<1>15. CASE CloseCaseLog(w)
  <2>1. TasksOK' /\ EnvironmentExclusive'
    BY <1>15, <1>0, TaskMoves DEF CloseCaseLog, TasksOK, Busy, TaskSteps
  <2>2. TypeOK'
    BY <1>15, <2>1, RunbookAssumption DEF TypeOK, TasksOK, CloseCaseLog
  <2> QED
    BY <2>1, <2>2
<1>16. CASE CheckConnections(w)
  <2>0. tasks[w].env \in Envs /\ tasks[w].first \in Results
    BY <1>16, <1>0 DEF CheckConnections, TasksOK, Busy
  <2>1. TasksOK' /\ EnvironmentExclusive'
    BY <1>16, <1>0, TaskMoves DEF CheckConnections, TasksOK, Busy, TaskSteps
  <2>2. envStatus' \in [Envs -> EnvironmentStatus]
    BY <1>16, <2>0, RunbookAssumption DEF TypeOK, CheckConnections
  <2>3. status' \in [Results -> TestStatus]
    BY <1>16, <2>0, RunbookAssumption DEF TypeOK, CheckConnections
  <2>4. left' \in SUBSET Envs
    BY <1>16, <2>0 DEF TypeOK, CheckConnections, Keep, Leave
  <2>5. TypeOK'
    BY <1>16, <2>1, <2>2, <2>3, <2>4 DEF TypeOK, TasksOK, CheckConnections
  <2> QED
    BY <2>1, <2>5
<1>17. CASE RetryCase(w)
  <2>1. CASE tasks' = [tasks EXCEPT ![w].kind = "rerun", ![w].pc = "delete"]
    <3>1. /\ tasks' \in [Workers -> Tasks]
          /\ tasks'[w].env = tasks[w].env /\ tasks'[w].first = tasks[w].first
          /\ tasks'[w].kind = "rerun" /\ tasks'[w].pc = "delete"
          /\ \A v \in Workers \ {w} : tasks'[v] = tasks[v]
      BY <1>0, <2>1 DEF TasksOK, Tasks, TaskKinds, TaskSteps
    <3>2. Busy(w) /\ tasks[w].kind # "delete"
      BY <1>17, <1>0 DEF RetryCase, Busy, TasksOK
    <3>3. \A v \in Workers : Busy(v)' => Busy(v) /\ tasks'[v].env = tasks[v].env
      BY <3>1, <3>2 DEF Busy
    <3>4. TasksOK'
      BY <1>0, <3>1, <3>2, <3>3 DEF TasksOK, Busy
    <3>5. EnvironmentExclusive'
      BY <1>17, <3>3, ExclusiveKept DEF RetryCase
    <3>6. TypeOK'
      BY <1>17, <3>4 DEF TypeOK, TasksOK, RetryCase
    <3> QED
      BY <3>5, <3>6
  <2>2. CASE Move(w, "tail")
    <3>1. TasksOK' /\ EnvironmentExclusive'
      BY <1>17, <1>0, <2>2, TaskMoves DEF RetryCase, TasksOK, Busy, TaskSteps
    <3>2. TypeOK'
      BY <1>17, <3>1 DEF TypeOK, TasksOK, RetryCase
    <3> QED
      BY <3>1, <3>2
  <2> QED
    BY <1>17, <2>1, <2>2 DEF RetryCase
<1>18. CASE RenewEnvironment(w)
  <2>0. tasks[w].env \in Envs /\ tasks[w].first \in Results
    BY <1>18, <1>0 DEF RenewEnvironment, TasksOK, Busy
  <2>1. TasksOK' /\ EnvironmentExclusive'
    BY <1>18, <1>0, TaskMoves DEF RenewEnvironment, TasksOK, Busy, TaskSteps
  <2>2. envStatus' \in [Envs -> EnvironmentStatus]
    BY <1>18, <2>0, RunbookAssumption DEF TypeOK, RenewEnvironment
  <2>3. isNew' \in [Envs -> BOOLEAN]
    BY <1>18, <2>0, RunbookAssumption DEF TypeOK, RenewEnvironment
  <2>4. resources' \in [Envs -> BOOLEAN]
    BY <1>18, <2>0, RunbookAssumption DEF TypeOK, RenewEnvironment
  <2>5. orphaned' \in SUBSET Envs /\ nodeDirty' \in [Envs -> BOOLEAN]
    BY <1>18, <2>0, RunbookAssumption DEF TypeOK, RenewEnvironment
  <2>6. TypeOK'
    BY <1>18, <2>1, <2>2, <2>3, <2>4, <2>5 DEF TypeOK, TasksOK, RenewEnvironment
  <2> QED
    BY <2>1, <2>6
<1>19. CASE RequeueCase(w)
  <2>0. tasks[w].env \in Envs /\ tasks[w].first \in Results
    BY <1>19, <1>0 DEF RequeueCase, TasksOK, Busy
  <2>1. TasksOK' /\ EnvironmentExclusive'
    BY <1>19, <1>0, TaskMoves DEF RequeueCase, TasksOK, Busy, TaskSteps
  <2>2. status' \in [Results -> TestStatus]
    BY <1>19, <2>0, RunbookAssumption DEF TypeOK, RequeueCase
  <2>3. retried' \in [Results -> Nat]
    BY <1>19, <2>0, RunbookAssumption DEF TypeOK, RequeueCase
  <2>4. TypeOK'
    BY <1>19, <2>1, <2>2, <2>3 DEF TypeOK, TasksOK, RequeueCase
  <2> QED
    BY <2>1, <2>4
<1>20. CASE ReturnAssigned(w)
  <2>1. TasksOK' /\ EnvironmentExclusive'
    BY <1>20, <1>0, TaskMoves DEF ReturnAssigned, TasksOK, Busy, TaskSteps
  <2>2. TypeOK'
    <3>1. status' \in [Results -> TestStatus]
      BY <1>20, Zenon, WithStatusType DEF TypeOK, ReturnAssigned
    <3> QED
      BY <1>20, <2>1, <3>1 DEF TypeOK, TasksOK, ReturnAssigned
  <2> QED
    BY <2>1, <2>2
<1>21. CASE ReleaseEnvironment(w)
  <2>1. Busy(w) /\ ~Busy(w)' /\ TasksOK'
        /\ \A v \in Workers : Busy(v)' => Busy(v) /\ tasks'[v].env = tasks[v].env
    BY <1>21, <1>0, MoveKeeps DEF ReleaseEnvironment, Busy, TaskSteps, TasksOK, Move, Tasks
  <2>2. ASSUME NEW v \in Workers, Busy(v)'
        PROVE  inUse'[tasks'[v].env]
    BY <1>21, <1>0, <2>1, <2>2 DEF ReleaseEnvironment, TasksOK, TypeOK, EnvironmentExclusive
  <2>3. EnvironmentExclusive'
    BY <2>1, <2>2 DEF EnvironmentExclusive
  <2>4. TypeOK'
    BY <1>21, <2>1 DEF TypeOK, TasksOK, ReleaseEnvironment
  <2> QED
    BY <2>3, <2>4
<1> QED
  BY <1>1, <1>2, <1>3, <1>4, <1>5, <1>6, <1>7, <1>8, <1>9, <1>10, <1>11, <1>12,
     <1>13, <1>14, <1>15, <1>16, <1>17, <1>18, <1>19, <1>20, <1>21 DEF WorkerStep

\* The invariant holds at first, and every step keeps it.
LEMMA Invariance == Spec => []IInv
<1>1. Init => IInv
  <2> SUFFICES ASSUME Init PROVE IInv
    OBVIOUS
  <2>1. tasks \in [Workers -> Tasks] /\ \A w \in Workers : ~Busy(w)
    BY DEF Init, Idle, Tasks, TaskSteps, TaskKinds, Busy
  <2>2. TypeOK
    <3>1. triedTimes \in [Envs -> 0..EnvRetry]
      BY RunbookAssumption DEF Init
    <3>2. awaits \in [{"prepare", "deploy"} -> 0..MaxAwaits]
      BY RunbookAssumption DEF Init
    <3>3. retried \in [Results -> Nat] /\ pass \in 1..4 /\ ranked \in [1..4 -> SUBSET Envs]
      BY DEF Init
    <3>4. status \in [Results -> TestStatus] /\ envStatus \in [Envs -> EnvironmentStatus]
      BY DEF Init, TestStatus, EnvironmentStatus
    <3>5. /\ inUse \in [Envs -> BOOLEAN] /\ isNew \in [Envs -> BOOLEAN]
          /\ isDirty \in [Envs -> BOOLEAN] /\ nodeDirty \in [Envs -> BOOLEAN]
          /\ resources \in [Envs -> BOOLEAN]
          /\ ran \in [Envs -> BOOLEAN] /\ logHandler \in [Results -> BOOLEAN]
      BY DEF Init
    <3> QED
      BY <2>1, <3>1, <3>2, <3>3, <3>4, <3>5 DEF Init, TypeOK
  <2> QED
    BY <2>1, <2>2 DEF IInv, EnvironmentExclusive
<1>2. IInv /\ [Next]_vars => IInv'
  <2> SUFFICES ASSUME IInv, [Next]_vars PROVE IInv'
    OBVIOUS
  <2>1. CASE MainStep
    BY <2>1, MainStepKeeps
  <2>2. ASSUME NEW w \in Workers, WorkerStep(w) PROVE IInv'
    BY <2>2, WorkerStepKeeps
  <2>3. CASE UNCHANGED vars
    <3>1. TasksOK' /\ EnvironmentExclusive'
      BY <2>3, TasksUnchanged DEF vars, envVars
    <3>2. TypeOK'
      BY <2>3, <3>1 DEF IInv, TypeOK, TasksOK, vars, mainVars, loopVars, fetchVars, envVars, flagVars, deployVars, caseVars
    <3> QED
      BY <3>1, <3>2 DEF IInv
  <2> QED
    BY <2>1, <2>2, <2>3 DEF Next, Terminated
<1> QED
  BY <1>1, <1>2, PTL DEF Spec

\* Every field of the scheduler, its environments and results keeps its type, and a task
\* has the environment and the result that its next statement works on.
THEOREM TypeCorrect == Spec => []TypeOK
BY Invariance, PTL DEF IInv

\* _generate_task, _run_task and the reaping of futures make a task the only user of its
\* environment, whatever the number of threads and whatever fails.
THEOREM Exclusion == Spec => []EnvironmentExclusive
BY Invariance, PTL DEF IInv

-----------------------------------------------------------------------------
(* A result has one worker, where the environments are those of the runbook
   and no case is retried.  It is inductive together with this: a result in
   the hands of a worker is not queued, so nobody else is offered it. *)

\* A result a task may still write is not offered to others.
HeldNotQueued == \A w \in Workers, r \in Results : Holds(w, r) => status[r] # "QUEUED"

\* No task is on the path of a retry.
NoRerun == \A w \in Workers : Busy(w) =>
  tasks[w].kind # "rerun" /\ tasks[w].pc \notin {"renew", "requeue"}

ResultInv == ResultOwnedOnce /\ HeldNotQueued /\ NoRerun

\* A step that gives no worker a result and queues none.
LEMMA HoldsKept ==
  ASSUME ResultInv,
         \A v \in Workers : Busy(v)' => Busy(v) /\ tasks'[v].kind = tasks[v].kind,
         \A v \in Workers : Busy(v)' => tasks'[v].pc \notin {"renew", "requeue"},
         \A v \in Workers, r \in Results : Holds(v, r)' => Holds(v, r),
         \A v \in Workers, r \in Results :
            Holds(v, r)' /\ status'[r] = "QUEUED" => status[r] = "QUEUED"
  PROVE  ResultInv'
<1>1. ResultOwnedOnce'
  BY DEF ResultInv, ResultOwnedOnce
<1>2. HeldNotQueued'
  BY DEF ResultInv, HeldNotQueued
<1>3. NoRerun'
  BY DEF ResultInv, NoRerun
<1> QED
  BY <1>1, <1>2, <1>3 DEF ResultInv

\* A step that leaves the running tasks alone, and queues no result.
LEMMA MainKeepsResults ==
  ASSUME IInv, ResultInv, tasks' = tasks \/ tasks' = Reaped,
         \A r \in Results : status'[r] = "QUEUED" => status[r] = "QUEUED"
  PROVE  ResultInv'
<1>1. \A v \in Workers : Busy(v)' => Busy(v) /\ tasks'[v] = tasks[v]
  <2>1. CASE tasks' = tasks
    BY <2>1 DEF Busy
  <2>2. CASE tasks' = Reaped
    BY <2>2, ReapedKeeps DEF IInv, TypeOK, TasksOK
  <2> QED
    BY <2>1, <2>2
<1>2. \A v \in Workers, r \in Results : Holds(v, r)' => Holds(v, r)
  BY <1>1 DEF Holds, At
<1>3. \A v \in Workers : Busy(v)' => tasks'[v].pc \notin {"renew", "requeue"}
  BY <1>1 DEF ResultInv, NoRerun
<1> QED
  BY <1>1, <1>2, <1>3, HoldsKept

\* _generate_task with queued results: they become assigned, and nobody had them.
LEMMA GenerateKeepsResults ==
  ASSUME IInv, ResultInv, NEW kind \in {"deploy", "init", "run", "delete"}, NEW e, NEW first,
         NEW rs \in SUBSET Results, NEW newStatus,
         GenerateTask(kind, e, first, rs, newStatus),
         \A r \in rs : status[r] = "QUEUED",
         \A r \in Results : newStatus[r] = "QUEUED" => status[r] = "QUEUED"
  PROVE  ResultInv'
<1> DEFINE task == [pc |-> FirstStep[kind], kind |-> kind, env |-> e, first |-> first,
                    results |-> rs]
<1>1. PICK w \in Workers : ~Busy(w) /\ tasks' = [Reaped EXCEPT ![w] = task]
  BY DEF GenerateTask
<1>2. /\ tasks'[w] = task
      /\ \A v \in Workers \ {w} : tasks'[v] = IF Busy(v) THEN tasks[v] ELSE Idle
  BY <1>1 DEF Reaped
<1>3. \A v \in Workers \ {w} : Busy(v)' => Busy(v) /\ tasks'[v] = tasks[v]
  BY <1>2 DEF Busy, Idle
<1>4. /\ tasks'[w].results = rs /\ tasks'[w].kind = kind
      /\ tasks'[w].pc \in {"subscribe", "init", "begin", "delete"}
  BY <1>2 DEF FirstStep
<1>5. \A v \in Workers \ {w}, r \in Results : Holds(v, r)' => Holds(v, r)
  BY <1>3 DEF Holds, At
<1>6. \A r \in Results : Holds(w, r)' => r \in rs
  BY <1>4 DEF Holds
<1>7. \A v \in Workers, r \in rs : ~Holds(v, r)
  BY DEF ResultInv, HeldNotQueued
<1>8. \A r \in Results : status'[r] = "QUEUED" => status[r] = "QUEUED" /\ r \notin rs
  BY DEF GenerateTask, Assigned
<1>9. ResultOwnedOnce'
  BY <1>5, <1>6, <1>7 DEF ResultOwnedOnce, ResultInv
<1>10. HeldNotQueued'
  BY <1>5, <1>6, <1>8 DEF HeldNotQueued, ResultInv
<1>11. NoRerun'
  BY <1>3, <1>4 DEF NoRerun, ResultInv
<1> QED
  BY <1>9, <1>10, <1>11 DEF ResultInv

\* A worker that goes on with its task holds nothing new.
LEMMA MoveKeepsResults ==
  ASSUME IInv, ResultInv, NEW w \in Workers, Busy(w), NEW label \in TaskSteps, Move(w, label),
         At(w, "release") => label = "done", label \notin {"renew", "requeue"},
         \A r \in Results : status'[r] = "QUEUED" =>
            status[r] = "QUEUED" \/ (label = "release" /\ Holds(w, r))
  PROVE  ResultInv'
<1>1. /\ tasks'[w].pc = label
      /\ tasks'[w].kind = tasks[w].kind /\ tasks'[w].results = tasks[w].results
      /\ \A v \in Workers \ {w} : tasks'[v] = tasks[v]
  BY DEF IInv, TypeOK, Move, Tasks
<1>2. \A v \in Workers : Busy(v)' => Busy(v) /\ tasks'[v].kind = tasks[v].kind
  BY <1>1 DEF Busy
<1>3. \A v \in Workers : Busy(v)' => tasks'[v].pc \notin {"renew", "requeue"}
  BY <1>1, <1>2 DEF ResultInv, NoRerun
<1>4. \A v \in Workers, r \in Results : Holds(v, r)' => Holds(v, r)
  BY <1>1, <1>2 DEF Holds, At, Busy
<1>5. label = "release" => \A r \in Results : ~Holds(w, r)'
  BY <1>1 DEF Holds, At
<1>6. \A v \in Workers, r \in Results :
         Holds(v, r)' /\ status'[r] = "QUEUED" => status[r] = "QUEUED"
  BY <1>4, <1>5 DEF ResultInv, ResultOwnedOnce
<1> QED
  BY <1>2, <1>3, <1>4, <1>6, HoldsKept

\* What the scheduler offers an environment of the runbook is queued.
LEMMA OfferedIsQueued ==
  ASSUME TypeOK, NEW e \in Envs, IsPredefined(e), NEW rs \in EnvironmentResults(e)
  PROVE  \A r \in rs : status[r] = "QUEUED"
<1>1. Source[e] \notin availableResults
  BY FiniteAssumption DEF IsPredefined, TypeOK
<1>2. rs \in KeepOneNew(Runnable(e, availableResults))
  BY <1>1 DEF EnvironmentResults, IsPredefined
<1>3. rs \subseteq Runnable(e, availableResults)
  BY <1>2 DEF KeepOneNew
<1> QED
  BY <1>3 DEF Runnable

\* Every step of the main thread keeps a result with its worker.
LEMMA MainStepKeepsResults ==
  ASSUME IInv, ResultInv, MainStep, \A e \in Envs : IsPredefined(e)
  PROVE  ResultInv'
<1> USE DEF vars, mainVars, loopVars, fetchVars, envVars, flagVars, deployVars, caseVars
<1>1. CASE WaitWorker
  BY <1>1, MainKeepsResults DEF WaitWorker
<1>2. CASE RunnerIsDone
  BY <1>2, MainKeepsResults DEF RunnerIsDone
<1>3. CASE LeaveSubmitLoop
  BY <1>3, MainKeepsResults DEF LeaveSubmitLoop
<1>4. CASE FetchTask
  BY <1>4, MainKeepsResults DEF FetchTask
<1>5. CASE Drain
  BY <1>5, MainKeepsResults DEF Drain
<1>6. ASSUME NEW e \in Envs, PrepareProceeds(e) PROVE ResultInv'
  BY <1>6, MainKeepsResults DEF PrepareProceeds
<1>7. ASSUME NEW e \in Envs, PrepareFails(e) PROVE ResultInv'
  BY <1>7, MainKeepsResults DEF PrepareFails, FailedStatus, IInv, TypeOK
<1>8. CASE PrepareEnds
  BY <1>8, MainKeepsResults DEF PrepareEnds
<1>9. CASE ShouldEarlyStop
  BY <1>9, MainKeepsResults DEF ShouldEarlyStop, WithStatus
<1>10. CASE CleanupDeletedEnvironments
  BY <1>10, MainKeepsResults DEF CleanupDeletedEnvironments
<1>11. CASE CleanupDoneResults
  BY <1>11, MainKeepsResults DEF CleanupDoneResults
<1>12. CASE SortEnvironments
  BY <1>12, MainKeepsResults DEF SortEnvironments
<1>13. CASE DeleteUnusedEnvironments
  <2> DEFINE idle      == {e \in environments : DeployedNotInUse(e)}
             connected == {e \in idle : envStatus[e] = "Connected"}
             deletable == {e \in idle : Runnable(e, test_results) = {}}
             Skip(es)  == WithStatus(UNION {OsSkipped(e, test_results) : e \in es}, "SKIPPED")
  <2>1. \A es : \A r \in Results : Skip(es)[r] = "QUEUED" => status[r] = "QUEUED"
    BY DEF WithStatus
  <2>2. CASE status' = Skip(connected) /\ UNCHANGED tasks
    <3> HIDE DEF Skip
    <3> QED
      BY <2>1, <2>2, MainKeepsResults
  <2>3. ASSUME NEW e \in deletable, NEW seen,
               GenerateTask("delete", e, None, {}, Skip(seen \cup {e}))
        PROVE  ResultInv'
    <3> HIDE DEF Skip
    <3> QED
      BY <2>1, <2>3, GenerateKeepsResults
  <2> QED
    BY <1>13, <2>2, <2>3 DEF DeleteUnusedEnvironments
<1>14. ASSUME NEW e \in Envs, VisitEnvironment(e) PROVE ResultInv'
  BY <1>14, MainKeepsResults DEF VisitEnvironment, WithStatus
<1>15. ASSUME NEW e \in Envs, DispatchTestResult(e) PROVE ResultInv'
  <2>1. PICK rs \in EnvironmentResults(e) : \E t \in Dispatch(e, rs) :
          GenerateTask(t[1], e, t[2], t[3], WithStatus(OsSkippedByDispatch(e), "SKIPPED"))
    BY <1>15 DEF DispatchTestResult
  <2>2. PICK t \in Dispatch(e, rs) :
          GenerateTask(t[1], e, t[2], t[3], WithStatus(OsSkippedByDispatch(e), "SKIPPED"))
    BY <2>1
  <2>3. rs \in SUBSET Results /\ \A r \in rs : status[r] = "QUEUED"
    BY EnvironmentResultsType, OfferedIsQueued DEF IInv
  <2>4. t[1] \in {"deploy", "init", "run"} /\ t[3] \in SUBSET rs
    BY <2>3, DispatchType
  <2>5. \A r \in Results :
          WithStatus(OsSkippedByDispatch(e), "SKIPPED")[r] = "QUEUED" => status[r] = "QUEUED"
    BY DEF WithStatus
  <2> QED
    BY <2>2, <2>3, <2>4, <2>5, GenerateKeepsResults
<1>16. CASE SkipTestResults
  BY <1>16, MainKeepsResults DEF SkipTestResults, WithStatus
<1>17. ASSUME NEW e \in Envs, CloseDeletes(e) PROVE ResultInv'
  BY <1>17, MainKeepsResults DEF CloseDeletes
<1>18. CASE CloseEnds
  BY <1>18, MainKeepsResults DEF CloseEnds
<1> QED
  BY <1>1, <1>2, <1>3, <1>4, <1>5, <1>6, <1>7, <1>8, <1>9, <1>10, <1>11, <1>12,
     <1>13, <1>14, <1>15, <1>16, <1>17, <1>18 DEF MainStep

\* Every step of a worker keeps a result with its worker.
LEMMA WorkerStepKeepsResults ==
  ASSUME IInv, ResultInv, NEW w \in Workers, WorkerStep(w),
         \A r \in Results : CaseRetry[r] = 0
  PROVE  ResultInv'
<1> USE DEF At, First, Crash, TaskSteps, Busy, vars, mainVars, loopVars, fetchVars, envVars, flagVars, deployVars, caseVars
<1>0. /\ tasks[w] \in Tasks /\ tasks[w].kind \in TaskKinds
      /\ status \in [Results -> TestStatus] /\ retried \in [Results -> Nat]
      /\ Busy(w) => /\ tasks[w].kind # "rerun" /\ tasks[w].pc \notin {"renew", "requeue"}
                    /\ tasks[w].kind # "delete" => tasks[w].first \in Results
                    /\ tasks[w].kind = "delete" =>
                         tasks[w].pc \in {"delete", "freeing", "tail", "release"}
  BY DEF IInv, TypeOK, Tasks, ResultInv, NoRerun
<1>00. tasks[w].kind # "rerun" => AfterDelete[tasks[w].kind] \in {"unsubscribe", "tail", "retry"}
  BY <1>0 DEF AfterDelete, TaskKinds
<1>1. CASE Subscribe(w)
  BY <1>1, <1>0, MoveKeepsResults DEF Subscribe
<1>2. CASE DeploySucceeds(w)
  BY <1>2, <1>0, MoveKeepsResults DEF DeploySucceeds
<1>3. CASE DeployFails(w)
  BY <1>3, <1>0, MoveKeepsResults DEF DeployFails
<1>4. CASE DeployAwaits(w)
  BY <1>4, <1>0, MoveKeepsResults DEF DeployAwaits
<1>5. CASE AwaitResource(w)
  BY <1>5, <1>0, MoveKeepsResults DEF AwaitResource
<1>6. CASE NeedRetry(w)
  BY <1>6, <1>0, MoveKeepsResults DEF NeedRetry
<1>7. CASE AttachFailure(w)
  BY <1>7, <1>0, MoveKeepsResults DEF AttachFailure, FailedStatus
<1>8. CASE DeleteEnvironment(w)
  BY <1>8, <1>0, <1>00, MoveKeepsResults DEF DeleteEnvironment
<1>9. CASE FreeResources(w)
  BY <1>9, <1>0, <1>00, MoveKeepsResults DEF FreeResources
<1>10. CASE Unsubscribe(w)
  BY <1>10, <1>0, MoveKeepsResults DEF Unsubscribe
<1>11. CASE InitializeSucceeds(w)
  BY <1>11, <1>0, MoveKeepsResults DEF InitializeSucceeds
<1>12. CASE InitializeFails(w)
  BY <1>12, <1>0, MoveKeepsResults DEF InitializeFails
<1>13. CASE BeginCase(w)
  BY <1>13, <1>0, MoveKeepsResults DEF BeginCase
<1>14. CASE RunCase(w)
  BY <1>14, <1>0, MoveKeepsResults DEF RunCase, FailedStatus
<1>15. CASE CloseCaseLog(w)
  BY <1>15, <1>0, MoveKeepsResults DEF CloseCaseLog
<1>16. CASE CheckConnections(w)
  BY <1>16, <1>0, MoveKeepsResults DEF CheckConnections
<1>17. CASE RetryCase(w)
  <2>1. ~(retried[First(w)] < CaseRetry[First(w)])
    BY <1>0, <1>17 DEF RetryCase
  <2>2. Move(w, "tail") /\ status' = status
    BY <1>17, <2>1 DEF RetryCase
  <2> QED
    BY <1>17, <2>2, MoveKeepsResults DEF RetryCase
<1>18. CASE RenewEnvironment(w)
  BY <1>18, <1>0 DEF RenewEnvironment
<1>19. CASE RequeueCase(w)
  BY <1>19, <1>0 DEF RequeueCase
<1>20. CASE ReturnAssigned(w)
  BY <1>20, <1>0, MoveKeepsResults DEF ReturnAssigned, WithStatus, Holds
<1>21. CASE ReleaseEnvironment(w)
  BY <1>21, <1>0, MoveKeepsResults DEF ReleaseEnvironment
<1> QED
  BY <1>1, <1>2, <1>3, <1>4, <1>5, <1>6, <1>7, <1>8, <1>9, <1>10, <1>11, <1>12,
     <1>13, <1>14, <1>15, <1>16, <1>17, <1>18, <1>19, <1>20, <1>21 DEF WorkerStep

\* ResultInv holds at first, and every step keeps it.
LEMMA ResultInvariance ==
  ASSUME \A e \in Envs : IsPredefined(e), \A r \in Results : CaseRetry[r] = 0
  PROVE  Spec => []ResultInv
<1>1. Init => ResultInv
  BY DEF Init, ResultInv, ResultOwnedOnce, HeldNotQueued, NoRerun, Holds, Busy, Idle
<1>2. IInv /\ ResultInv /\ [Next]_vars => ResultInv'
  <2> SUFFICES ASSUME IInv, ResultInv, [Next]_vars PROVE ResultInv'
    OBVIOUS
  <2>1. CASE MainStep
    BY <2>1, MainStepKeepsResults
  <2>2. ASSUME NEW w \in Workers, WorkerStep(w) PROVE ResultInv'
    BY <2>2, WorkerStepKeepsResults
  <2>3. CASE UNCHANGED vars
    BY <2>3, MainKeepsResults DEF vars, caseVars
  <2> QED
    BY <2>1, <2>2, <2>3 DEF Next, Terminated
<1> QED
  BY <1>1, <1>2, Invariance, PTL DEF Spec

\* A test result is in the hands of one worker at a time, from _generate_task to the end
\* of _run_task, when the environments are the runbook's and no case is retried.
THEOREM ResultExclusion ==
  ASSUME \A e \in Envs : IsPredefined(e), \A r \in Results : CaseRetry[r] = 0
  PROVE  Spec => []ResultOwnedOnce
<1>1. ResultInv => ResultOwnedOnce
  BY DEF ResultInv
<1> QED
  BY <1>1, ResultInvariance, PTL
=============================================================================
