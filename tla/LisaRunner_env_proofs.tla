------------------------- MODULE LisaRunner_env_proofs -------------------------
(***************************************************************************)
(* Theorems about the environments of LisaRunner: what a task finds on the *)
(* environment it was given, and what is left of it when the run ends.     *)
(***************************************************************************)
EXTENDS LisaRunner_proofs

\* No exception has made the main thread close the runner under its workers.
NotAborted == pc \notin {"abort", "aborted"}

\* The environments LisaRunner still knows; _prepare_environments collects them anew.
Listed == IF pc = "prepare" THEN toVisit \cup proceeded ELSE environments

\* The status of an environment that the test case r runs on.
Wanted(r) == IF r \in NeedsDeployed THEN "Deployed" ELSE "Connected"

\* An environment is deployed where its status says so, and not where it cannot be.
StatusTellsResources ==
  \A e \in Envs :
    /\ envStatus[e] \in {"New", "Prepared"} => ~resources[e]
    /\ envStatus[e] \in {"Deployed", "Connected"} => resources[e]

\* Between its dispatch and its first effect a task finds what the scheduler saw.
TaskFindsEnvironment ==
  \A w \in Workers :
    /\ tasks[w].pc \in {"subscribe", "deploy"} => ~resources[tasks[w].env]
    /\ NotAborted /\ tasks[w].pc \in {"subscribe", "deploy"} =>
         envStatus[tasks[w].env] = "Prepared"
    /\ NotAborted /\ tasks[w].pc \in {"begin", "case"} =>
         envStatus[tasks[w].env] = Wanted(tasks[w].first)

\* A task that has not touched its environment yet works on one the scheduler knows.
TaskEnvironmentListed ==
  NotAborted =>
    \A w \in Workers : tasks[w].pc \in {"subscribe", "deploy", "begin", "case"} =>
      tasks[w].env \in Listed

\* What fetch_task looks at is what the scheduler knows, and close finds nothing in use.
MainKnows ==
  /\ pc = "close" => \A e \in toVisit : ~inUse[e]
  /\ pc \in {"sort", "delete_unused", "dispatch"} =>
       available \subseteq environments /\ \A k \in 1..4 : ranked[k] \subseteq environments
  /\ pc \notin {"sort", "delete_unused", "dispatch"} =>
       available = {} /\ \A k \in 1..4 : ranked[k] = {}

LiveInv ==
  StatusTellsResources /\ TaskFindsEnvironment /\ TaskEnvironmentListed /\ MainKnows

\* What Move leaves alone.
LEMMA MoveFacts ==
  ASSUME IInv, NEW w \in Workers, NEW label, Move(w, label)
  PROVE  /\ tasks'[w].pc = label
         /\ tasks'[w].env = tasks[w].env /\ tasks'[w].first = tasks[w].first
         /\ tasks'[w].kind = tasks[w].kind /\ tasks'[w].results = tasks[w].results
         /\ \A v \in Workers \ {w} : tasks'[v] = tasks[v]
BY DEF IInv, TypeOK, Move, Tasks

\* Reaping leaves the tasks that run alone.
LEMMA ReapedFacts ==
  ASSUME IInv, tasks' = tasks \/ tasks' = Reaped
  PROVE  \A w \in Workers : /\ Busy(w)' <=> Busy(w)
                            /\ Busy(w) => tasks'[w] = tasks[w]
<1>1. CASE tasks' = tasks
  BY <1>1 DEF Busy
<1>2. CASE tasks' = Reaped
  BY <1>2, ReapedKeeps DEF IInv, TypeOK, TasksOK
<1> QED
  BY <1>1, <1>2

\* A worker that runs has its environment to itself.
LEMMA OwnEnvironment ==
  ASSUME IInv, NEW w \in Workers, Busy(w)
  PROVE  /\ tasks[w].env \in Envs /\ inUse[tasks[w].env]
         /\ \A v \in Workers \ {w} : Busy(v) => tasks[v].env # tasks[w].env
BY DEF IInv, TypeOK, EnvironmentExclusive, Env

\* _generate_task gives a free worker its task.
LEMMA GenerateFacts ==
  ASSUME IInv, NEW kind \in {"deploy", "init", "run", "delete"}, NEW e, NEW first, NEW rs,
         NEW newStatus, GenerateTask(kind, e, first, rs, newStatus)
  PROVE  \E w \in Workers :
           /\ ~Busy(w)
           /\ tasks'[w].kind = kind /\ tasks'[w].env = e /\ tasks'[w].first = first
           /\ tasks'[w].results = rs
           /\ tasks'[w].pc = FirstStep[kind]
           /\ \A v \in Workers \ {w} : tasks'[v] = IF Busy(v) THEN tasks[v] ELSE Idle
<1> DEFINE task == [pc |-> FirstStep[kind], kind |-> kind, env |-> e, first |-> first,
                    results |-> rs]
<1>1. PICK w \in Workers : ~Busy(w) /\ tasks' = [Reaped EXCEPT ![w] = task]
  BY DEF GenerateTask
<1>2. /\ tasks'[w] = task
      /\ \A v \in Workers \ {w} : tasks'[v] = IF Busy(v) THEN tasks[v] ELSE Idle
  BY <1>1 DEF Reaped
<1>3. /\ tasks'[w].kind = kind /\ tasks'[w].env = e /\ tasks'[w].first = first
      /\ tasks'[w].results = rs /\ tasks'[w].pc = FirstStep[kind]
  BY <1>2
<1> QED
  BY <1>1, <1>2, <1>3

\* _dispatch_test_result: a task to deploy is for a prepared environment, one to run for an
\* environment in the state the test case needs, and new if it asks for that.
LEMMA DispatchFits ==
  ASSUME NEW e \in Envs, NEW rs, NEW t \in Dispatch(e, rs)
  PROVE  /\ t[2] \in t[3]
         /\ t[1] = "deploy" => envStatus[e] = "Prepared"
         /\ t[1] = "init" => envStatus[e] = "Deployed"
         /\ t[1] = "run" => envStatus[e] = Wanted(t[2]) /\ (t[2] \in UseNew => isNew[e])
<1> DEFINE onDeployed  == Preferred(Runnable(e, rs) \cap NeedsDeployed)
           onConnected == Runnable(e, rs) \ NeedsDeployed
<1>1. /\ \A r \in onDeployed : r \in NeedsDeployed /\ (r \in UseNew => isNew[e])
      /\ \A r \in Preferred(onConnected) : r \notin NeedsDeployed /\ (r \in UseNew => isNew[e])
  BY DEF Preferred, Runnable
<1>2. CASE envStatus[e] = "Prepared"
  <2>1. PICK r \in rs : t = <<"deploy", r, {r}>>
    BY <1>2 DEF Dispatch
  <2> QED
    BY <2>1, <1>2
<1>3. CASE envStatus[e] = "Deployed" /\ onDeployed # {}
  <2>1. PICK r \in onDeployed : t = <<"run", r, {r}>>
    BY <1>3 DEF Dispatch
  <2> QED
    BY <2>1, <1>1, <1>3 DEF Wanted
<1>4. CASE envStatus[e] = "Deployed" /\ onDeployed = {}
  <2>1. PICK r \in onConnected : t = <<"init", r, onConnected>>
    BY <1>4 DEF Dispatch
  <2> QED
    BY <2>1, <1>1, <1>4
<1>5. CASE envStatus[e] = "Connected"
  <2>1. PICK r \in Preferred(onConnected) : t = <<"run", r, {r}>>
    BY <1>5 DEF Dispatch
  <2> QED
    BY <2>1, <1>1, <1>5 DEF Wanted
<1>6. CASE envStatus[e] \notin {"Prepared", "Deployed", "Connected"}
  BY <1>6 DEF Dispatch
<1> QED
  BY <1>2, <1>3, <1>4, <1>5, <1>6

-----------------------------------------------------------------------------
(* LiveInv is an invariant. *)

\* A step of the main thread that leaves environments and running tasks alone, and
\* forgets only environments that are new or deleted.
LEMMA MainKeepsLive ==
  ASSUME IInv, LiveInv, tasks' = tasks \/ tasks' = Reaped,
         envStatus' = envStatus, resources' = resources,
         NotAborted' => NotAborted,
         NotAborted' => \A e \in Listed : envStatus[e] \notin {"New", "Deleted"} => e \in Listed',
         MainKnows'
  PROVE  LiveInv'
<1>1. \A w \in Workers : tasks'[w].pc \in {"subscribe", "deploy", "begin", "case"} =>
         tasks'[w] = tasks[w]
  BY ReapedFacts DEF Busy
<1>2. TaskFindsEnvironment'
  BY <1>1 DEF LiveInv, TaskFindsEnvironment, Wanted
<1>3. TaskEnvironmentListed'
  BY <1>1, Zenon DEF LiveInv, TaskFindsEnvironment, TaskEnvironmentListed, Wanted
<1>4. StatusTellsResources'
  BY DEF LiveInv, StatusTellsResources
<1> QED
  BY <1>2, <1>3, <1>4 DEF LiveInv

\* _generate_task on an environment whose status is the one the task is for.
LEMMA GenerateKeepsLive ==
  ASSUME IInv, LiveInv, pc \in {"delete_unused", "dispatch"},
         NEW kind \in {"deploy", "init", "run", "delete"}, NEW e \in environments, NEW first,
         NEW rs, NEW newStatus, ~inUse[e],
         GenerateTask(kind, e, first, rs, newStatus),
         kind = "deploy" => envStatus[e] = "Prepared",
         kind = "run" => envStatus[e] = Wanted(first),
         UNCHANGED <<environments, envStatus, resources>>
  PROVE  LiveInv'
<1>1. PICK w \in Workers :
           /\ ~Busy(w)
           /\ tasks'[w].kind = kind /\ tasks'[w].env = e /\ tasks'[w].first = first
           /\ tasks'[w].pc = FirstStep[kind]
           /\ \A v \in Workers \ {w} : tasks'[v] = IF Busy(v) THEN tasks[v] ELSE Idle
  BY GenerateFacts
<1>2. e \in Envs
  BY DEF IInv, TypeOK
<1>3. /\ tasks'[w].pc = "subscribe" => kind = "deploy"
      /\ tasks'[w].pc = "begin" => kind = "run"
      /\ tasks'[w].pc \notin {"deploy", "case"}
  BY <1>1 DEF FirstStep
<1>4. \A v \in Workers \ {w} : tasks'[v].pc \in {"subscribe", "deploy", "begin", "case"} =>
         tasks'[v] = tasks[v]
  BY <1>1 DEF Idle
<1>5. pc' = "submit" /\ NotAborted /\ NotAborted' /\ Listed = environments /\ Listed' = environments
  BY DEF GenerateTask, Goto, NotAborted, Listed
<1>6. TaskFindsEnvironment'
  BY <1>1, <1>2, <1>3, <1>4, <1>5 DEF LiveInv, TaskFindsEnvironment, StatusTellsResources, Wanted
<1>7. TaskEnvironmentListed'
  BY <1>1, <1>3, <1>4, <1>5 DEF LiveInv, TaskEnvironmentListed
<1>8. MainKnows'
  BY <1>5 DEF MainKnows, GenerateTask, ForgetFetch
<1>9. StatusTellsResources'
  BY DEF LiveInv, StatusTellsResources
<1> QED
  BY <1>6, <1>7, <1>8, <1>9 DEF LiveInv

\* Every step of the main thread keeps it.
LEMMA MainStepKeepsLive ==
  ASSUME IInv, LiveInv, MainStep
  PROVE  LiveInv'
<1> USE DEF Goto, NotAborted, Listed, vars, mainVars, loopVars, fetchVars, envVars, flagVars, deployVars, caseVars
<1>0. MainKnows
  BY DEF LiveInv
<1>1. CASE WaitWorker
  <2>1. MainKnows'
    BY <1>0, <1>1 DEF WaitWorker, MainKnows, Abort
  <2> QED
    BY <1>1, <2>1, MainKeepsLive DEF WaitWorker, Abort
<1>2. CASE RunnerIsDone
  <2>1. MainKnows'
    BY <1>0, <1>2 DEF RunnerIsDone, MainKnows, IsDone
  <2> QED
    BY <1>2, <2>1, MainKeepsLive DEF RunnerIsDone
<1>3. CASE LeaveSubmitLoop
  <2>1. MainKnows'
    BY <1>0, <1>3 DEF LeaveSubmitLoop, MainKnows
  <2> QED
    BY <1>3, <2>1, MainKeepsLive DEF LeaveSubmitLoop
<1>4. CASE FetchTask
  <2>1. MainKnows'
    BY <1>0, <1>4 DEF FetchTask, MainKnows
  <2> QED
    BY <1>4, <2>1, MainKeepsLive DEF FetchTask
<1>5. CASE Drain
  <2>1. MainKnows'
    BY <1>0, <1>5 DEF Drain, MainKnows
  <2> QED
    BY <1>5, <2>1, MainKeepsLive DEF Drain
<1>6. ASSUME NEW e \in Envs, PrepareProceeds(e) PROVE LiveInv'
  <2>1. MainKnows'
    BY <1>0, <1>6 DEF PrepareProceeds, MainKnows
  <2>2. \A f \in Envs : envStatus'[f] # envStatus[f] =>
           f = e /\ envStatus[f] = "New" /\ envStatus'[f] = "Prepared"
    BY <1>6 DEF PrepareProceeds, NeedsPreparing, IInv, TypeOK
  <2>3. StatusTellsResources'
    BY <1>6, <2>2 DEF PrepareProceeds, LiveInv, StatusTellsResources
  <2>4. \A w \in Workers : tasks[w].pc \in {"subscribe", "deploy", "begin", "case"} =>
           tasks[w].env \in Envs
    BY OwnEnvironment DEF Busy
  <2>5. TaskFindsEnvironment'
    BY <1>6, <2>2, <2>4 DEF PrepareProceeds, LiveInv, TaskFindsEnvironment, Wanted
  <2>6. TaskEnvironmentListed'
    BY <1>6 DEF PrepareProceeds, LiveInv, TaskEnvironmentListed
  <2> QED
    BY <2>1, <2>3, <2>5, <2>6 DEF LiveInv
<1>7. ASSUME NEW e \in Envs, PrepareFails(e) PROVE LiveInv'
  <2>1. MainKnows'
    BY <1>0, <1>7 DEF PrepareFails, MainKnows, Abort
  <2> QED
    BY <1>7, <2>1, MainKeepsLive DEF PrepareFails, NeedsPreparing, Abort
<1>8. CASE PrepareEnds
  <2>1. MainKnows'
    BY <1>0, <1>8 DEF PrepareEnds, MainKnows
  <2> QED
    BY <1>8, <2>1, MainKeepsLive DEF PrepareEnds
<1>9. CASE ShouldEarlyStop
  <2>1. MainKnows'
    BY <1>0, <1>9 DEF ShouldEarlyStop, MainKnows
  <2> QED
    BY <1>9, <2>1, MainKeepsLive DEF ShouldEarlyStop
<1>10. CASE CleanupDeletedEnvironments
  <2>1. MainKnows'
    BY <1>0, <1>10 DEF CleanupDeletedEnvironments, MainKnows
  <2> QED
    BY <1>10, <2>1, MainKeepsLive DEF CleanupDeletedEnvironments
<1>11. CASE CleanupDoneResults
  <2>1. MainKnows'
    BY <1>0, <1>11 DEF CleanupDoneResults, MainKnows
  <2> QED
    BY <1>11, <2>1, MainKeepsLive DEF CleanupDoneResults
<1>12. CASE SortEnvironments
  <2>1. MainKnows'
    BY <1>0, <1>12 DEF SortEnvironments, MainKnows, IInv, TypeOK
  <2> QED
    BY <1>12, <2>1, MainKeepsLive DEF SortEnvironments
<1>13. CASE DeleteUnusedEnvironments
  <2> DEFINE idle      == {e \in environments : DeployedNotInUse(e)}
             connected == {e \in idle : envStatus[e] = "Connected"}
             deletable == {e \in idle : Runnable(e, test_results) = {}}
             Skip(es)  == WithStatus(UNION {OsSkipped(e, test_results) : e \in es}, "SKIPPED")
  <2>1. CASE Goto("dispatch") /\ UNCHANGED <<inUse, tasks, ranked, available, availableResults>>
    <3>1. MainKnows'
      BY <1>0, <1>13, <2>1 DEF DeleteUnusedEnvironments, MainKnows
    <3> QED
      BY <1>13, <2>1, <3>1, MainKeepsLive DEF DeleteUnusedEnvironments
  <2>2. ASSUME NEW e \in deletable, NEW seen,
               GenerateTask("delete", e, None, {}, Skip(seen \cup {e}))
        PROVE  LiveInv'
    <3>1. e \in environments /\ ~inUse[e]
      BY DEF DeployedNotInUse
    <3>2. pc = "delete_unused" /\ UNCHANGED <<environments, envStatus, resources>>
      BY <1>13 DEF DeleteUnusedEnvironments
    <3> HIDE DEF Skip, deletable
    <3> QED
      BY <2>2, <3>1, <3>2, GenerateKeepsLive
  <2> QED
    BY <1>13, <2>1, <2>2 DEF DeleteUnusedEnvironments
<1>14. ASSUME NEW e \in Envs, VisitEnvironment(e) PROVE LiveInv'
  <2>1. MainKnows'
    BY <1>0, <1>14 DEF VisitEnvironment, MainKnows, IInv, TypeOK
  <2> QED
    BY <1>14, <2>1, MainKeepsLive DEF VisitEnvironment
<1>15. ASSUME NEW e \in Envs, DispatchTestResult(e) PROVE LiveInv'
  <2>1. PICK rs \in EnvironmentResults(e) : \E t \in Dispatch(e, rs) :
          GenerateTask(t[1], e, t[2], t[3], WithStatus(OsSkippedByDispatch(e), "SKIPPED"))
    BY <1>15 DEF DispatchTestResult
  <2>2. PICK t \in Dispatch(e, rs) :
          GenerateTask(t[1], e, t[2], t[3], WithStatus(OsSkippedByDispatch(e), "SKIPPED"))
    BY <2>1
  <2>3. t[1] \in {"deploy", "init", "run"}
    BY EnvironmentResultsType, DispatchType DEF IInv
  <2>4. /\ t[1] = "deploy" => envStatus[e] = "Prepared"
        /\ t[1] = "run" => envStatus[e] = Wanted(t[2])
    BY DispatchFits
  <2>5. e \in environments /\ ~inUse[e] /\ pc = "dispatch"
    BY <1>0, <1>15 DEF DispatchTestResult, MainKnows, IsNext
  <2> QED
    BY <1>15, <2>2, <2>3, <2>4, <2>5, GenerateKeepsLive DEF DispatchTestResult
<1>16. CASE SkipTestResults
  <2>1. MainKnows'
    BY <1>0, <1>16 DEF SkipTestResults, MainKnows, ForgetFetch
  <2> QED
    BY <1>16, <2>1, MainKeepsLive DEF SkipTestResults
<1>17. ASSUME NEW e \in Envs, CloseDeletes(e) PROVE LiveInv'
  <2>1. MainKnows'
    BY <1>0, <1>17 DEF CloseDeletes, MainKnows
  <2>2. /\ \A f \in Envs \ {e} : envStatus'[f] = envStatus[f] /\ resources'[f] = resources[f]
        /\ resources'[e] => resources[e]
        /\ \/ envStatus'[e] = envStatus[e] /\ resources'[e] = resources[e]
           \/ envStatus'[e] = "Deleted"
           \/ envStatus'[e] = "Prepared" /\ ~resources'[e]
    BY <1>17 DEF CloseDeletes, StatusAfterFree, IInv, TypeOK
  <2>3. StatusTellsResources'
    BY <2>2 DEF LiveInv, StatusTellsResources
  <2>4. \A w \in Workers : tasks[w].pc \in {"subscribe", "deploy", "begin", "case"} =>
           tasks[w].env \in Envs /\ inUse[tasks[w].env]
    BY OwnEnvironment DEF Busy
  <2>5. pc = "close" => ~inUse[e]
    BY <1>0, <1>17 DEF CloseDeletes, MainKnows
  <2>6. pc' = pc /\ tasks' = tasks /\ environments' = environments /\ pc \in {"close", "abort"}
    BY <1>17 DEF CloseDeletes
  <2>7. TaskFindsEnvironment'
    BY <2>2, <2>4, <2>5, <2>6 DEF LiveInv, TaskFindsEnvironment, Wanted
  <2>8. TaskEnvironmentListed'
    BY <2>6 DEF LiveInv, TaskEnvironmentListed
  <2> QED
    BY <2>1, <2>3, <2>7, <2>8 DEF LiveInv
<1>18. CASE CloseEnds
  <2>1. MainKnows'
    BY <1>0, <1>18 DEF CloseEnds, MainKnows, Abort
  <2> QED
    BY <1>18, <2>1, MainKeepsLive DEF CloseEnds, Abort
<1> QED
  BY <1>1, <1>2, <1>3, <1>4, <1>5, <1>6, <1>7, <1>8, <1>9, <1>10, <1>11, <1>12,
     <1>13, <1>14, <1>15, <1>16, <1>17, <1>18 DEF MainStep

\* A step of a worker: it changes its own environment only, and before its first effect
\* not even that.
LEMMA OwnStepLive ==
  ASSUME IInv, LiveInv, NEW w \in Workers, Busy(w), UNCHANGED mainVars,
         tasks'[w].env = tasks[w].env, tasks'[w].first = tasks[w].first,
         \A v \in Workers \ {w} : tasks'[v] = tasks[v],
         \A e \in Envs : inUse'[e] => inUse[e],
         \A e \in Envs \ {tasks[w].env} : envStatus'[e] = envStatus[e] /\ resources'[e] = resources[e],
         envStatus'[tasks[w].env] \in {"New", "Prepared"} => ~resources'[tasks[w].env],
         envStatus'[tasks[w].env] \in {"Deployed", "Connected"} => resources'[tasks[w].env],
         \/ tasks'[w].pc \notin {"subscribe", "deploy", "begin", "case"}
         \/ /\ UNCHANGED <<envStatus, resources>>
            /\ \/ tasks[w].pc = "subscribe" /\ tasks'[w].pc = "deploy"
               \/ tasks[w].pc = "begin" /\ tasks'[w].pc = "case"
  PROVE  LiveInv'
<1> USE DEF mainVars, loopVars, fetchVars
<1>1. /\ tasks[w].env \in Envs
      /\ \A v \in Workers \ {w} : tasks[v].pc \in {"subscribe", "deploy", "begin", "case"} =>
           tasks[v].env \in Envs /\ tasks[v].env # tasks[w].env
  BY OwnEnvironment DEF Busy
<1>2. StatusTellsResources'
  BY <1>1 DEF LiveInv, StatusTellsResources
<1>3. NotAborted' <=> NotAborted
  BY DEF NotAborted
<1>4. Listed' = Listed
  BY DEF Listed
<1>5. TaskFindsEnvironment'
  <2> SUFFICES ASSUME NEW v \in Workers
               PROVE  /\ tasks'[v].pc \in {"subscribe", "deploy"} => ~resources'[tasks'[v].env]
                      /\ NotAborted /\ tasks'[v].pc \in {"subscribe", "deploy"} =>
                           envStatus'[tasks'[v].env] = "Prepared"
                      /\ NotAborted /\ tasks'[v].pc \in {"begin", "case"} =>
                           envStatus'[tasks'[v].env] = Wanted(tasks'[v].first)
    BY <1>3 DEF TaskFindsEnvironment, Wanted
  <2>1. CASE v # w
    BY <2>1, <1>1 DEF LiveInv, TaskFindsEnvironment
  <2>2. CASE v = w
    BY <2>2, <1>1 DEF LiveInv, TaskFindsEnvironment
  <2> QED
    BY <2>1, <2>2
<1>6. TaskEnvironmentListed'
  BY <1>3, <1>4 DEF LiveInv, TaskEnvironmentListed
<1>7. MainKnows'
  BY DEF LiveInv, MainKnows, IInv, TypeOK
<1> QED
  BY <1>2, <1>5, <1>6, <1>7 DEF LiveInv

\* Where a task goes on after a delete, no deployment and no test starts at once.
LEMMA AfterDeleteIsLate ==
  ASSUME NEW kind \in TaskKinds
  PROVE  AfterDelete[kind] \in {"unsubscribe", "tail", "retry", "renew"}
BY DEF AfterDelete, TaskKinds

\* Every step of a worker keeps it.
LEMMA WorkerStepKeepsLive ==
  ASSUME IInv, LiveInv, NEW w \in Workers, WorkerStep(w)
  PROVE  LiveInv'
<1> USE DEF At, Env, First, Crash, ResetToNew, vars, envVars, flagVars, deployVars, caseVars
<1>0. /\ tasks \in [Workers -> Tasks] /\ tasks[w].kind \in TaskKinds
      /\ inUse \in [Envs -> BOOLEAN] /\ resources \in [Envs -> BOOLEAN]
      /\ envStatus \in [Envs -> EnvironmentStatus]
      /\ Busy(w) => tasks[w].env \in Envs
      /\ Busy(w) => /\ envStatus[tasks[w].env] \in {"New", "Prepared"} => ~resources[tasks[w].env]
                    /\ envStatus[tasks[w].env] \in {"Deployed", "Connected"} => resources[tasks[w].env]
  BY DEF IInv, TypeOK, Tasks, LiveInv, StatusTellsResources
<1>1. CASE Subscribe(w)
  <2>1. /\ tasks'[w].env = tasks[w].env /\ tasks'[w].first = tasks[w].first
        /\ \A v \in Workers \ {w} : tasks'[v] = tasks[v]
    BY <1>1, <1>0, MoveFacts DEF Subscribe
  <2>2. tasks'[w].pc = "deploy"
    BY <1>1, <1>0, MoveFacts DEF Subscribe
  <2> QED
    BY <1>1, <1>0, <2>1, <2>2, OwnStepLive DEF Subscribe, Busy
<1>2. CASE DeploySucceeds(w)
  <2>1. /\ tasks'[w].env = tasks[w].env /\ tasks'[w].first = tasks[w].first
        /\ \A v \in Workers \ {w} : tasks'[v] = tasks[v]
    BY <1>2, <1>0, MoveFacts DEF DeploySucceeds
  <2>2. tasks'[w].pc \notin {"subscribe", "deploy", "begin", "case"}
    BY <1>2, <1>0, MoveFacts DEF DeploySucceeds
  <2> QED
    BY <1>2, <1>0, <2>1, <2>2, OwnStepLive DEF DeploySucceeds, Busy
<1>3. CASE DeployFails(w)
  <2>1. /\ tasks'[w].env = tasks[w].env /\ tasks'[w].first = tasks[w].first
        /\ \A v \in Workers \ {w} : tasks'[v] = tasks[v]
    BY <1>3, <1>0, MoveFacts DEF DeployFails
  <2>2. tasks'[w].pc \notin {"subscribe", "deploy", "begin", "case"}
    BY <1>3, <1>0, MoveFacts DEF DeployFails
  <2> QED
    BY <1>3, <1>0, <2>1, <2>2, OwnStepLive DEF DeployFails, Busy
<1>4. CASE DeployAwaits(w)
  <2>1. /\ tasks'[w].env = tasks[w].env /\ tasks'[w].first = tasks[w].first
        /\ \A v \in Workers \ {w} : tasks'[v] = tasks[v]
    BY <1>4, <1>0, MoveFacts DEF DeployAwaits
  <2>2. tasks'[w].pc \notin {"subscribe", "deploy", "begin", "case"}
    BY <1>4, <1>0, MoveFacts DEF DeployAwaits
  <2> QED
    BY <1>4, <1>0, <2>1, <2>2, OwnStepLive DEF DeployAwaits, Busy
<1>5. CASE AwaitResource(w)
  <2>1. /\ tasks'[w].env = tasks[w].env /\ tasks'[w].first = tasks[w].first
        /\ \A v \in Workers \ {w} : tasks'[v] = tasks[v]
    BY <1>5, <1>0, MoveFacts DEF AwaitResource
  <2>2. tasks'[w].pc \notin {"subscribe", "deploy", "begin", "case"}
    BY <1>5, <1>0, MoveFacts DEF AwaitResource
  <2> QED
    BY <1>5, <1>0, <2>1, <2>2, OwnStepLive DEF AwaitResource, Busy
<1>6. CASE NeedRetry(w)
  <2>1. /\ tasks'[w].env = tasks[w].env /\ tasks'[w].first = tasks[w].first
        /\ \A v \in Workers \ {w} : tasks'[v] = tasks[v]
    BY <1>6, <1>0, MoveFacts DEF NeedRetry
  <2>2. tasks'[w].pc \notin {"subscribe", "deploy", "begin", "case"}
    BY <1>6, <1>0, MoveFacts DEF NeedRetry
  <2> QED
    BY <1>6, <1>0, <2>1, <2>2, OwnStepLive DEF NeedRetry, Busy
<1>7. CASE AttachFailure(w)
  <2>1. /\ tasks'[w].env = tasks[w].env /\ tasks'[w].first = tasks[w].first
        /\ \A v \in Workers \ {w} : tasks'[v] = tasks[v]
    BY <1>7, <1>0, MoveFacts DEF AttachFailure
  <2>2. tasks'[w].pc \notin {"subscribe", "deploy", "begin", "case"}
    BY <1>7, <1>0, MoveFacts DEF AttachFailure
  <2> QED
    BY <1>7, <1>0, <2>1, <2>2, OwnStepLive DEF AttachFailure, Busy
<1>8. CASE DeleteEnvironment(w)
  <2>1. /\ tasks'[w].env = tasks[w].env /\ tasks'[w].first = tasks[w].first
        /\ \A v \in Workers \ {w} : tasks'[v] = tasks[v]
    BY <1>8, <1>0, MoveFacts DEF DeleteEnvironment
  <2>2. tasks'[w].pc \notin {"subscribe", "deploy", "begin", "case"}
    BY <1>8, <1>0, MoveFacts, AfterDeleteIsLate DEF DeleteEnvironment
  <2> QED
    BY <1>8, <1>0, <2>1, <2>2, OwnStepLive DEF DeleteEnvironment, Busy
<1>9. CASE FreeResources(w)
  <2>1. /\ tasks'[w].env = tasks[w].env /\ tasks'[w].first = tasks[w].first
        /\ \A v \in Workers \ {w} : tasks'[v] = tasks[v]
    BY <1>9, <1>0, MoveFacts DEF FreeResources
  <2>2. tasks'[w].pc \notin {"subscribe", "deploy", "begin", "case"}
    BY <1>9, <1>0, MoveFacts, AfterDeleteIsLate DEF FreeResources
  <2> QED
    BY <1>9, <1>0, <2>1, <2>2, OwnStepLive DEF FreeResources, Busy, StatusAfterFree
<1>10. CASE Unsubscribe(w)
  <2>1. /\ tasks'[w].env = tasks[w].env /\ tasks'[w].first = tasks[w].first
        /\ \A v \in Workers \ {w} : tasks'[v] = tasks[v]
    BY <1>10, <1>0, MoveFacts DEF Unsubscribe
  <2>2. tasks'[w].pc \notin {"subscribe", "deploy", "begin", "case"}
    BY <1>10, <1>0, MoveFacts DEF Unsubscribe
  <2> QED
    BY <1>10, <1>0, <2>1, <2>2, OwnStepLive DEF Unsubscribe, Busy
<1>11. CASE InitializeSucceeds(w)
  <2>1. /\ tasks'[w].env = tasks[w].env /\ tasks'[w].first = tasks[w].first
        /\ \A v \in Workers \ {w} : tasks'[v] = tasks[v]
    BY <1>11, <1>0, MoveFacts DEF InitializeSucceeds
  <2>2. tasks'[w].pc \notin {"subscribe", "deploy", "begin", "case"}
    BY <1>11, <1>0, MoveFacts DEF InitializeSucceeds
  <2> QED
    BY <1>11, <1>0, <2>1, <2>2, OwnStepLive DEF InitializeSucceeds, Busy
<1>12. CASE InitializeFails(w)
  <2>1. /\ tasks'[w].env = tasks[w].env /\ tasks'[w].first = tasks[w].first
        /\ \A v \in Workers \ {w} : tasks'[v] = tasks[v]
    BY <1>12, <1>0, MoveFacts DEF InitializeFails
  <2>2. tasks'[w].pc \notin {"subscribe", "deploy", "begin", "case"}
    BY <1>12, <1>0, MoveFacts DEF InitializeFails
  <2> QED
    BY <1>12, <1>0, <2>1, <2>2, OwnStepLive DEF InitializeFails, Busy
<1>13. CASE BeginCase(w)
  <2>1. /\ tasks'[w].env = tasks[w].env /\ tasks'[w].first = tasks[w].first
        /\ \A v \in Workers \ {w} : tasks'[v] = tasks[v]
    BY <1>13, <1>0, MoveFacts DEF BeginCase
  <2>2. tasks'[w].pc = "case"
    BY <1>13, <1>0, MoveFacts DEF BeginCase
  <2> QED
    BY <1>13, <1>0, <2>1, <2>2, OwnStepLive DEF BeginCase, Busy
<1>14. CASE RunCase(w)
  <2>1. /\ tasks'[w].env = tasks[w].env /\ tasks'[w].first = tasks[w].first
        /\ \A v \in Workers \ {w} : tasks'[v] = tasks[v]
    BY <1>14, <1>0, MoveFacts DEF RunCase
  <2>2. tasks'[w].pc \notin {"subscribe", "deploy", "begin", "case"}
    BY <1>14, <1>0, MoveFacts DEF RunCase
  <2> QED
    BY <1>14, <1>0, <2>1, <2>2, OwnStepLive DEF RunCase, Busy
<1>15. CASE CloseCaseLog(w)
  <2>1. /\ tasks'[w].env = tasks[w].env /\ tasks'[w].first = tasks[w].first
        /\ \A v \in Workers \ {w} : tasks'[v] = tasks[v]
    BY <1>15, <1>0, MoveFacts DEF CloseCaseLog
  <2>2. tasks'[w].pc \notin {"subscribe", "deploy", "begin", "case"}
    BY <1>15, <1>0, MoveFacts DEF CloseCaseLog
  <2> QED
    BY <1>15, <1>0, <2>1, <2>2, OwnStepLive DEF CloseCaseLog, Busy
<1>16. CASE CheckConnections(w)
  <2>1. /\ tasks'[w].env = tasks[w].env /\ tasks'[w].first = tasks[w].first
        /\ \A v \in Workers \ {w} : tasks'[v] = tasks[v]
    BY <1>16, <1>0, MoveFacts DEF CheckConnections
  <2>2. tasks'[w].pc \notin {"subscribe", "deploy", "begin", "case"}
    BY <1>16, <1>0, MoveFacts DEF CheckConnections
  <2> QED
    BY <1>16, <1>0, <2>1, <2>2, OwnStepLive DEF CheckConnections, Busy
<1>17. CASE RetryCase(w)
  <2>1. /\ tasks'[w].env = tasks[w].env /\ tasks'[w].first = tasks[w].first
        /\ tasks'[w].pc \in {"delete", "tail"} /\ \A v \in Workers \ {w} : tasks'[v] = tasks[v]
    BY <1>17, <1>0 DEF RetryCase, Move, Tasks
  <2> QED
    BY <1>17, <1>0, <2>1, OwnStepLive DEF RetryCase, Busy
<1>18. CASE RenewEnvironment(w)
  <2>1. /\ tasks'[w].env = tasks[w].env /\ tasks'[w].first = tasks[w].first
        /\ \A v \in Workers \ {w} : tasks'[v] = tasks[v]
    BY <1>18, <1>0, MoveFacts DEF RenewEnvironment
  <2>2. tasks'[w].pc \notin {"subscribe", "deploy", "begin", "case"}
    BY <1>18, <1>0, MoveFacts DEF RenewEnvironment
  <2> QED
    BY <1>18, <1>0, <2>1, <2>2, OwnStepLive DEF RenewEnvironment, Busy
<1>19. CASE RequeueCase(w)
  <2>1. /\ tasks'[w].env = tasks[w].env /\ tasks'[w].first = tasks[w].first
        /\ \A v \in Workers \ {w} : tasks'[v] = tasks[v]
    BY <1>19, <1>0, MoveFacts DEF RequeueCase
  <2>2. tasks'[w].pc \notin {"subscribe", "deploy", "begin", "case"}
    BY <1>19, <1>0, MoveFacts DEF RequeueCase
  <2> QED
    BY <1>19, <1>0, <2>1, <2>2, OwnStepLive DEF RequeueCase, Busy
<1>20. CASE ReturnAssigned(w)
  <2>1. /\ tasks'[w].env = tasks[w].env /\ tasks'[w].first = tasks[w].first
        /\ \A v \in Workers \ {w} : tasks'[v] = tasks[v]
    BY <1>20, <1>0, MoveFacts DEF ReturnAssigned
  <2>2. tasks'[w].pc \notin {"subscribe", "deploy", "begin", "case"}
    BY <1>20, <1>0, MoveFacts DEF ReturnAssigned
  <2> QED
    BY <1>20, <1>0, <2>1, <2>2, OwnStepLive DEF ReturnAssigned, Busy
<1>21. CASE ReleaseEnvironment(w)
  <2>1. /\ tasks'[w].env = tasks[w].env /\ tasks'[w].first = tasks[w].first
        /\ \A v \in Workers \ {w} : tasks'[v] = tasks[v]
    BY <1>21, <1>0, MoveFacts DEF ReleaseEnvironment
  <2>2. tasks'[w].pc \notin {"subscribe", "deploy", "begin", "case"}
    BY <1>21, <1>0, MoveFacts DEF ReleaseEnvironment
  <2> QED
    BY <1>21, <1>0, <2>1, <2>2, OwnStepLive DEF ReleaseEnvironment, Busy
<1> QED
  BY <1>1, <1>2, <1>3, <1>4, <1>5, <1>6, <1>7, <1>8, <1>9, <1>10, <1>11, <1>12,
     <1>13, <1>14, <1>15, <1>16, <1>17, <1>18, <1>19, <1>20, <1>21 DEF WorkerStep

\* LiveInv holds at first, and every step keeps it.
LEMMA LiveInvariance == Spec => []LiveInv
<1>1. Init => LiveInv
  BY DEF Init, LiveInv, StatusTellsResources, TaskFindsEnvironment, TaskEnvironmentListed,
         MainKnows, NotAborted, Idle
<1>2. IInv /\ LiveInv /\ [Next]_vars => LiveInv'
  <2> SUFFICES ASSUME IInv, LiveInv, [Next]_vars PROVE LiveInv'
    OBVIOUS
  <2>1. CASE MainStep
    BY <2>1, MainStepKeepsLive
  <2>2. ASSUME NEW w \in Workers, WorkerStep(w) PROVE LiveInv'
    BY <2>2, WorkerStepKeepsLive
  <2>3. CASE UNCHANGED vars
    BY <2>3 DEF LiveInv, StatusTellsResources, TaskFindsEnvironment, TaskEnvironmentListed,
       MainKnows, NotAborted, Listed, Wanted, vars, mainVars, loopVars, fetchVars, envVars,
       flagVars, deployVars
  <2> QED
    BY <2>1, <2>2, <2>3 DEF Next, Terminated
<1> QED
  BY <1>1, <1>2, Invariance, PTL DEF Spec

\* A test executes on an environment that is deployed, and in the state the case asked for,
\* although the main thread looks for environments to delete and other workers deploy and
\* delete theirs meanwhile: whatever fails, is retried or generated.
THEOREM LiveEnvironment == Spec => []RunsOnLiveEnvironment
<1>1. IInv /\ LiveInv => RunsOnLiveEnvironment
  <2> SUFFICES ASSUME IInv, LiveInv, NotAborted, NEW w \in Workers, At(w, "case")
               PROVE  resources[Env(w)] /\ envStatus[Env(w)] = Wanted(First(w))
    BY DEF RunsOnLiveEnvironment, NotAborted, Wanted
  <2>1. tasks[w].env \in Envs
    BY OwnEnvironment DEF At, Busy
  <2>2. envStatus[Env(w)] = Wanted(First(w))
    BY DEF LiveInv, TaskFindsEnvironment, At, Env, First
  <2>3. Wanted(First(w)) \in {"Deployed", "Connected"}
    BY DEF Wanted
  <2> QED
    BY <2>1, <2>2, <2>3 DEF LiveInv, StatusTellsResources, Env
<1> QED
  BY <1>1, Invariance, LiveInvariance, PTL

-----------------------------------------------------------------------------
(* What a step of the main thread may change. *)

\* _generate_task gave worker w, which was free, a task on environment e, which was too.
TaskGiven(w, kind, e, first, rs) ==
  /\ pc \in {"delete_unused", "dispatch"} /\ pc' = "submit"
  /\ ~Busy(w) /\ ~inUse[e]
  /\ kind = "deploy" => envStatus[e] = "Prepared"
  /\ kind = "init" => envStatus[e] = "Deployed"
  /\ kind = "run" => envStatus[e] = Wanted(first) /\ (first \in UseNew => isNew[e])
  /\ kind = "delete" => envStatus[e] \in {"Deployed", "Connected"} /\ rs = {}
  /\ kind # "delete" => first \in rs
  /\ inUse' = [inUse EXCEPT ![e] = TRUE]
  /\ tasks'[w].kind = kind /\ tasks'[w].env = e /\ tasks'[w].first = first
  /\ tasks'[w].results = rs /\ tasks'[w].pc = FirstStep[kind]
  /\ \A v \in Workers \ {w} : tasks'[v] = IF Busy(v) THEN tasks[v] ELSE Idle

SomeTaskGiven ==
  \E w \in Workers, kind \in {"deploy", "init", "run", "delete"}, e \in environments,
     first \in Results \cup {None}, rs \in SUBSET Results : TaskGiven(w, kind, e, first, rs)

\* The main thread prepares environments, and deletes them when it closes the runner.
MainEnvironment(e) ==
  \/ envStatus'[e] = envStatus[e] /\ resources'[e] = resources[e]
  \/ envStatus[e] = "New" /\ envStatus'[e] = "Prepared" /\ resources'[e] = resources[e]
  \/ /\ pc \in {"close", "abort"} /\ e \in toVisit
     /\ \/ /\ envStatus'[e] = "Deleted" \/ (ReuseDirtyEnv /\ envStatus'[e] = "Prepared")
           /\ ~resources'[e] /\ ~NothingToDelete(e)
        \/ /\ envStatus'[e] = "Deleted" /\ resources'[e] = resources[e]
           /\ NothingToDelete(e) \/ (resources[e] => e \in left')

\* It closes results that wait: skipped, or failed with the preparation of an environment.
MainResult(r) ==
  \/ status'[r] = status[r]
  \/ status[r] = "QUEUED" /\ status'[r] \in Completed
  \/ status[r] = "QUEUED" /\ status'[r] = "ASSIGNED" /\ SomeTaskGiven
  \/ ExitOnFirstFailure /\ CanRun(r) /\ pc = "early" /\ status'[r] = "SKIPPED"
  \/ /\ pc = "dispatch" /\ r \in availableResults /\ status[r] \notin Completed
     /\ \A e \in available : ~inUse[e]
     /\ status'[r] = "SKIPPED"

\* A task that _generate_task returned is for an environment and results of the scheduler.
LEMMA GenerateGives ==
  ASSUME IInv, NEW kind \in {"deploy", "init", "run", "delete"}, NEW e \in environments,
         NEW first \in Results \cup {None}, NEW rs \in SUBSET Results, NEW newStatus,
         GenerateTask(kind, e, first, rs, newStatus), ~inUse[e],
         pc \in {"delete_unused", "dispatch"},
         kind = "deploy" => envStatus[e] = "Prepared",
         kind = "init" => envStatus[e] = "Deployed",
         kind = "run" => envStatus[e] = Wanted(first) /\ (first \in UseNew => isNew[e]),
         kind = "delete" => envStatus[e] \in {"Deployed", "Connected"} /\ rs = {},
         kind # "delete" => first \in rs
  PROVE  SomeTaskGiven
<1>1. PICK w \in Workers :
           /\ ~Busy(w)
           /\ tasks'[w].kind = kind /\ tasks'[w].env = e /\ tasks'[w].first = first
           /\ tasks'[w].results = rs
           /\ tasks'[w].pc = FirstStep[kind]
           /\ \A v \in Workers \ {w} : tasks'[v] = IF Busy(v) THEN tasks[v] ELSE Idle
  BY GenerateFacts
<1>2. pc' = "submit" /\ inUse' = [inUse EXCEPT ![e] = TRUE]
  BY DEF GenerateTask, Goto
<1>3. TaskGiven(w, kind, e, first, rs)
  BY <1>1, <1>2 DEF TaskGiven
<1> QED
  BY <1>3 DEF SomeTaskGiven

\* The results a task takes are assigned, if they were queued.
LEMMA GenerateAssigns ==
  ASSUME IInv, SomeTaskGiven, NEW kind, NEW e, NEW first, NEW rs, NEW skipped,
         GenerateTask(kind, e, first, rs, WithStatus(skipped, "SKIPPED")),
         \A r \in skipped : status[r] = "QUEUED"
  PROVE  \A r \in Results : MainResult(r)
BY DEF GenerateTask, Assigned, WithStatus, MainResult, Completed

\* What a step of the main thread may change.
LEMMA MainEffects ==
  ASSUME IInv, LiveInv, MainStep
  PROVE  /\ UNCHANGED <<isNew, isDirty, nodeDirty, triedTimes, orphaned, ran, retried, logHandler>>
         /\ left \subseteq left'
         /\ \A e \in Envs : MainEnvironment(e)
         /\ \A r \in Results : MainResult(r)
         /\ \/ (tasks' = tasks \/ tasks' = Reaped) /\ inUse' = inUse
            \/ SomeTaskGiven
<1> USE DEF Goto, vars, mainVars, loopVars, fetchVars, envVars, flagVars, deployVars, caseVars
<1>0. /\ envStatus \in [Envs -> EnvironmentStatus] /\ resources \in [Envs -> BOOLEAN]
      /\ status \in [Results -> TestStatus]
  BY DEF IInv, TypeOK
<1> DEFINE Goal == /\ UNCHANGED <<isNew, isDirty, nodeDirty, triedTimes, orphaned, ran, retried, logHandler>>
                   /\ left \subseteq left'
                   /\ \A e \in Envs : MainEnvironment(e)
                   /\ \A r \in Results : MainResult(r)
                   /\ \/ (tasks' = tasks \/ tasks' = Reaped) /\ inUse' = inUse
                      \/ SomeTaskGiven
<1>1. CASE WaitWorker
  BY <1>0, <1>1 DEF WaitWorker, MainEnvironment, MainResult
<1>2. CASE RunnerIsDone
  BY <1>0, <1>2 DEF RunnerIsDone, MainEnvironment, MainResult
<1>3. CASE LeaveSubmitLoop
  BY <1>0, <1>3 DEF LeaveSubmitLoop, MainEnvironment, MainResult
<1>4. CASE FetchTask
  BY <1>0, <1>4 DEF FetchTask, MainEnvironment, MainResult
<1>5. CASE Drain
  BY <1>0, <1>5 DEF Drain, MainEnvironment, MainResult
<1>6. ASSUME NEW e \in Envs, PrepareProceeds(e) PROVE Goal
  BY <1>0, <1>6 DEF PrepareProceeds, MainEnvironment, MainResult, NeedsPreparing
<1>7. ASSUME NEW e \in Envs, PrepareFails(e) PROVE Goal
  <2>1. \A r \in Results : MainResult(r)
    <3>1. \A r \in MatchFailed(e) : status[r] = "QUEUED"
      BY DEF MatchFailed, Runnable
    <3> QED
      BY <1>0, <1>7, <3>1 DEF PrepareFails, MainResult, FailedStatus, Completed
  <2> QED
    BY <1>7, <2>1 DEF PrepareFails, MainEnvironment
<1>8. CASE PrepareEnds
  BY <1>0, <1>8 DEF PrepareEnds, MainEnvironment, MainResult
<1>9. CASE ShouldEarlyStop
  BY <1>0, <1>9 DEF ShouldEarlyStop, MainEnvironment, MainResult, WithStatus
<1>10. CASE CleanupDeletedEnvironments
  BY <1>0, <1>10 DEF CleanupDeletedEnvironments, MainEnvironment, MainResult
<1>11. CASE CleanupDoneResults
  BY <1>0, <1>11 DEF CleanupDoneResults, MainEnvironment, MainResult
<1>12. CASE SortEnvironments
  BY <1>0, <1>12 DEF SortEnvironments, MainEnvironment, MainResult
<1>13. CASE DeleteUnusedEnvironments
  <2> DEFINE idle      == {e \in environments : DeployedNotInUse(e)}
             connected == {e \in idle : envStatus[e] = "Connected"}
             deletable == {e \in idle : Runnable(e, test_results) = {}}
             Seen(es)  == UNION {OsSkipped(e, test_results) : e \in es}
             Skip(es)  == WithStatus(Seen(es), "SKIPPED")
  <2>1. /\ UNCHANGED <<isNew, isDirty, nodeDirty, triedTimes, orphaned, ran, retried, logHandler>>
        /\ left \subseteq left'
        /\ \A e \in Envs : MainEnvironment(e)
    BY <1>13 DEF DeleteUnusedEnvironments, MainEnvironment
  <2>2. \A es : \A r \in Seen(es) : status[r] = "QUEUED"
    BY DEF OsSkipped
  <2>3. CASE status' = Skip(connected) /\ UNCHANGED <<inUse, tasks>>
    <3> HIDE DEF Seen
    <3>1. \A r \in Results : MainResult(r)
      BY <2>2, <2>3 DEF MainResult, WithStatus, Completed
    <3> QED
      BY <2>1, <2>3, <3>1
  <2>4. ASSUME NEW e \in deletable, NEW seen,
               GenerateTask("delete", e, None, {}, Skip(seen \cup {e}))
        PROVE  Goal
    <3>1. e \in environments /\ ~inUse[e] /\ envStatus[e] \in {"Deployed", "Connected"}
      BY DEF DeployedNotInUse
    <3>2. pc = "delete_unused"
      BY <1>13 DEF DeleteUnusedEnvironments
    <3> HIDE DEF Seen, deletable
    <3>3. SomeTaskGiven
      BY <2>4, <3>1, <3>2, GenerateGives
    <3>4. \A r \in Results : MainResult(r)
      BY <2>2, <2>4, <3>3, GenerateAssigns
    <3> QED
      BY <2>1, <3>3, <3>4
  <2> QED
    BY <1>13, <2>3, <2>4 DEF DeleteUnusedEnvironments
<1>14. ASSUME NEW e \in Envs, VisitEnvironment(e) PROVE Goal
  <2>1. \A r \in OsSkippedByDispatch(e) : status[r] = "QUEUED"
    BY DEF OsSkippedByDispatch, OsSkipped
  <2>2. \A r \in Results : MainResult(r)
    BY <1>14, <2>1 DEF VisitEnvironment, MainResult, WithStatus, Completed
  <2> QED
    BY <1>14, <2>2 DEF VisitEnvironment, MainEnvironment
<1>15. ASSUME NEW e \in Envs, DispatchTestResult(e) PROVE Goal
  <2>1. PICK rs \in EnvironmentResults(e) : \E t \in Dispatch(e, rs) :
          GenerateTask(t[1], e, t[2], t[3], WithStatus(OsSkippedByDispatch(e), "SKIPPED"))
    BY <1>15 DEF DispatchTestResult
  <2>2. PICK t \in Dispatch(e, rs) :
          GenerateTask(t[1], e, t[2], t[3], WithStatus(OsSkippedByDispatch(e), "SKIPPED"))
    BY <2>1
  <2>3. /\ t[1] \in {"deploy", "init", "run"} /\ t[2] \in Results /\ t[3] \in SUBSET Results
    BY EnvironmentResultsType, DispatchType DEF IInv
  <2>4. e \in environments /\ ~inUse[e] /\ pc = "dispatch"
    BY <1>15 DEF DispatchTestResult, LiveInv, MainKnows, IsNext
  <2>5. SomeTaskGiven
    BY <2>2, <2>3, <2>4, DispatchFits, GenerateGives
  <2>6. \A r \in OsSkippedByDispatch(e) : status[r] = "QUEUED"
    BY DEF OsSkippedByDispatch, OsSkipped
  <2>7. \A r \in Results : MainResult(r)
    BY <2>2, <2>5, <2>6, GenerateAssigns
  <2> QED
    BY <1>15, <2>5, <2>7 DEF DispatchTestResult, MainEnvironment
<1>16. CASE SkipTestResults
  BY <1>0, <1>16 DEF SkipTestResults, MainEnvironment, MainResult, WithStatus, Skippable
<1>17. ASSUME NEW e \in Envs, CloseDeletes(e) PROVE Goal
  <2>1. left \subseteq left'
    <3>1. Leave(e) \/ Keep(e) \/ left' = left
      BY <1>17, Zenon DEF CloseDeletes
    <3> QED
      BY <3>1 DEF Leave, Keep
  <2>2. \A f \in Envs \ {e} : MainEnvironment(f)
    BY <1>0, <1>17 DEF CloseDeletes, MainEnvironment
  <2>3. MainEnvironment(e)
    BY <1>0, <1>17, RunbookAssumption
    DEF CloseDeletes, MainEnvironment, StatusAfterFree, Kept, Keep, Leave
  <2>4. \A r \in Results : MainResult(r)
    BY <1>17 DEF CloseDeletes, MainResult
  <2> QED
    BY <1>17, <2>1, <2>2, <2>3, <2>4 DEF CloseDeletes
<1>18. CASE CloseEnds
  BY <1>0, <1>18 DEF CloseEnds, Abort, MainEnvironment, MainResult
<1> QED
  BY <1>1, <1>2, <1>3, <1>4, <1>5, <1>6, <1>7, <1>8, <1>9, <1>10, <1>11, <1>12,
     <1>13, <1>14, <1>15, <1>16, <1>17, <1>18 DEF MainStep

-----------------------------------------------------------------------------
(* What a step of a worker may change. *)

\* A worker changes its own task, its own environment and its own results.
OwnTaskOnly(w) ==
  /\ tasks'[w].env = tasks[w].env /\ tasks'[w].first = tasks[w].first
  /\ tasks'[w].results = tasks[w].results
  /\ \A v \in Workers \ {w} : tasks'[v] = tasks[v]
  /\ tasks'[w].pc \notin {"subscribe", "begin"}
  /\ tasks'[w].pc = "deploy" => tasks[w].pc = "subscribe"
  /\ tasks'[w].pc = "case" => tasks[w].pc = "begin"

OwnEnvironmentOnly(w) ==
  \A e \in Envs \ {tasks[w].env} :
    /\ envStatus'[e] = envStatus[e] /\ inUse'[e] = inUse[e] /\ isNew'[e] = isNew[e]
    /\ isDirty'[e] = isDirty[e] /\ nodeDirty'[e] = nodeDirty[e]
    /\ resources'[e] = resources[e] /\ ran'[e] = ran[e]

OwnResultsOnly(w) ==
  \A r \in Results \ {tasks[w].first} :
    \/ status'[r] = status[r]
    \/ /\ status[r] = "ASSIGNED" /\ status'[r] = "QUEUED"
       /\ tasks[w].pc = "tail" /\ r \in tasks[w].results

OwnStep(w) ==
  /\ Busy(w) /\ UNCHANGED mainVars
  /\ OwnTaskOnly(w) /\ OwnEnvironmentOnly(w) /\ OwnResultsOnly(w)

\* Every step of a worker is such a step.
LEMMA WorkerFrame ==
  ASSUME IInv, NEW w \in Workers, WorkerStep(w)
  PROVE  OwnStep(w)
<1> USE DEF At, Env, First, Crash, ResetToNew, vars, envVars, flagVars, deployVars, caseVars
<1>0. /\ tasks \in [Workers -> Tasks] /\ tasks[w].kind \in TaskKinds
      /\ inUse \in [Envs -> BOOLEAN] /\ resources \in [Envs -> BOOLEAN]
      /\ isNew \in [Envs -> BOOLEAN] /\ isDirty \in [Envs -> BOOLEAN]
      /\ nodeDirty \in [Envs -> BOOLEAN]
      /\ ran \in [Envs -> BOOLEAN] /\ status \in [Results -> TestStatus]
      /\ envStatus \in [Envs -> EnvironmentStatus]
  BY DEF IInv, TypeOK, Tasks
<1>1. CASE Subscribe(w)
  BY <1>1, <1>0, MoveFacts
  DEF Subscribe, Busy, OwnStep, OwnTaskOnly, OwnEnvironmentOnly, OwnResultsOnly
<1>2. CASE DeploySucceeds(w)
  <2>1. OwnTaskOnly(w)
    BY <1>2, <1>0, MoveFacts DEF DeploySucceeds, OwnTaskOnly
  <2>2. OwnEnvironmentOnly(w)
    BY <1>2, <1>0 DEF DeploySucceeds, OwnEnvironmentOnly
  <2> QED
    BY <1>2, <1>0, <2>1, <2>2 DEF DeploySucceeds, Busy, OwnStep, OwnResultsOnly
<1>3. CASE DeployFails(w)
  <2>1. OwnTaskOnly(w)
    BY <1>3, <1>0, MoveFacts DEF DeployFails, OwnTaskOnly
  <2>2. OwnEnvironmentOnly(w)
    BY <1>3, <1>0 DEF DeployFails, OwnEnvironmentOnly
  <2> QED
    BY <1>3, <1>0, <2>1, <2>2 DEF DeployFails, Busy, OwnStep, OwnResultsOnly
<1>4. CASE DeployAwaits(w)
  BY <1>4, <1>0, MoveFacts
  DEF DeployAwaits, Busy, OwnStep, OwnTaskOnly, OwnEnvironmentOnly, OwnResultsOnly
<1>5. CASE AwaitResource(w)
  BY <1>5, <1>0, MoveFacts
  DEF AwaitResource, Busy, OwnStep, OwnTaskOnly, OwnEnvironmentOnly, OwnResultsOnly
<1>6. CASE NeedRetry(w)
  BY <1>6, <1>0, MoveFacts
  DEF NeedRetry, Busy, OwnStep, OwnTaskOnly, OwnEnvironmentOnly, OwnResultsOnly
<1>7. CASE AttachFailure(w)
  BY <1>7, <1>0, MoveFacts
  DEF AttachFailure, Busy, OwnStep, OwnTaskOnly, OwnEnvironmentOnly, OwnResultsOnly
<1>8. CASE DeleteEnvironment(w)
  BY <1>8, <1>0, MoveFacts, AfterDeleteIsLate
  DEF DeleteEnvironment, Busy, OwnStep, OwnTaskOnly, OwnEnvironmentOnly, OwnResultsOnly
<1>9. CASE FreeResources(w)
  BY <1>9, <1>0, MoveFacts, AfterDeleteIsLate, ZenonT(60)
  DEF FreeResources, Busy, OwnStep, OwnTaskOnly, OwnEnvironmentOnly, OwnResultsOnly
<1>10. CASE Unsubscribe(w)
  BY <1>10, <1>0, MoveFacts
  DEF Unsubscribe, Busy, OwnStep, OwnTaskOnly, OwnEnvironmentOnly, OwnResultsOnly
<1>11. CASE InitializeSucceeds(w)
  BY <1>11, <1>0, MoveFacts
  DEF InitializeSucceeds, Busy, OwnStep, OwnTaskOnly, OwnEnvironmentOnly, OwnResultsOnly
<1>12. CASE InitializeFails(w)
  BY <1>12, <1>0, MoveFacts
  DEF InitializeFails, Busy, OwnStep, OwnTaskOnly, OwnEnvironmentOnly, OwnResultsOnly
<1>13. CASE BeginCase(w)
  <2>1. OwnTaskOnly(w)
    BY <1>13, <1>0, MoveFacts DEF BeginCase, OwnTaskOnly
  <2>2. OwnEnvironmentOnly(w)
    BY <1>13, <1>0 DEF BeginCase, OwnEnvironmentOnly
  <2> QED
    BY <1>13, <1>0, <2>1, <2>2 DEF BeginCase, Busy, OwnStep, OwnResultsOnly
<1>14. CASE RunCase(w)
  BY <1>14, <1>0, MoveFacts
  DEF RunCase, Busy, OwnStep, OwnTaskOnly, OwnEnvironmentOnly, OwnResultsOnly
<1>15. CASE CloseCaseLog(w)
  BY <1>15, <1>0, MoveFacts
  DEF CloseCaseLog, Busy, OwnStep, OwnTaskOnly, OwnEnvironmentOnly, OwnResultsOnly
<1>16. CASE CheckConnections(w)
  BY <1>16, <1>0, MoveFacts
  DEF CheckConnections, Busy, OwnStep, OwnTaskOnly, OwnEnvironmentOnly, OwnResultsOnly
<1>17. CASE RetryCase(w)
  <2>1. /\ tasks'[w].env = tasks[w].env /\ tasks'[w].first = tasks[w].first
        /\ tasks'[w].results = tasks[w].results /\ tasks'[w].pc \in {"delete", "tail"}
        /\ \A v \in Workers \ {w} : tasks'[v] = tasks[v]
    BY <1>17, <1>0 DEF RetryCase, Move, Tasks
  <2> QED
    BY <1>17, <2>1 DEF RetryCase, Busy, OwnStep, OwnTaskOnly, OwnEnvironmentOnly, OwnResultsOnly
<1>18. CASE RenewEnvironment(w)
  <2>1. OwnTaskOnly(w)
    BY <1>18, <1>0, MoveFacts DEF RenewEnvironment, OwnTaskOnly
  <2>2. OwnEnvironmentOnly(w)
    BY <1>18, <1>0 DEF RenewEnvironment, OwnEnvironmentOnly
  <2> QED
    BY <1>18, <1>0, <2>1, <2>2 DEF RenewEnvironment, Busy, OwnStep, OwnResultsOnly
<1>19. CASE RequeueCase(w)
  BY <1>19, <1>0, MoveFacts
  DEF RequeueCase, Busy, OwnStep, OwnTaskOnly, OwnEnvironmentOnly, OwnResultsOnly
<1>20. CASE ReturnAssigned(w)
  BY <1>20, <1>0, MoveFacts
  DEF ReturnAssigned, Busy, WithStatus, OwnStep, OwnTaskOnly, OwnEnvironmentOnly, OwnResultsOnly
<1>21. CASE ReleaseEnvironment(w)
  <2>1. OwnTaskOnly(w)
    BY <1>21, <1>0, MoveFacts DEF ReleaseEnvironment, OwnTaskOnly
  <2>2. OwnEnvironmentOnly(w)
    BY <1>21, <1>0 DEF ReleaseEnvironment, OwnEnvironmentOnly
  <2> QED
    BY <1>21, <1>0, <2>1, <2>2 DEF ReleaseEnvironment, Busy, OwnStep, OwnResultsOnly
<1> QED
  BY <1>1, <1>2, <1>3, <1>4, <1>5, <1>6, <1>7, <1>8, <1>9, <1>10, <1>11, <1>12,
     <1>13, <1>14, <1>15, <1>16, <1>17, <1>18, <1>19, <1>20, <1>21 DEF WorkerStep

-----------------------------------------------------------------------------
(* A new environment has run nothing. *)

\* TestSuite.start clears is_new, and a deployment starts afresh.
NewHasNotRun(e) == isNew[e] /\ envStatus[e] \in {"Deployed", "Connected"} => ~ran[e]

NewInv ==
  /\ \A e \in Envs : NewHasNotRun(e)
  /\ \A w \in Workers : tasks[w].pc = "begin" /\ tasks[w].first \in UseNew => ~ran[tasks[w].env]

\* The main thread gives a case that needs a new environment one that is_new.
LEMMA MainStepKeepsNew ==
  ASSUME IInv, LiveInv, NewInv, MainStep
  PROVE  NewInv'
<1>1. \A e \in Envs : NewHasNotRun(e)'
  BY MainEffects DEF NewInv, NewHasNotRun, MainEnvironment
<1>2. ran' = ran
  BY MainEffects
<1>3. CASE tasks' = tasks \/ tasks' = Reaped
  <2>1. \A w \in Workers : tasks'[w].pc = "begin" => tasks'[w] = tasks[w]
    BY <1>3, ReapedFacts DEF Busy
  <2> QED
    BY <1>1, <1>2, <2>1 DEF NewInv
<1>4. CASE SomeTaskGiven
  <2>1. PICK w \in Workers, kind \in {"deploy", "init", "run", "delete"}, e \in environments,
            first \in Results \cup {None}, rs \in SUBSET Results :
            TaskGiven(w, kind, e, first, rs)
    BY <1>4 DEF SomeTaskGiven
  <2>2. \A v \in Workers \ {w} : tasks'[v].pc = "begin" => tasks'[v] = tasks[v]
    BY <2>1 DEF TaskGiven, Idle
  <2>3. e \in Envs /\ (kind = "run" /\ first \in UseNew => ~ran[e])
    BY <2>1 DEF TaskGiven, NewInv, NewHasNotRun, Wanted, IInv, TypeOK
  <2>4. tasks'[w].pc = "begin" => kind = "run"
    BY <2>1 DEF TaskGiven, FirstStep
  <2>5. tasks'[w].env = e /\ tasks'[w].first = first
    BY <2>1 DEF TaskGiven
  <2> QED
    BY <1>1, <1>2, <2>2, <2>3, <2>4, <2>5 DEF NewInv
<1> QED
  BY <1>3, <1>4, MainEffects

\* A worker clears is_new when it starts a test.
LEMMA WorkerStepKeepsNew ==
  ASSUME IInv, NewInv, NEW w \in Workers, WorkerStep(w), ~GuestEnabled
  PROVE  NewInv'
<1>0. OwnStep(w)
  BY WorkerFrame
<1>01. /\ tasks[w].env \in Envs /\ NewHasNotRun(tasks[w].env)
       /\ \A v \in Workers \ {w} : tasks[v].pc = "begin" =>
            tasks[v].env \in Envs /\ tasks[v].env # tasks[w].env
  BY <1>0, OwnEnvironment DEF OwnStep, NewInv, Busy
<1> SUFFICES NewHasNotRun(tasks[w].env)'
  <2>1. \A e \in Envs \ {tasks[w].env} : NewHasNotRun(e)'
    BY <1>0 DEF OwnStep, OwnEnvironmentOnly, NewInv, NewHasNotRun
  <2>2. \A v \in Workers : tasks'[v].pc = "begin" /\ tasks'[v].first \in UseNew =>
           ~ran'[tasks'[v].env]
    BY <1>0, <1>01 DEF OwnStep, OwnTaskOnly, OwnEnvironmentOnly, NewInv
  <2>3. tasks'[w].env = tasks[w].env
    BY <1>0 DEF OwnStep, OwnTaskOnly
  <2> QED
    BY <2>1, <2>2, <2>3 DEF NewInv, NewHasNotRun
<1> USE DEF At, Env, First, ResetToNew, NewHasNotRun, vars, envVars, flagVars, deployVars, caseVars
<1>00. /\ envStatus \in [Envs -> EnvironmentStatus] /\ isNew \in [Envs -> BOOLEAN]
       /\ ran \in [Envs -> BOOLEAN] /\ tasks'[w].env = tasks[w].env
  BY <1>0 DEF IInv, TypeOK, OwnStep, OwnTaskOnly
<1>1. CASE Subscribe(w)
  BY <1>1, <1>00, <1>01 DEF Subscribe
<1>2. CASE DeploySucceeds(w)
  BY <1>2, <1>00, <1>01 DEF DeploySucceeds
<1>3. CASE DeployFails(w)
  BY <1>3, <1>00, <1>01 DEF DeployFails
<1>4. CASE DeployAwaits(w)
  BY <1>4, <1>00, <1>01 DEF DeployAwaits
<1>5. CASE AwaitResource(w)
  BY <1>5, <1>00, <1>01 DEF AwaitResource
<1>6. CASE NeedRetry(w)
  BY <1>6, <1>00, <1>01 DEF NeedRetry
<1>7. CASE AttachFailure(w)
  BY <1>7, <1>00, <1>01 DEF AttachFailure
<1>8. CASE DeleteEnvironment(w)
  BY <1>8, <1>00, <1>01 DEF DeleteEnvironment
<1>9. CASE FreeResources(w)
  BY <1>9, <1>00, <1>01 DEF FreeResources, StatusAfterFree
<1>10. CASE Unsubscribe(w)
  BY <1>10, <1>00, <1>01 DEF Unsubscribe
<1>11. CASE InitializeSucceeds(w)
  BY <1>11, <1>00, <1>01 DEF InitializeSucceeds
<1>12. CASE InitializeFails(w)
  BY <1>12, <1>00, <1>01 DEF InitializeFails
<1>13. CASE BeginCase(w)
  BY <1>13, <1>00, <1>01 DEF BeginCase
<1>14. CASE RunCase(w)
  BY <1>14, <1>00, <1>01 DEF RunCase
<1>15. CASE CloseCaseLog(w)
  BY <1>15, <1>00, <1>01 DEF CloseCaseLog
<1>16. CASE CheckConnections(w)
  BY <1>16, <1>00, <1>01 DEF CheckConnections
<1>17. CASE RetryCase(w)
  BY <1>17, <1>00, <1>01 DEF RetryCase
<1>18. CASE RenewEnvironment(w)
  BY <1>18, <1>00, <1>01 DEF RenewEnvironment
<1>19. CASE RequeueCase(w)
  BY <1>19, <1>00, <1>01 DEF RequeueCase
<1>20. CASE ReturnAssigned(w)
  BY <1>20, <1>00, <1>01 DEF ReturnAssigned
<1>21. CASE ReleaseEnvironment(w)
  BY <1>21, <1>00, <1>01 DEF ReleaseEnvironment
<1> QED
  BY <1>1, <1>2, <1>3, <1>4, <1>5, <1>6, <1>7, <1>8, <1>9, <1>10, <1>11, <1>12,
     <1>13, <1>14, <1>15, <1>16, <1>17, <1>18, <1>19, <1>20, <1>21 DEF WorkerStep

\* NewInv holds at first, and every step keeps it, where tests run on the environment itself
\* and not on its guests.
LEMMA NewInvariance ==
  ASSUME ~GuestEnabled
  PROVE  Spec => []NewInv
<1>1. Init => NewInv
  BY DEF Init, NewInv, NewHasNotRun, Idle
<1>2. IInv /\ LiveInv /\ NewInv /\ [Next]_vars => NewInv'
  <2> SUFFICES ASSUME IInv, LiveInv, NewInv, [Next]_vars PROVE NewInv'
    OBVIOUS
  <2>1. CASE MainStep
    BY <2>1, MainStepKeepsNew
  <2>2. ASSUME NEW w \in Workers, WorkerStep(w) PROVE NewInv'
    BY <2>2, WorkerStepKeepsNew
  <2>3. CASE UNCHANGED vars
    BY <2>3 DEF NewInv, NewHasNotRun, vars, envVars, flagVars, deployVars
  <2> QED
    BY <2>1, <2>2, <2>3 DEF Next, Terminated
<1> QED
  BY <1>1, <1>2, Invariance, LiveInvariance, PTL DEF Spec

\* A case with use_new_environment starts on an environment where nothing ran since it was
\* deployed, although is_new is read by the main thread and cleared by the worker.
THEOREM NewIsNew ==
  ASSUME ~GuestEnabled
  PROVE  Spec => NewEnvironmentIsNew
<1>1. NewInv /\ [Next]_vars =>
        [\A w \in Workers : At(w, "begin") /\ ~At(w, "begin")' /\ First(w) \in UseNew
           => ~ran[Env(w)]]_vars
  BY DEF NewInv, At, First, Env
<1> QED
  BY <1>1, NewInvariance, PTL DEF Spec, NewEnvironmentIsNew

-----------------------------------------------------------------------------
(* A run that ends is complete. *)

\* A result is running while its task executes the test.
RunningHasWorker ==
  \A r \in Results : status[r] = "RUNNING" =>
    \E w \in Workers : tasks[w].pc = "case" /\ tasks[w].first = r

\* A result the scheduler has forgotten is done, or runs.
ForgottenIsDone ==
  NotAborted => \A r \in Results : r \notin test_results => status[r] \in Completed \cup {"RUNNING"}

\* Once the runner is done no task starts a test.
Closing == pc \in {"close", "drain", "finished"}

ClosedIsDone ==
  Closing => /\ \A r \in Results : status[r] \in Completed
             /\ \A w \in Workers : tasks[w].pc \notin {"begin", "case"}

CompleteInv == NoRerun /\ RunningHasWorker /\ ForgottenIsDone /\ ClosedIsDone

\* What a worker that is not on the path of a retry does to results.
OwnResult(w, r) ==
  \/ status'[r] = status[r] /\ ~(tasks[w].pc = "case" /\ tasks[w].first = r)
  \/ /\ status[r] = "ASSIGNED" /\ status'[r] = "QUEUED"
     /\ tasks[w].pc = "tail" /\ r \in tasks[w].results
  \/ /\ r = tasks[w].first /\ status'[r] \in Completed
     /\ \/ tasks[w].pc \in {"attach", "attach_skip", "case"}
        \/ tasks[w].pc = "check" /\ status'[r] = "FAILED"
  \/ /\ r = tasks[w].first /\ status'[r] = "RUNNING"
     /\ tasks[w].pc = "begin" /\ tasks'[w].pc = "case"

\* Without retries no task gets on the path of one.
LEMMA WorkerStepKeepsKind ==
  ASSUME IInv, NoRerun, NEW w \in Workers, WorkerStep(w), \A r \in Results : CaseRetry[r] = 0
  PROVE  /\ NoRerun' /\ tasks'[w].kind = tasks[w].kind
         /\ \A r \in Results : OwnResult(w, r)
<1>0. OwnStep(w)
  BY WorkerFrame
<1>01. /\ tasks \in [Workers -> Tasks] /\ tasks[w].kind \in TaskKinds /\ tasks[w].kind # "rerun"
       /\ tasks[w].pc \notin {"renew", "requeue"} /\ status \in [Results -> TestStatus]
       /\ retried \in [Results -> Nat]
       /\ tasks[w].pc \notin {"idle", "done"}
       /\ tasks[w].kind # "delete" => tasks[w].first \in Results
       /\ tasks[w].kind = "delete" => tasks[w].pc \in {"delete", "freeing", "tail", "release"}
  BY <1>0 DEF OwnStep, IInv, TypeOK, Tasks, NoRerun, Busy
<1>02. AfterDelete[tasks[w].kind] \in {"unsubscribe", "tail", "retry"}
  BY <1>01 DEF AfterDelete, TaskKinds
<1> DEFINE Goal == /\ tasks'[w].kind = tasks[w].kind /\ tasks'[w].pc \notin {"renew", "requeue"}
                   /\ \A r \in Results : OwnResult(w, r)
<1> SUFFICES Goal
  BY <1>0, <1>01 DEF OwnStep, OwnTaskOnly, NoRerun, Busy
<1> USE DEF At, First, Crash, OwnResult, Completed, FailedStatus, vars, caseVars
<1>1. CASE Subscribe(w)
  BY <1>1, <1>01, MoveFacts DEF Subscribe
<1>2. CASE DeploySucceeds(w)
  BY <1>2, <1>01, MoveFacts DEF DeploySucceeds
<1>3. CASE DeployFails(w)
  BY <1>3, <1>01, MoveFacts DEF DeployFails
<1>4. CASE DeployAwaits(w)
  BY <1>4, <1>01, MoveFacts DEF DeployAwaits
<1>5. CASE AwaitResource(w)
  BY <1>5, <1>01, MoveFacts DEF AwaitResource
<1>6. CASE NeedRetry(w)
  BY <1>6, <1>01, MoveFacts DEF NeedRetry
<1>7. CASE AttachFailure(w)
  BY <1>7, <1>01, MoveFacts DEF AttachFailure
<1>8. CASE DeleteEnvironment(w)
  BY <1>8, <1>01, <1>02, MoveFacts DEF DeleteEnvironment
<1>9. CASE FreeResources(w)
  BY <1>9, <1>01, <1>02, MoveFacts DEF FreeResources
<1>10. CASE Unsubscribe(w)
  BY <1>10, <1>01, MoveFacts DEF Unsubscribe
<1>11. CASE InitializeSucceeds(w)
  BY <1>11, <1>01, MoveFacts DEF InitializeSucceeds
<1>12. CASE InitializeFails(w)
  BY <1>12, <1>01, MoveFacts DEF InitializeFails
<1>13. CASE BeginCase(w)
  BY <1>13, <1>01, MoveFacts DEF BeginCase
<1>14. CASE RunCase(w)
  BY <1>14, <1>01, MoveFacts DEF RunCase
<1>15. CASE CloseCaseLog(w)
  BY <1>15, <1>01, MoveFacts DEF CloseCaseLog
<1>16. CASE CheckConnections(w)
  BY <1>16, <1>01, MoveFacts DEF CheckConnections
<1>17. CASE RetryCase(w)
  <2>1. ~(retried[First(w)] < CaseRetry[First(w)])
    BY <1>17, <1>01 DEF RetryCase
  <2>2. Move(w, "tail") /\ status' = status
    BY <1>17, <2>1 DEF RetryCase
  <2> QED
    BY <1>17, <2>2, MoveFacts DEF RetryCase
<1>18. CASE RenewEnvironment(w)
  BY <1>18, <1>01 DEF RenewEnvironment
<1>19. CASE RequeueCase(w)
  BY <1>19, <1>01 DEF RequeueCase
<1>20. CASE ReturnAssigned(w)
  BY <1>20, <1>01, MoveFacts DEF ReturnAssigned, WithStatus
<1>21. CASE ReleaseEnvironment(w)
  BY <1>21, <1>01, MoveFacts DEF ReleaseEnvironment
<1> QED
  BY <1>1, <1>2, <1>3, <1>4, <1>5, <1>6, <1>7, <1>8, <1>9, <1>10, <1>11, <1>12,
     <1>13, <1>14, <1>15, <1>16, <1>17, <1>18, <1>19, <1>20, <1>21 DEF WorkerStep

\* The main thread starts no task on the path of a retry.
LEMMA MainStepKeepsNoRerun ==
  ASSUME IInv, LiveInv, NoRerun, MainStep
  PROVE  NoRerun'
<1>1. CASE tasks' = tasks \/ tasks' = Reaped
  BY <1>1, ReapedFacts DEF NoRerun
<1>2. CASE SomeTaskGiven
  <2>1. PICK w \in Workers, kind \in {"deploy", "init", "run", "delete"}, e \in environments,
            first \in Results \cup {None}, rs \in SUBSET Results :
            TaskGiven(w, kind, e, first, rs)
    BY <1>2 DEF SomeTaskGiven
  <2>2. tasks'[w].kind = kind /\ tasks'[w].pc \in {"subscribe", "init", "begin", "delete"}
    BY <2>1 DEF TaskGiven, FirstStep
  <2>3. \A v \in Workers \ {w} : (tasks'[v] = tasks[v] /\ Busy(v)) \/ tasks'[v] = Idle
    BY <2>1 DEF TaskGiven
  <2> QED
    BY <2>2, <2>3 DEF NoRerun, Busy, Idle
<1> QED
  BY <1>1, <1>2, MainEffects

\* The main thread forgets only results that are done, and closes only when all are.
LEMMA MainStepKeepsComplete ==
  ASSUME IInv, LiveInv, CompleteInv, MainStep
  PROVE  CompleteInv'
<1>1. NoRerun'
  BY MainStepKeepsNoRerun DEF CompleteInv
<1>2. \A w \in Workers : Busy(w) => tasks'[w] = tasks[w]
  <2>1. CASE tasks' = tasks \/ tasks' = Reaped
    BY <2>1, ReapedFacts
  <2>2. CASE SomeTaskGiven
    BY <2>2 DEF SomeTaskGiven, TaskGiven
  <2> QED
    BY <2>1, <2>2, MainEffects
<1>3. \A r \in Results :
        /\ status[r] \in Completed => status'[r] = status[r]
        /\ status'[r] = "RUNNING" => status[r] = "RUNNING"
        /\ status[r] = "RUNNING" => status'[r] \in {"RUNNING", "SKIPPED"}
  BY MainEffects DEF MainResult, Completed, CanRun
<1>4. RunningHasWorker'
  BY <1>2, <1>3 DEF CompleteInv, RunningHasWorker, Busy
<1>5. \/ test_results' = test_results
      \/ test_results' = {r \in test_results : status[r] \notin Completed}
  BY DEF MainStep, WaitWorker, RunnerIsDone, LeaveSubmitLoop, FetchTask, Drain, PrepareProceeds,
     PrepareFails, PrepareEnds, ShouldEarlyStop, CleanupDeletedEnvironments, CleanupDoneResults,
     SortEnvironments, DeleteUnusedEnvironments, VisitEnvironment, DispatchTestResult,
     SkipTestResults, CloseDeletes, CloseEnds
<1>6. NotAborted' => NotAborted
  BY DEF NotAborted, MainStep, WaitWorker, RunnerIsDone, LeaveSubmitLoop, FetchTask, Drain,
     PrepareProceeds, PrepareFails, PrepareEnds, ShouldEarlyStop, CleanupDeletedEnvironments,
     CleanupDoneResults, SortEnvironments, DeleteUnusedEnvironments, VisitEnvironment,
     DispatchTestResult, SkipTestResults, CloseDeletes, CloseEnds, Goto, Abort, GenerateTask
<1>7. ForgottenIsDone'
  BY <1>3, <1>5, <1>6 DEF CompleteInv, ForgottenIsDone, Completed
<1>8. ClosedIsDone'
  <2> SUFFICES ASSUME Closing' PROVE ClosedIsDone'
    BY DEF ClosedIsDone
  <2>1. CASE Closing
    <3>1. ~SomeTaskGiven
      BY <2>1 DEF SomeTaskGiven, TaskGiven, Closing
    <3>2. \A w \in Workers : tasks'[w].pc \in {"begin", "case"} => tasks'[w] = tasks[w]
      BY <3>1, MainEffects, ReapedFacts DEF Busy
    <3> QED
      BY <2>1, <1>3, <3>2 DEF CompleteInv, ClosedIsDone
  <2>2. CASE RunnerIsDone
    <3>1. NotAborted /\ Listed = environments /\ tasks' = tasks /\ status' = status
      BY <2>2 DEF RunnerIsDone, NotAborted, Listed, caseVars
    <3>2. ASSUME NEW w \in Workers, tasks[w].pc \in {"begin", "case"} PROVE FALSE
      <4>1. tasks[w].env \in environments
        BY <3>1, <3>2 DEF LiveInv, TaskEnvironmentListed
      <4>2. inUse[tasks[w].env]
        BY <3>2, OwnEnvironment DEF Busy
      <4> QED
        BY <2>2, <4>1, <4>2 DEF RunnerIsDone, IsDone
    <3>3. \A r \in Results : status[r] # "RUNNING"
      BY <3>2 DEF CompleteInv, RunningHasWorker
    <3>4. \A r \in Results : status[r] \in Completed
      BY <2>2, <3>1, <3>3 DEF CompleteInv, ForgottenIsDone, RunnerIsDone, IsDone
    <3> QED
      BY <3>1, <3>2, <3>4 DEF ClosedIsDone
  <2>3. Closing \/ RunnerIsDone
    BY DEF Closing, MainStep, WaitWorker, LeaveSubmitLoop, FetchTask, Drain,
     PrepareProceeds, PrepareFails, PrepareEnds, ShouldEarlyStop, CleanupDeletedEnvironments,
     CleanupDoneResults, SortEnvironments, DeleteUnusedEnvironments, VisitEnvironment,
     DispatchTestResult, SkipTestResults, CloseDeletes, CloseEnds, Goto, Abort, GenerateTask
  <2> QED
    BY <2>1, <2>2, <2>3
<1> QED
  BY <1>1, <1>4, <1>7, <1>8 DEF CompleteInv

\* A worker closes the result whose test it ran.
LEMMA WorkerStepKeepsComplete ==
  ASSUME IInv, CompleteInv, NEW w \in Workers, WorkerStep(w), \A r \in Results : CaseRetry[r] = 0
  PROVE  CompleteInv'
<1>0. OwnStep(w)
  BY WorkerFrame
<1>1. NoRerun' /\ \A r \in Results : OwnResult(w, r)
  BY WorkerStepKeepsKind DEF CompleteInv
<1>2. UNCHANGED <<pc, test_results>>
  BY <1>0 DEF OwnStep, mainVars
<1>3. RunningHasWorker'
  <2> SUFFICES ASSUME NEW r \in Results, status'[r] = "RUNNING"
               PROVE  \E v \in Workers : tasks'[v].pc = "case" /\ tasks'[v].first = r
    BY DEF RunningHasWorker
  <2>1. CASE status'[r] = status[r] /\ ~(tasks[w].pc = "case" /\ tasks[w].first = r)
    <3>1. PICK v \in Workers : tasks[v].pc = "case" /\ tasks[v].first = r
      BY <2>1 DEF CompleteInv, RunningHasWorker
    <3>2. tasks'[v] = tasks[v]
      BY <2>1, <3>1, <1>0 DEF OwnStep, OwnTaskOnly
    <3> QED
      BY <3>1, <3>2
  <2>2. CASE r = tasks[w].first /\ tasks'[w].pc = "case"
    BY <2>2, <1>0 DEF OwnStep, OwnTaskOnly
  <2> QED
    BY <2>1, <2>2, <1>1 DEF OwnResult, Completed
<1>4. ForgottenIsDone'
  BY <1>1, <1>2 DEF CompleteInv, ForgottenIsDone, NotAborted, OwnResult, Completed
<1>5. ClosedIsDone'
  <2>1. \A r \in Results : status[r] \in Completed /\ tasks[w].pc # "begin" => status'[r] \in Completed
    BY <1>1 DEF OwnResult, Completed
  <2>2. \A v \in Workers : tasks'[v].pc \in {"begin", "case"} => tasks[v].pc \in {"begin", "case"}
    BY <1>0 DEF OwnStep, OwnTaskOnly
  <2> QED
    BY <1>2, <2>1, <2>2 DEF CompleteInv, ClosedIsDone, Closing
<1> QED
  BY <1>1, <1>3, <1>4, <1>5 DEF CompleteInv

\* CompleteInv holds at first, and every step keeps it.
LEMMA CompleteInvariance ==
  ASSUME \A r \in Results : CaseRetry[r] = 0
  PROVE  Spec => []CompleteInv
<1>1. Init => CompleteInv
  BY DEF Init, CompleteInv, NoRerun, RunningHasWorker, ForgottenIsDone, ClosedIsDone, Closing,
         Busy, Idle
<1>2. IInv /\ LiveInv /\ CompleteInv /\ [Next]_vars => CompleteInv'
  <2> SUFFICES ASSUME IInv, LiveInv, CompleteInv, [Next]_vars PROVE CompleteInv'
    OBVIOUS
  <2>1. CASE MainStep
    BY <2>1, MainStepKeepsComplete
  <2>2. ASSUME NEW w \in Workers, WorkerStep(w) PROVE CompleteInv'
    BY <2>2, WorkerStepKeepsComplete
  <2>3. CASE UNCHANGED vars
    BY <2>3 DEF CompleteInv, NoRerun, RunningHasWorker, ForgottenIsDone, ClosedIsDone, Closing,
       NotAborted, Busy, vars, mainVars, caseVars
  <2> QED
    BY <2>1, <2>2, <2>3 DEF Next, Terminated
<1> QED
  BY <1>1, <1>2, Invariance, LiveInvariance, PTL DEF Spec

-----------------------------------------------------------------------------
(* What still exists was left knowingly. *)

\* A task is about to delete what exists of e.
Freeing(e) == \E w \in Workers : tasks[w].pc = "freeing" /\ tasks[w].env = e

\* What lost its context, or is called deleted and still exists, was left: it was kept, its
\* deletion raised, or its deployment is tried again.
OrphanedIsLeft == \A e \in Envs : e \in orphaned => e \in left

DeletedIsFreed ==
  \A e \in Envs : resources[e] /\ envStatus[e] = "Deleted" => Freeing(e) \/ e \in left

\* A retried case drops the context of its environment only after the deletion.
RenewIsFreed ==
  \A w \in Workers : tasks[w].pc = "renew" /\ resources[tasks[w].env] => tasks[w].env \in left

DeployedIsKnown ==
  NotAborted => \A e \in Envs : resources[e] => e \in Listed \/ Freeing(e) \/ e \in left

\* What the runner closes is free already, so no task deploys it again.
ClosedIsFreed ==
  /\ Closing => \A e \in environments : ~inUse[e] /\ (resources[e] => e \in left)
  /\ pc = "finished" => \A w \in Workers : ~Busy(w)

LeakInv == OrphanedIsLeft /\ DeletedIsFreed /\ RenewIsFreed /\ DeployedIsKnown /\ ClosedIsFreed

\* The main thread forgets only environments that are new or deleted, and closes the runner
\* only when every environment it knows is free.
LEMMA MainForgets ==
  ASSUME MainStep
  PROVE  /\ NotAborted' => NotAborted
         /\ NotAborted' => \A e \in Listed : envStatus[e] \notin {"New", "Deleted"} => e \in Listed'
         /\ Closing' => RunnerIsDone \/ (Closing /\ environments' = environments)
         /\ pc' = "finished" => Drain \/ pc = "finished"
<1> USE DEF NotAborted, Listed, Closing, Goto, Abort, GenerateTask, NeedsPreparing, loopVars, envVars
<1> DEFINE Goal == /\ NotAborted' => NotAborted
                   /\ NotAborted' => \A e \in Listed :
                        envStatus[e] \notin {"New", "Deleted"} => e \in Listed'
                   /\ Closing' => RunnerIsDone \/ (Closing /\ environments' = environments)
                   /\ pc' = "finished" => Drain \/ pc = "finished"
<1>1. CASE WaitWorker
  BY <1>1 DEF WaitWorker
<1>2. CASE RunnerIsDone
  BY <1>2 DEF RunnerIsDone
<1>3. CASE LeaveSubmitLoop
  BY <1>3 DEF LeaveSubmitLoop
<1>4. CASE FetchTask
  BY <1>4 DEF FetchTask
<1>5. CASE Drain
  BY <1>5 DEF Drain
<1>6. ASSUME NEW e \in Envs, PrepareProceeds(e) PROVE Goal
  BY <1>6 DEF PrepareProceeds
<1>7. ASSUME NEW e \in Envs, PrepareFails(e) PROVE Goal
  BY <1>7 DEF PrepareFails
<1>8. CASE PrepareEnds
  BY <1>8 DEF PrepareEnds
<1>9. CASE ShouldEarlyStop
  BY <1>9 DEF ShouldEarlyStop
<1>10. CASE CleanupDeletedEnvironments
  BY <1>10 DEF CleanupDeletedEnvironments
<1>11. CASE CleanupDoneResults
  BY <1>11 DEF CleanupDoneResults
<1>12. CASE SortEnvironments
  BY <1>12 DEF SortEnvironments
<1>13. CASE DeleteUnusedEnvironments
  BY <1>13 DEF DeleteUnusedEnvironments
<1>14. ASSUME NEW e \in Envs, VisitEnvironment(e) PROVE Goal
  BY <1>14 DEF VisitEnvironment
<1>15. ASSUME NEW e \in Envs, DispatchTestResult(e) PROVE Goal
  BY <1>15 DEF DispatchTestResult
<1>16. CASE SkipTestResults
  BY <1>16 DEF SkipTestResults
<1>17. ASSUME NEW e \in Envs, CloseDeletes(e) PROVE Goal
  BY <1>17 DEF CloseDeletes
<1>18. CASE CloseEnds
  BY <1>18 DEF CloseEnds, Abort
<1> QED
  BY <1>1, <1>2, <1>3, <1>4, <1>5, <1>6, <1>7, <1>8, <1>9, <1>10, <1>11, <1>12,
     <1>13, <1>14, <1>15, <1>16, <1>17, <1>18 DEF MainStep

\* The main thread loses nothing that exists.
LEMMA MainStepKeepsLeak ==
  ASSUME IInv, LiveInv, LeakInv, MainStep
  PROVE  LeakInv'
<1>0. /\ orphaned' = orphaned /\ left \subseteq left'
      /\ \A e \in Envs : MainEnvironment(e)
      /\ ((tasks' = tasks \/ tasks' = Reaped) /\ inUse' = inUse) \/ SomeTaskGiven
  BY MainEffects
<1>1. \A w \in Workers : Busy(w) => tasks'[w] = tasks[w]
  <2>1. CASE tasks' = tasks \/ tasks' = Reaped
    BY <2>1, ReapedFacts
  <2>2. CASE SomeTaskGiven
    BY <2>2 DEF SomeTaskGiven, TaskGiven
  <2> QED
    BY <2>1, <2>2, <1>0
<1>2. \A e \in Envs : Freeing(e) => Freeing(e)'
  BY <1>1 DEF Freeing, Busy
<1>3. \A e \in Envs : /\ resources'[e] => resources[e]
                      /\ resources'[e] /\ envStatus'[e] = "Deleted" =>
                           envStatus[e] = "Deleted" \/ e \in left'
  BY <1>0 DEF MainEnvironment, NothingToDelete, LiveInv, StatusTellsResources
<1>4. OrphanedIsLeft' /\ DeletedIsFreed'
  BY <1>0, <1>2, <1>3 DEF LeakInv, OrphanedIsLeft, DeletedIsFreed
<1>5. RenewIsFreed'
  <2>1. \A w \in Workers : tasks'[w].pc = "renew" => tasks'[w] = tasks[w] /\ tasks[w].env \in Envs
    <3>1. CASE tasks' = tasks \/ tasks' = Reaped
      BY <3>1, ReapedFacts, OwnEnvironment DEF Busy
    <3>2. CASE SomeTaskGiven
      <4>1. PICK w \in Workers, kind \in {"deploy", "init", "run", "delete"}, e \in environments,
                first \in Results \cup {None}, rs \in SUBSET Results :
                TaskGiven(w, kind, e, first, rs)
        BY <3>2 DEF SomeTaskGiven
      <4>2. tasks'[w].pc # "renew"
        BY <4>1 DEF TaskGiven, FirstStep
      <4>3. \A v \in Workers \ {w} : (tasks'[v] = tasks[v] /\ Busy(v)) \/ tasks'[v] = Idle
        BY <4>1 DEF TaskGiven
      <4> QED
        BY <4>2, <4>3, OwnEnvironment DEF Idle
    <3> QED
      BY <3>1, <3>2, <1>0
  <2> QED
    BY <2>1, <1>0, <1>3 DEF LeakInv, RenewIsFreed
<1>6. DeployedIsKnown'
  <2> SUFFICES ASSUME NotAborted', NEW e \in Envs, resources'[e]
               PROVE  e \in Listed' \/ Freeing(e)' \/ e \in left'
    BY DEF DeployedIsKnown
  <2>1. resources[e] /\ NotAborted
    BY <1>3, MainForgets
  <2>2. envStatus[e] # "New" /\ (envStatus[e] = "Deleted" => Freeing(e) \/ e \in left)
    BY <2>1 DEF LeakInv, DeletedIsFreed, LiveInv, StatusTellsResources
  <2>3. e \in Listed \/ Freeing(e) \/ e \in left
    BY <2>1 DEF LeakInv, DeployedIsKnown
  <2> QED
    BY <2>2, <2>3, <1>0, <1>2, MainForgets
<1>7. ClosedIsFreed'
  <2>1. Closing' => \A e \in environments' : ~inUse'[e] /\ (resources'[e] => e \in left')
    <3> SUFFICES ASSUME Closing', NEW e \in environments'
                 PROVE  ~inUse'[e] /\ (resources'[e] => e \in left')
      OBVIOUS
    <3>1. CASE RunnerIsDone
      <4>1. /\ e \in Envs /\ ~inUse[e] /\ envStatus[e] \in {"Prepared", "Deleted"}
            /\ UNCHANGED <<inUse, resources>>
        BY <3>1 DEF RunnerIsDone, IsDone, IInv, TypeOK, envVars, deployVars
      <4>2. ~Freeing(e)
        BY <4>1, OwnEnvironment DEF Freeing, Busy
      <4> QED
        BY <4>1, <4>2, <1>0 DEF LeakInv, DeletedIsFreed, LiveInv, StatusTellsResources
    <3>2. CASE Closing /\ environments' = environments
      <4>1. ~SomeTaskGiven
        BY <3>2 DEF SomeTaskGiven, TaskGiven, Closing
      <4>2. e \in Envs
        BY <3>2 DEF IInv, TypeOK
      <4> QED
        BY <3>2, <4>1, <4>2, <1>0, <1>3 DEF LeakInv, ClosedIsFreed
    <3> QED
      BY <3>1, <3>2, MainForgets
  <2>2. pc' = "finished" => \A w \in Workers : ~Busy(w)'
    <3> SUFFICES ASSUME pc' = "finished" PROVE \A w \in Workers : ~Busy(w)'
      OBVIOUS
    <3>1. \A w \in Workers : ~Busy(w)
      BY MainForgets DEF Drain, LeakInv, ClosedIsFreed
    <3>2. ~SomeTaskGiven
      BY DEF SomeTaskGiven, TaskGiven
    <3> QED
      BY <3>1, <3>2, <1>0, ReapedFacts
  <2> QED
    BY <2>1, <2>2 DEF ClosedIsFreed
<1> QED
  BY <1>4, <1>5, <1>6, <1>7 DEF LeakInv

\* What a worker does to what exists of its environment.
OwnResources(w) ==
  LET e == tasks[w].env
  IN  /\ left \subseteq left'
      /\ \A x \in Envs : x \in orphaned' =>
           \/ x \in orphaned
           \/ x = e /\ (e \in left' \/ (tasks[w].pc = "renew" /\ resources[e]))
      /\ resources'[e] => resources[e] \/ tasks[w].pc = "deploy"
      /\ resources'[e] /\ tasks[w].pc = "freeing" => e \in left'
      /\ resources'[e] /\ envStatus'[e] = "Deleted" =>
           \/ tasks'[w].pc = "freeing" \/ e \in left'
           \/ resources[e] /\ envStatus[e] = "Deleted"
      /\ resources'[e] /\ tasks'[w].pc = "renew" =>
           e \in left' \/ (tasks[w].pc = "delete" /\ resources[e] /\ envStatus[e] = "Deleted")

\* Every step of a worker is such a step.
LEMMA WorkerResources ==
  ASSUME IInv, LiveInv, NEW w \in Workers, WorkerStep(w)
  PROVE  OwnResources(w)
<1> USE DEF At, Env, First, Crash, ResetToNew, vars, envVars, flagVars, deployVars, caseVars, OwnResources
<1>0. OwnStep(w)
  BY WorkerFrame
<1>01. /\ tasks[w].env \in Envs /\ inUse[tasks[w].env]
       /\ tasks[w].pc \notin {"idle", "done"}
       /\ envStatus \in [Envs -> EnvironmentStatus] /\ resources \in [Envs -> BOOLEAN]
       /\ envStatus[tasks[w].env] \in {"Prepared", "New"} => ~resources[tasks[w].env]
  <2>1. tasks[w].env \in Envs /\ inUse[tasks[w].env]
    BY <1>0, OwnEnvironment DEF OwnStep
  <2> QED
    BY <1>0, <2>1 DEF OwnStep, Busy, IInv, TypeOK, LiveInv, StatusTellsResources
<1>1. CASE Subscribe(w)
  BY <1>1, <1>01, MoveFacts DEF Subscribe
<1>2. CASE DeploySucceeds(w)
  BY <1>2, <1>01, MoveFacts DEF DeploySucceeds
<1>3. CASE DeployFails(w)
  BY <1>3, <1>01, MoveFacts DEF DeployFails
<1>4. CASE DeployAwaits(w)
  BY <1>4, <1>01, MoveFacts DEF DeployAwaits
<1>5. CASE AwaitResource(w)
  BY <1>5, <1>01, MoveFacts DEF AwaitResource, Leave
<1>6. CASE NeedRetry(w)
  BY <1>6, <1>01, MoveFacts DEF NeedRetry, Leave
<1>7. CASE AttachFailure(w)
  BY <1>7, <1>01, MoveFacts DEF AttachFailure
<1>8. CASE DeleteEnvironment(w)
  <2>1. UNCHANGED <<resources, orphaned>>
    BY <1>8 DEF DeleteEnvironment
  <2>2. CASE NothingToDelete(Env(w))
    <3>1. envStatus[tasks[w].env] = "Deleted" /\ left' = left
      BY <1>8, <1>01, <2>2 DEF DeleteEnvironment, NothingToDelete
    <3> QED
      BY <1>8, <1>01, <2>1, <3>1 DEF DeleteEnvironment
  <2>3. CASE Kept(Env(w)) /\ Keep(Env(w))
    <3>1. left \subseteq left' /\ (resources[tasks[w].env] => tasks[w].env \in left')
      BY <2>3, RunbookAssumption DEF Kept, Keep, Leave
    <3> QED
      BY <1>8, <1>01, <2>1, <3>1 DEF DeleteEnvironment
  <2>4. CASE Move(w, "freeing") /\ left' = left
    BY <1>8, <1>01, <2>1, <2>4, MoveFacts DEF DeleteEnvironment
  <2>5. CASE Leave(Env(w))
    BY <1>8, <1>01, <2>1, <2>5 DEF DeleteEnvironment, Leave
  <2> QED
    BY <1>8, <2>2, <2>3, <2>4, <2>5 DEF DeleteEnvironment
<1>9. CASE FreeResources(w)
  BY <1>9, <1>01 DEF FreeResources, Leave
<1>10. CASE Unsubscribe(w)
  BY <1>10, <1>01, MoveFacts DEF Unsubscribe
<1>11. CASE InitializeSucceeds(w)
  BY <1>11, <1>01, MoveFacts DEF InitializeSucceeds
<1>12. CASE InitializeFails(w)
  BY <1>12, <1>01, MoveFacts DEF InitializeFails
<1>13. CASE BeginCase(w)
  BY <1>13, <1>01, MoveFacts DEF BeginCase
<1>14. CASE RunCase(w)
  BY <1>14, <1>01, MoveFacts DEF RunCase
<1>15. CASE CloseCaseLog(w)
  BY <1>15, <1>01, MoveFacts DEF CloseCaseLog
<1>16. CASE CheckConnections(w)
  <2>1. UNCHANGED <<resources, orphaned>> /\ tasks'[w].pc \in {"delete", "retry"}
    BY <1>16, MoveFacts DEF CheckConnections
  <2>2. \/ Keep(Env(w)) /\ KeepEnvironment = "failed"
        \/ left' = left /\ envStatus'[tasks[w].env] \in {"Bad", envStatus[tasks[w].env]}
    BY <1>16, <1>01 DEF CheckConnections, KeptOnFailure
  <2>3. left \subseteq left'
    BY <2>2 DEF Keep, Leave
  <2> QED
    BY <1>16, <1>01, <2>1, <2>2, <2>3 DEF CheckConnections, Keep, Leave
<1>17. CASE RetryCase(w)
  <2>1. tasks'[w].pc \in {"delete", "tail"}
    BY <1>17, <1>0 DEF RetryCase, Move, Tasks, IInv, TypeOK
  <2> QED
    BY <1>17, <1>01, <2>1 DEF RetryCase
<1>18. CASE RenewEnvironment(w)
  BY <1>18, <1>01 DEF RenewEnvironment
<1>19. CASE RequeueCase(w)
  BY <1>19, <1>01, MoveFacts DEF RequeueCase
<1>20. CASE ReturnAssigned(w)
  BY <1>20, <1>01, MoveFacts DEF ReturnAssigned
<1>21. CASE ReleaseEnvironment(w)
  BY <1>21, <1>01, MoveFacts DEF ReleaseEnvironment
<1> QED
  BY <1>1, <1>2, <1>3, <1>4, <1>5, <1>6, <1>7, <1>8, <1>9, <1>10, <1>11, <1>12,
     <1>13, <1>14, <1>15, <1>16, <1>17, <1>18, <1>19, <1>20, <1>21 DEF WorkerStep

\* A worker loses nothing that exists.
LEMMA WorkerStepKeepsLeak ==
  ASSUME IInv, LiveInv, LeakInv, NEW w \in Workers, WorkerStep(w)
  PROVE  LeakInv'
<1>0. OwnStep(w) /\ OwnResources(w)
  BY WorkerFrame, WorkerResources
<1>1. /\ tasks[w].env \in Envs /\ inUse[tasks[w].env]
      /\ \A v \in Workers \ {w} : tasks[v].pc \in {"freeing", "renew"} =>
           tasks[v].env \in Envs /\ tasks[v].env # tasks[w].env
  BY <1>0, OwnEnvironment DEF OwnStep, Busy
<1>2. \A e \in Envs \ {tasks[w].env} : Freeing(e) => Freeing(e)'
  BY <1>0 DEF Freeing, OwnStep, OwnTaskOnly
<1>3. Freeing(tasks[w].env) => tasks[w].pc = "freeing"
  BY <1>1 DEF Freeing
<1>4. UNCHANGED <<pc, environments>> /\ Listed' = Listed /\ left \subseteq left'
  BY <1>0 DEF OwnStep, mainVars, loopVars, Listed, OwnResources
<1>5. OrphanedIsLeft'
  BY <1>0, <1>1, <1>4 DEF OwnResources, LeakInv, OrphanedIsLeft, RenewIsFreed
<1>6. DeletedIsFreed'
  <2> SUFFICES ASSUME NEW e \in Envs, resources'[e], envStatus'[e] = "Deleted"
               PROVE  Freeing(e)' \/ e \in left'
    BY DEF DeletedIsFreed
  <2>1. CASE e # tasks[w].env
    BY <2>1, <1>0, <1>2, <1>4 DEF OwnStep, OwnEnvironmentOnly, LeakInv, DeletedIsFreed
  <2>2. CASE e = tasks[w].env
    <3>1. resources[e] /\ envStatus[e] = "Deleted" => e \in left'
      BY <2>2, <1>0, <1>3, <1>4 DEF OwnResources, LeakInv, DeletedIsFreed
    <3>2. tasks'[w].env = e
      BY <2>2, <1>0 DEF OwnStep, OwnTaskOnly
    <3>3. tasks'[w].pc = "freeing" \/ e \in left'
      BY <2>2, <3>1, <1>0 DEF OwnResources
    <3> QED
      BY <3>2, <3>3 DEF Freeing
  <2> QED
    BY <2>1, <2>2
<1>7. RenewIsFreed'
  <2> SUFFICES ASSUME NEW v \in Workers, tasks'[v].pc = "renew", resources'[tasks'[v].env]
               PROVE  tasks'[v].env \in left'
    BY DEF RenewIsFreed
  <2>1. CASE v # w
    <3>1. tasks'[v] = tasks[v]
      BY <2>1, <1>0 DEF OwnStep, OwnTaskOnly
    <3>2. resources[tasks[v].env]
      BY <2>1, <3>1, <1>0, <1>1 DEF OwnStep, OwnEnvironmentOnly
    <3> QED
      BY <3>1, <3>2, <1>4 DEF LeakInv, RenewIsFreed
  <2>2. CASE v = w
    <3>1. tasks'[w].env = tasks[w].env
      BY <1>0 DEF OwnStep, OwnTaskOnly
    <3>2. CASE tasks[w].pc = "delete" /\ resources[tasks[w].env] /\ envStatus[tasks[w].env] = "Deleted"
      BY <2>2, <3>1, <3>2, <1>1, <1>3, <1>4 DEF LeakInv, DeletedIsFreed
    <3> QED
      BY <2>2, <3>1, <3>2, <1>0 DEF OwnResources
  <2> QED
    BY <2>1, <2>2
<1>8. DeployedIsKnown'
  <2> SUFFICES ASSUME NotAborted, NEW e \in Envs, resources'[e]
               PROVE  e \in Listed \/ Freeing(e)' \/ e \in left'
    BY <1>4 DEF DeployedIsKnown, NotAborted
  <2>1. CASE e # tasks[w].env
    BY <2>1, <1>0, <1>2, <1>4 DEF OwnStep, OwnEnvironmentOnly, LeakInv, DeployedIsKnown
  <2>2. CASE e = tasks[w].env /\ resources[e]
    BY <2>2, <1>0, <1>3, <1>4 DEF OwnResources, LeakInv, DeployedIsKnown
  <2>3. CASE e = tasks[w].env /\ tasks[w].pc = "deploy"
    BY <2>3 DEF LiveInv, TaskEnvironmentListed
  <2> QED
    BY <2>1, <2>2, <2>3, <1>0 DEF OwnResources
<1>9. ClosedIsFreed'
  <2>1. Closing => tasks[w].env \notin environments
    BY <1>1 DEF LeakInv, ClosedIsFreed
  <2>2. Closing' => \A e \in environments' : ~inUse'[e] /\ (resources'[e] => e \in left')
    BY <1>0, <1>4, <2>1 DEF LeakInv, ClosedIsFreed, Closing, OwnStep, OwnEnvironmentOnly, IInv, TypeOK
  <2>3. pc # "finished"
    BY <1>0 DEF LeakInv, ClosedIsFreed, OwnStep
  <2> QED
    BY <1>4, <2>2, <2>3 DEF ClosedIsFreed
<1> QED
  BY <1>5, <1>6, <1>7, <1>8, <1>9 DEF LeakInv

\* LeakInv holds at first, and every step keeps it.
LEMMA LeakInvariance == Spec => []LeakInv
<1>1. Init => LeakInv
  BY DEF Init, LeakInv, OrphanedIsLeft, DeletedIsFreed, RenewIsFreed, DeployedIsKnown,
         ClosedIsFreed, Closing, Idle
<1>2. IInv /\ LiveInv /\ LeakInv /\ [Next]_vars => LeakInv'
  <2> SUFFICES ASSUME IInv, LiveInv, LeakInv, [Next]_vars PROVE LeakInv'
    OBVIOUS
  <2>1. CASE MainStep
    BY <2>1, MainStepKeepsLeak
  <2>2. ASSUME NEW w \in Workers, WorkerStep(w) PROVE LeakInv'
    BY <2>2, WorkerStepKeepsLeak
  <2>3. CASE UNCHANGED vars
    BY <2>3 DEF LeakInv, OrphanedIsLeft, DeletedIsFreed, RenewIsFreed, DeployedIsKnown,
       ClosedIsFreed, Closing, Freeing, NotAborted, Listed, Busy, vars, mainVars, loopVars,
       envVars, deployVars
  <2> QED
    BY <2>1, <2>2, <2>3 DEF Next, Terminated
<1> QED
  BY <1>1, <1>2, Invariance, LiveInvariance, PTL DEF Spec

\* When the platform is asked to deploy an environment, what exists of an earlier deployment
\* of it was left by keep_environment, by a deletion that raised, or by a failed deployment
\* that is tried again: a retried case has deleted its environment, or tried to.  This holds
\* also while an aborted run is closed under its workers.
THEOREM OneDeployment == Spec => []NoDoubleDeployment
<1>1. IInv /\ LiveInv /\ LeakInv => NoDoubleDeployment
  BY DEF IInv, TypeOK, LiveInv, TaskFindsEnvironment, LeakInv, OrphanedIsLeft,
         NoDoubleDeployment, At, Env, Busy
<1> QED
  BY <1>1, Invariance, LiveInvariance, LeakInvariance, PTL

\* Resources alone, with every retry, wait and failure: when a run ends normally, what still
\* exists was left by keep_environment, by a deletion that raised, or by a failed deployment
\* that was tried again.
THEOREM NothingLost == Spec => []NothingLeaked
<1>1. IInv /\ LeakInv => NothingLeaked
  BY DEF LeakInv, OrphanedIsLeft, DeployedIsKnown, ClosedIsFreed, Closing, Freeing, NotAborted,
         Listed, Busy, NothingLeaked
<1> QED
  BY <1>1, Invariance, LeakInvariance, PTL

\* A run that ends normally has given every result a final status, where no case is tried a
\* second time, and what it has not deleted of what it deployed was left as in NothingLost.
THEOREM RunIsComplete ==
  ASSUME \A r \in Results : CaseRetry[r] = 0
  PROVE  Spec => []EndsComplete
<1>1. CompleteInv => FinishedMeansCompleted
  BY DEF CompleteInv, ClosedIsDone, Closing, FinishedMeansCompleted
<1> QED
  BY <1>1, NothingLost, CompleteInvariance, PTL DEF EndsComplete

\* Nothing exists of what the platform created.
EverythingDeleted == pc = "finished" => orphaned = {} /\ \A e \in Envs : ~resources[e]

LeftNothing == left = {}

\* A run that ends normally has deleted everything, where keep_environment keeps nothing, no
\* deletion raises, and no failed deployment is tried again; cases may be.
THEOREM NothingStays ==
  ASSUME KeepEnvironment = "no", "cleanup" \notin Failures, "free" \notin Failures,
         EnvRetry = 0, MaxAwaits = 0
  PROVE  Spec => []EverythingDeleted
<1>1. Init => LeftNothing
  BY DEF Init, LeftNothing
<1>2. IInv /\ LeftNothing /\ [Next]_vars => LeftNothing'
  <2> SUFFICES ASSUME IInv, LeftNothing, [Next]_vars PROVE left' = left
    BY DEF LeftNothing
  <2> USE DEF Keep, vars, envVars, deployVars
  <2>1. CASE MainStep
    BY <2>1 DEF MainStep, WaitWorker, RunnerIsDone, LeaveSubmitLoop, FetchTask, Drain,
       PrepareProceeds, PrepareFails, PrepareEnds, ShouldEarlyStop, CleanupDeletedEnvironments,
       CleanupDoneResults, SortEnvironments, DeleteUnusedEnvironments, VisitEnvironment,
       DispatchTestResult, SkipTestResults, CloseDeletes, CloseEnds
  <2>2. ASSUME NEW w \in Workers, WorkerStep(w) PROVE left' = left
    <3>1. AwaitResource(w) => left' = left
      <4>1. awaits \in [{"prepare", "deploy"} -> 0..0]
        BY DEF IInv, TypeOK
      <4> QED
        BY <4>1 DEF AwaitResource
    <3>2. NeedRetry(w) => left' = left
      <4> SUFFICES ASSUME NeedRetry(w) PROVE left' = left
        OBVIOUS
      <4>1. triedTimes \in [Envs -> 0..0]
        BY DEF IInv, TypeOK
      <4>2. tasks[w].env \in Envs
        BY OwnEnvironment DEF NeedRetry, At, Busy
      <4>3. ~MayRetry(Env(w))
        BY <4>1, <4>2 DEF MayRetry, Env
      <4> QED
        BY <4>3 DEF NeedRetry
    <3>3. DeleteEnvironment(w) \/ FreeResources(w) \/ CheckConnections(w) => left' = left
      BY DEF DeleteEnvironment, FreeResources, CheckConnections
    <3> QED
      BY <2>2, <3>1, <3>2, <3>3 DEF WorkerStep, Subscribe, DeploySucceeds, DeployFails,
         DeployAwaits, AttachFailure, Unsubscribe, InitializeSucceeds, InitializeFails, BeginCase,
         RunCase, CloseCaseLog, RetryCase, RenewEnvironment, RequeueCase, ReturnAssigned,
         ReleaseEnvironment
  <2>3. CASE UNCHANGED vars
    BY <2>3
  <2> QED
    BY <2>1, <2>2, <2>3 DEF Next, Terminated
<1>3. IInv /\ LeftNothing /\ NothingLeaked => EverythingDeleted
  BY DEF IInv, TypeOK, LeftNothing, NothingLeaked, EverythingDeleted
<1> QED
  BY <1>1, <1>2, <1>3, Invariance, NothingLost, PTL DEF Spec

-----------------------------------------------------------------------------
(* A dirty environment is on its way to be deleted. *)

\* An environment is dirty only while it is deleted, or in use by the task that made it so.
DirtyIsLost == \A e \in Envs : IsDirty(e) => envStatus[e] = "Deleted" \/ inUse[e]

\* Only a task that runs tests gets to the steps of a test, and once its environment is dirty
\* it does not let it go before it is deleted.
DirtyTask(w) ==
  /\ tasks[w].pc \in {"begin", "case", "close", "check", "retry"} => tasks[w].kind = "run"
  /\ Busy(w) /\ IsDirty(tasks[w].env) =>
       /\ tasks[w].kind = "run"
       /\ \/ tasks[w].pc \in {"case", "close", "check", "delete"}
          \/ /\ tasks[w].pc \in {"freeing", "retry", "tail", "release"}
             /\ envStatus[tasks[w].env] = "Deleted"

DirtyInv == DirtyIsLost /\ \A w \in Workers : DirtyTask(w)

\* The main thread gives nobody a dirty environment.
LEMMA MainStepKeepsDirty ==
  ASSUME IInv, LiveInv, DirtyInv, MainStep, ~ReuseDirtyEnv
  PROVE  DirtyInv'
<1> USE DEF IsDirty
<1>0. /\ isDirty' = isDirty /\ nodeDirty' = nodeDirty
      /\ \A e \in Envs : MainEnvironment(e)
      /\ ((tasks' = tasks \/ tasks' = Reaped) /\ inUse' = inUse) \/ SomeTaskGiven
  BY MainEffects
<1>1. \A e \in Envs : envStatus[e] = "Deleted" => envStatus'[e] = "Deleted"
  BY <1>0 DEF MainEnvironment
<1>2. CASE (tasks' = tasks \/ tasks' = Reaped) /\ inUse' = inUse
  <2>1. DirtyIsLost'
    BY <1>0, <1>1, <1>2 DEF DirtyInv, DirtyIsLost
  <2>2. \A w \in Workers : (Busy(w) /\ tasks'[w] = tasks[w]) \/ tasks'[w].pc \in {"idle", "done"}
    BY <1>2, ReapedFacts DEF Busy
  <2>3. \A w \in Workers : Busy(w) => tasks[w].env \in Envs
    BY DEF IInv, TypeOK
  <2>4. \A w \in Workers : DirtyTask(w)'
    BY <1>0, <1>1, <2>2, <2>3 DEF DirtyInv, DirtyTask, Busy
  <2> QED
    BY <2>1, <2>4 DEF DirtyInv
<1>3. CASE SomeTaskGiven
  <2>1. PICK w \in Workers, kind \in {"deploy", "init", "run", "delete"}, e \in environments,
            first \in Results \cup {None}, rs \in SUBSET Results :
            TaskGiven(w, kind, e, first, rs)
    BY <1>3 DEF SomeTaskGiven
  <2>2. e \in Envs /\ ~IsDirty(e)
    BY <2>1 DEF TaskGiven, DirtyInv, DirtyIsLost, Wanted, IInv, TypeOK
  <2>3. inUse' = [inUse EXCEPT ![e] = TRUE] /\ tasks'[w].env = e /\ tasks'[w].kind = kind
        /\ tasks'[w].pc = FirstStep[kind]
    BY <2>1 DEF TaskGiven
  <2>4. tasks'[w].pc \in {"begin", "case", "close", "check", "retry"} => kind = "run"
    BY <2>3 DEF FirstStep
  <2>5. DirtyTask(w)'
    BY <1>0, <2>2, <2>3, <2>4 DEF DirtyTask
  <2>6. DirtyIsLost'
    BY <1>0, <1>1, <2>3 DEF DirtyInv, DirtyIsLost, IInv, TypeOK
  <2>7. \A v \in Workers \ {w} : (Busy(v) /\ tasks'[v] = tasks[v]) \/ tasks'[v] = Idle
    BY <2>1 DEF TaskGiven
  <2>8. \A v \in Workers : Busy(v) => tasks[v].env \in Envs
    BY DEF IInv, TypeOK
  <2>9. \A v \in Workers \ {w} : DirtyTask(v)'
    BY <1>0, <1>1, <2>7, <2>8 DEF DirtyInv, DirtyTask, Busy, Idle
  <2> QED
    BY <2>5, <2>6, <2>9 DEF DirtyInv
<1> QED
  BY <1>0, <1>2, <1>3

\* A worker that makes its environment dirty deletes it before it lets it go.
LEMMA WorkerStepKeepsDirty ==
  ASSUME IInv, NoRerun, DirtyInv, NEW w \in Workers, WorkerStep(w),
         \A r \in Results : CaseRetry[r] = 0, "cleanup" \notin Failures, ~ReuseDirtyEnv
  PROVE  DirtyInv'
<1> USE DEF IsDirty
<1>0. OwnStep(w) /\ tasks'[w].kind = tasks[w].kind
  BY WorkerFrame, WorkerStepKeepsKind
<1>01. /\ tasks[w].env \in Envs /\ inUse[tasks[w].env] /\ Busy(w) /\ DirtyTask(w)
       /\ \A v \in Workers \ {w} : Busy(v) => tasks[v].env \in Envs /\ tasks[v].env # tasks[w].env
  BY <1>0, OwnEnvironment DEF OwnStep, DirtyInv
<1> DEFINE Goal == /\ isDirty'[tasks[w].env] \/ nodeDirty'[tasks[w].env] =>
                        envStatus'[tasks[w].env] = "Deleted" \/ inUse'[tasks[w].env]
                   /\ DirtyTask(w)'
<1> SUFFICES Goal
  <2>1. DirtyIsLost'
    BY <1>0 DEF OwnStep, OwnEnvironmentOnly, DirtyInv, DirtyIsLost
  <2>2. \A v \in Workers \ {w} : tasks'[v] = tasks[v] /\ DirtyTask(v)
    BY <1>0 DEF OwnStep, OwnTaskOnly, DirtyInv
  <2>3. \A v \in Workers \ {w} : Busy(v) => /\ isDirty'[tasks[v].env] = isDirty[tasks[v].env]
                                            /\ nodeDirty'[tasks[v].env] = nodeDirty[tasks[v].env]
                                            /\ envStatus'[tasks[v].env] = envStatus[tasks[v].env]
    BY <1>0, <1>01 DEF OwnStep, OwnEnvironmentOnly
  <2>4. \A v \in Workers \ {w} : DirtyTask(v)'
    BY <2>2, <2>3 DEF DirtyTask, Busy
  <2> QED
    BY <2>1, <2>4 DEF DirtyInv
<1> USE DEF At, Env, First, Crash, ResetToNew, DirtyTask, Busy, vars, envVars, flagVars, deployVars, caseVars
<1>00. /\ envStatus \in [Envs -> EnvironmentStatus] /\ isDirty \in [Envs -> BOOLEAN]
       /\ nodeDirty \in [Envs -> BOOLEAN]
       /\ inUse \in [Envs -> BOOLEAN] /\ retried \in [Results -> Nat]
       /\ tasks'[w].env = tasks[w].env /\ tasks'[w].kind = tasks[w].kind
       /\ tasks[w].kind \in TaskKinds /\ tasks[w].kind # "rerun"
       /\ tasks[w].pc \notin {"idle", "done", "renew", "requeue"}
       /\ tasks[w].kind # "delete" => tasks[w].first \in Results
  BY <1>0 DEF IInv, TypeOK, OwnStep, OwnTaskOnly, Tasks, NoRerun
<1>02. /\ tasks[w].kind = "run" => AfterDelete[tasks[w].kind] = "retry"
       /\ tasks[w].kind # "run" => AfterDelete[tasks[w].kind] \in {"unsubscribe", "tail"}
  BY <1>00 DEF AfterDelete, TaskKinds
<1>1. CASE Subscribe(w)
  BY <1>1, <1>00, <1>01, MoveFacts DEF Subscribe
<1>2. CASE DeploySucceeds(w)
  BY <1>2, <1>00, <1>01, MoveFacts DEF DeploySucceeds
<1>3. CASE DeployFails(w)
  BY <1>3, <1>00, <1>01, MoveFacts DEF DeployFails
<1>4. CASE DeployAwaits(w)
  BY <1>4, <1>00, <1>01, MoveFacts DEF DeployAwaits
<1>5. CASE AwaitResource(w)
  BY <1>5, <1>00, <1>01, MoveFacts DEF AwaitResource
<1>6. CASE NeedRetry(w)
  BY <1>6, <1>00, <1>01, MoveFacts DEF NeedRetry
<1>7. CASE AttachFailure(w)
  BY <1>7, <1>00, <1>01, MoveFacts DEF AttachFailure
<1>8. CASE DeleteEnvironment(w)
  BY <1>8, <1>00, <1>01, <1>02, MoveFacts DEF DeleteEnvironment
<1>9. CASE FreeResources(w)
  BY <1>9, <1>00, <1>01, <1>02, MoveFacts DEF FreeResources, StatusAfterFree
<1>10. CASE Unsubscribe(w)
  BY <1>10, <1>00, <1>01, MoveFacts DEF Unsubscribe
<1>11. CASE InitializeSucceeds(w)
  BY <1>11, <1>00, <1>01, MoveFacts DEF InitializeSucceeds
<1>12. CASE InitializeFails(w)
  BY <1>12, <1>00, <1>01, MoveFacts DEF InitializeFails
<1>13. CASE BeginCase(w)
  BY <1>13, <1>00, <1>01, MoveFacts DEF BeginCase
<1>14. CASE RunCase(w)
  BY <1>14, <1>00, <1>01, MoveFacts DEF RunCase
<1>15. CASE CloseCaseLog(w)
  BY <1>15, <1>00, <1>01, MoveFacts DEF CloseCaseLog
<1>16. CASE CheckConnections(w)
  BY <1>16, <1>00, <1>01, MoveFacts DEF CheckConnections, DeletedAfterCase
<1>17. CASE RetryCase(w)
  <2>1. ~(retried[First(w)] < CaseRetry[First(w)])
    BY <1>17, <1>00, <1>01 DEF RetryCase
  <2>2. tasks'[w].pc = "tail"
    BY <1>17, <2>1, MoveFacts DEF RetryCase
  <2> QED
    BY <1>17, <2>2, <1>00, <1>01 DEF RetryCase
<1>18. CASE RenewEnvironment(w)
  BY <1>18, <1>00 DEF RenewEnvironment
<1>19. CASE RequeueCase(w)
  BY <1>19, <1>00 DEF RequeueCase
<1>20. CASE ReturnAssigned(w)
  BY <1>20, <1>00, <1>01, MoveFacts DEF ReturnAssigned
<1>21. CASE ReleaseEnvironment(w)
  BY <1>21, <1>00, <1>01, MoveFacts DEF ReleaseEnvironment
<1> QED
  BY <1>1, <1>2, <1>3, <1>4, <1>5, <1>6, <1>7, <1>8, <1>9, <1>10, <1>11, <1>12,
     <1>13, <1>14, <1>15, <1>16, <1>17, <1>18, <1>19, <1>20, <1>21 DEF WorkerStep

\* DirtyInv holds at first, and every step keeps it.
LEMMA DirtyInvariance ==
  ASSUME \A r \in Results : CaseRetry[r] = 0, "cleanup" \notin Failures, ~ReuseDirtyEnv
  PROVE  Spec => []DirtyInv
<1>1. Init => DirtyInv
  BY DEF Init, DirtyInv, DirtyIsLost, DirtyTask, IsDirty, Busy, Idle
<1>2. IInv /\ LiveInv /\ CompleteInv /\ DirtyInv /\ [Next]_vars => DirtyInv'
  <2> SUFFICES ASSUME IInv, LiveInv, CompleteInv, DirtyInv, [Next]_vars PROVE DirtyInv'
    OBVIOUS
  <2>1. CASE MainStep
    BY <2>1, MainStepKeepsDirty
  <2>2. ASSUME NEW w \in Workers, WorkerStep(w) PROVE DirtyInv'
    BY <2>2, WorkerStepKeepsDirty DEF CompleteInv
  <2>3. CASE UNCHANGED vars
    BY <2>3 DEF DirtyInv, DirtyIsLost, DirtyTask, IsDirty, Busy, vars, envVars, flagVars
  <2> QED
    BY <2>1, <2>2, <2>3 DEF Next, Terminated
<1> QED
  BY <1>1, <1>2, Invariance, LiveInvariance, CompleteInvariance, PTL DEF Spec

\* No test starts on an environment that an earlier test made dirty, where the deletion of
\* an environment does not fail before it begins and no platform brings dirty environments
\* back (either one hands the environment out again with its mark).
THEOREM DirtyNotReused ==
  ASSUME \A r \in Results : CaseRetry[r] = 0, "cleanup" \notin Failures, ~ReuseDirtyEnv
  PROVE  Spec => DirtyEnvironmentNotReused
<1>1. DirtyInv /\ [Next]_vars =>
        [\A w \in Workers : At(w, "begin") /\ ~At(w, "begin")' => ~IsDirty(Env(w))]_vars
  BY DEF DirtyInv, DirtyTask, Busy, At, Env
<1> QED
  BY <1>1, DirtyInvariance, PTL DEF Spec, DirtyEnvironmentNotReused
=============================================================================
