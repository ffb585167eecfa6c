# TLA+ models of LISA

LISA (Linux Integration Services Automation) deploys environments on a platform
(Azure, Hyper-V, QEMU, a "ready" machine...), runs test cases on them and reports the
results. This directory holds TLA+ models of the parts of LISA that schedule that work,
the TLC configurations that check them on small instances, and TLAPS proofs of most of
their safety properties for every instance.

Everything is translated from `src/lisa/`. `PROJECT.json` maps each definition to the
lines it models and lists the runs, the hazards each property is about, what was found,
and the theorems.

## 1. The system

### Components

| Component | Source | State | Operations | Modelled in |
|---|---|---|---|---|
| Scheduler | `runners/lisa_runner.py` | lists of environments and test results | `fetch_task` (prepare, early stop, clean-ups, sort, delete unused, dispatch, skip), the task methods (deploy, initialize, run, delete), `is_done`, `close` | `LisaRunner` |
| Root runner | `runner.py` | runners, the task manager, wait timers | `start`, `_fetch_runners`, `_generate_runners`, `_submit_runner_tasks`, `_start_loop`, `_cleanup`; `_need_retry`, `_is_awaitable_timeout` | `RootRunner` (all runners), `LisaRunner` (one runner in detail) |
| Environment | `environment.py` | status, in-use, new and dirty flags, tried times | status setter, `_reset`, `initialize` | `LisaRunner` |
| Platform | `platform_.py`, `sut_orchestrator/ready.py` | keep policy, what was deployed | `prepare_`, `deploy_`, `delete_environment` | `LisaRunner` |
| Test result, test suite | `testsuite.py` | status, retried times, log handler | `set_status`, `handle_exception`, `subscribe_log`, `unsubscribe_log`, `start` | `LisaRunner` |
| Task manager | `util/parallel.py` | pending queue, futures, stored exceptions, lock | `submit_task`, `_process_pending_tasks`, `wait_worker`, `wait_for_all_workers`, done callbacks | `TaskManager` |
| Notifier | `notifier.py` | the message manager (a task manager with one worker), notifiers | `notify`, `flush_notifications`, `finalize` | `TaskManager` (the fan-out is not) |
| Search space | `search_space.py`, `schema.py` | none | `check`, `choose_value`, `intersect` of ranges, counts, sets and node spaces | `SearchSpace`, `Requirements` |
| Test selection | `testselector.py` | selected cases, forced cases | `select_testcases`: include, exclude, force, settings | `TestSelector` |
| Transformers | `transformer.py` | variables | sort by dependency and phase, run a phase | `Transformers`, `RootRunner` |
| Combinators | `combinators/` | position in the grid or batch, bisect state | `fetch` | `RootRunner` (not csv) |
| Variables, runbook, commands | `variable.py`, `parameter_parser/`, `main.py` | none | parse, substitute, merge | no |
| Nodes, tools, features, cloud platforms, test suites | `node.py`, `tools/`, `features/`, `sut_orchestrator/*`, `microsoft/` | remote machines | remote I/O | only by its outcomes |

### How they interact

One main thread runs `RootRunner._start_loop`. While a worker of the task manager is
idle it calls `LisaRunner.fetch_task`, which looks at every environment and every test
result and returns at most one task; the task is submitted to the pool, and its worker
thread calls the platform, the environment and the test suite. The runners come from a generator, `_fetch_runners`, which the main loop asks for
the next one when a worker is idle: it fetches a combination of variables, runs the
transformers of the phase and creates a runner for each type of test case filter. Each
LisaRunner first selects its cases and turns their requirements into environments.
Main thread and workers share the fields of `Environment` and `TestResult` **without a lock**: what keeps them
apart is the protocol of `is_in_use`, `ASSIGNED`, and the order of the assignments.
Any of these threads may call `notify`, which goes through a second task manager with one
worker, whose `_process_lock` guards its scheduling but not the reaping done by
`wait_worker`.

### What is hard about it

* *Interleaving*: `fetch_task` decides on fields that workers change meanwhile. Statuses
  such as `Deleted` or `FAILED` may be transient (a retry is about to replace them).
* *Partial failure*: a deployment may fail before or after resources exist, the
  connection check may find the nodes gone, an exception in a worker cancels the run.
* *Retries and timeouts*: environment retry, case retry, waits for resources. Each resets
  an environment that something else may look at.
* *Termination*: `is_done` needs every result completed and every environment free and
  prepared or deleted; a status that no path leaves makes the loop spin for ever.
* *Lazy generators and late messages*: what follows a `yield` runs when the next runner is
  asked for, and a verdict that git bisect needs travels through the notifier's thread.
* *Boundaries*: ranges with or without their end, zero, "no bound" as `sys.maxsize`, and
  Python's idea of false decide whether a test is skipped.
* *Lost wake-ups*: pending tasks are scheduled by submitters and by done callbacks of
  futures that may be done before the callback is added.

### What makes the components correct

* Scheduler: a task is the only user of its environment; a result is in the hands of one
  worker; tests run on live environments of the status they ask for; a case that wants a
  new environment gets one; dirty environments are not reused; a run that ends normally
  left no result queued, and no deployment but one that was to be kept, could not be deleted,
  or failed and was tried again; verdicts are not overwritten; the run ends.
* Task manager: never more than `max_workers` futures; submission order is kept with one
  worker; nothing is reaped twice; every submitted task runs; a flush waits for all (it may miss the
  last, section 5).
* Root runner: every combination is run, once and in order; the close of each runner
  returns once (one that raised is called again by `_cleanup`); transformers run after what they depend on; the loop ends.
* Requirements: a check is an overlap; the choice is within test, runbook and platform; the
  environment made for a test can run it; a test is skipped only if nothing could meet it.
* Selection: the selected cases and their settings follow from the list of filters; forced
  filters win, except that the code forgets a forced exclusion of a case not yet selected.

## 2. Modules

| Module | What it is |
|---|---|
| `LisaRunner` | main loop, scheduler, environments, results and worker threads |
| `MCLisaRunner` | constants for TLC: two or three results, one or two environments, two workers |
| `LisaRunner_proofs` | theorems about `LisaRunner`: types, exclusion |
| `LisaRunner_env_proofs` | extends it: what a task finds on its environment and what is left when the run ends |
| `LisaRunner_result_proofs` | extends that: verdicts, and the refinement of `TestRun` |
| `TestRun` | what the scheduler promises its tests: the abstract specification `LisaRunner` implements |
| `TaskManager` | the pool, as the notifier uses it |
| `MCTaskManager` | constants for TLC: a caller, the main thread, a pool of one, three messages |
| `TaskManager_proofs` | theorems about `TaskManager` |
| `SearchSpace` | ranges, count spaces and set spaces: check, choose, intersect |
| `SearchSpace_proofs` | theorems about `SearchSpace` |
| `Requirements` | extends `SearchSpace`: from the requirement of a test case to the nodes of its environment |
| `MCRequirements` | test requirements, runbooks and hosts that differ from an undemanding one in one field |
| `Requirements_proofs` | theorems about `Requirements`, on top of those about `SearchSpace` |
| `TestSelector`, `MCTestSelector`, `TestSelector_proofs` | the selection of test cases, an instance of it, theorems |
| `Transformers` | the order of the transformers |
| `RootRunner`, `MCRootRunner`, `RootRunner_proofs` | extends `Transformers`: the main loop over all runners, with the combinators; an instance of it, theorems |

### `LisaRunner`

The main thread has a program counter `pc`; each worker slot has a record in `tasks` with
its step (`pc`), the kind of its task, its environment and its results. A step is what a
thread does between two reads or writes that another thread could see:

* `fetch_task` is `FetchTask`, then `PrepareProceeds` / `PrepareFails` per environment,
  `PrepareEnds`, `ShouldEarlyStop`, `CleanupDeletedEnvironments`, `CleanupDoneResults`,
  `SortEnvironments` (one step for each of the four statuses: an environment that changes
  its status between two passes is missed), `DeleteUnusedEnvironments`,
  `VisitEnvironment` / `DispatchTestResult` per environment in the sorted order, and
  `SkipTestResults`. `toVisit`, `proceeded`, `ranked`, `available` and `availableResults`
  are its local lists.
* `_run_task` is the task's own steps (`Subscribe`, `Deploy*`, `AwaitResource`,
  `NeedRetry`, `AttachFailure`, `DeleteEnvironment`, `FreeResources`, `Unsubscribe`;
  `Initialize*`; `BeginCase`, `RunCase`, `CloseCaseLog`, `CheckConnections`, `RetryCase`,
  `RenewEnvironment`, `RequeueCase`), then `ReturnAssigned` and `ReleaseEnvironment`.
* `RootRunner` is `WaitWorker`, `RunnerIsDone`, `LeaveSubmitLoop`, `Drain`, `CloseDeletes`
  and `CloseEnds`; an exception goes to `abort`, which closes the runner too.

Abstractions. Capabilities are the relation `Fits`; platform and test outcomes are free
choices limited by `Failures`; costs, priorities and names, which only order equals, are
free choices; a timeout is the `MaxAwaits`-th wait. `resources`, `orphaned`, `left` and `ran` are
history: what the platform created; what was created and can no longer be named because
`_reset` dropped its context; the environments whose resources were left (`keep_environment`
kept them, their deletion raised, or a failed deployment is tried again); and whether a test
ran since the deployment. `IsDirty` is `Environment.is_dirty`: the flag of the environment, or
a node that one of the cases in `DirtiesNode` marked (`nodeDirty`).

`Failures` names the calls that may raise: `prepare`, `deploy`, `init`, `test`, `connection`
(the nodes are gone after the test), `cleanup` (`environment.cleanup()`, before the status is
`Deleted`), `free` (the platform's `_delete_environment`, `platform_.py:241`, when it already
is; `_delete_environment_task` only logs it, and the resources stay) and `close`
(`platform.cleanup()`, `lisa_runner.py:182`; the run aborts and `_cleanup` closes the runner
again). The TaskManager
of the root runner is the set of worker slots: done futures are reaped where the code
calls `has_idle_worker` or `wait_worker`.

### `TaskManager`

Threads call `notify` (`Submit`), the main thread finally calls `finalize` (`Flush`).
`_process_pending_tasks` is `AcquireLock`, `CheckPending`, `Reap` / `Remove` (one future
of the copied list at a time), `HasIdleWorker`, then `GetPending`, `SubmitToPool` and
`AppendFuture` (`parallel.py:173-176`: three steps, as the flush looks at the pending queue and
at the futures without the lock), and after the lock `AddCallback`.
A callback added to a finished future is called at once, in the same thread, so a thread
has a stack `frames` of the `new_futures` lists of its nested calls. `wait_worker` and
`join_exceptions` are `Remaining`, `WaitWorker`, the same `Reap` / `Remove` without the
lock, and `JoinExceptions`. `Fetch` and `Registers` stand for the standard library's
executor and `Future.add_done_callback`.

### `TestRun` and the refinement

`TestRun` knows three things: who uses an environment (`user`), whether a test is open,
closed or run by a worker (`test`), and how often it was retried. A worker has an
environment to itself from `Take` to `Give`; a test begins only when open and only by a
worker that has an environment; a closed test is opened again only by a retry, which is
counted. `LisaRunner` maps `user[e]` to the worker whose task is on `e`, and `test[r]` to
its status: `RUNNING` is the worker that runs it, completed is closed, the others are open.
`KeepsPromise == Promise!Spec` is what `retries` checks. It holds for environments of the
runbook without `exit_on_first_failure`, and with case retries for one environment
(section 5 says what goes wrong otherwise).

### `SearchSpace` and `Requirements`

The operators keep the names and the cases of `search_space.py`; an exception is a value
(`NotMeet`, `Error`) and a list of ranges a set, since every loop over one is a minimum, a
maximum or an "any". `Requirements` is the life of one requirement: `MergeTestRequirements`
(`_merge_test_requirements`), `PrepareEnvironment` (the platform chooses within its
capability, as `_configure_node_capabilities` of libvirt does; Hyper-V and bare metal have
the same loop), `CreateNodes` (`create_node_from_requirement` chooses again).
`_check_host_capabilities`, which compares the sum of the nodes with the host, and libvirt's
refusal of a feature its host type does not know are left out: they only refuse more. A
node space is a function from field names to spaces; fields that the code treats alike have
one representative.

Three assumptions say what requirements and capabilities may be, and the proofs rest on
them. `PriorityAssumption`: the priority lists are lists. `RequirementAssumption`: counts are
not negative and at most `sys.maxsize`, a list of ranges is not empty, options are among
those the priority list names (the lists of `schema.py` name all of them), and a test case
does not contradict itself. `CapabilityAssumption`: a platform sets every field, has at
least one core, any number of data disks, and excludes no feature it has; that is what
`_create_node_capabilities` of libvirt (`libvirt/platform.py:337-363`) and Hyper-V
(`hyperv/platform_.py:204-227`) build.

### `TestSelector`

One action per filter (`ApplyFilter`: `IncludeCases`, `ExcludeCases`, `UpdateCases`), and
`Return`, which clones the cases with `times` above one. A pattern is the set of values it
matches. `filters` is the history of the filters applied, and the properties refer to it
alone, not to the sets the code keeps: `Forced(c)` are the forced filters about a case,
`ForcedBothWays(c)` says that two of them disagree, and `Forgotten(c)` are the forced
exclusions that came while the case was not selected, the one place where the code departs
from the rule of `schema.py:1667-1669`.

### `RootRunner`

`pc` is where the main thread is in `_start_loop`, `gen` where the generator
`_fetch_runners` is; its steps (`BeginFetch`, `Fetch`, `Expand`, `CreateRunner`,
`ExpandedCleanup`) happen only while the loop asks for a runner (`Advancing`). A runner is
reduced to what the loop sees: tasks to fetch, tasks that run, done, closed. `TaskEnds` is a
worker, `Notify` the thread of the notifier. A close in the loop may raise (`CloseRaises`):
the runner stays active and `_cleanup` closes it again. For git bisect `ProcessResult` reads the
verdict and `FetchBisect` clears it, so a message may arrive in between. The flush at the end
may raise (`FlushRaises`) or return with the last message on its way. `LisaRunner` is the same loop with one runner,
after `has_more_runner` became false, and everything a runner does inside; the two share
no variable, and `IsDone` and `TaskCount` are all `RootRunner` assumes of a runner.

Some definitions have a wrong twin before them (`HasIdleOffByOne`, `KeptWhenBad`...): a
plausible slip in that line, which the properties have to catch (`mutants` in
`PROJECT.json`). They are not used by the specifications.

## 3. Runs

All runs take two workers of TLC well under five minutes.

| Run | Instance | Shows |
|---|---|---|
| `runbook_environments` | 2 runbook environments, 2 results (one wants a new environment), 2 workers, every failure, also of the deletion (before and after the status is `Deleted`) and of the close | exclusion, live environments, a run that ends is complete (`EndsComplete`: nothing queued, and what was deployed is deleted unless its deletion raised), new is new, final verdicts |
| `generated_environments` | environments generated from 2 results that fit both, one needs it only deployed, the other may mark its node dirty; the deletion may raise | completion, no dirty reuse and termination when a result may be dispatched from two sides |
| `retries` | 1 environment, 2 results that want it new, case retry, environment retry, a resource wait, `keep_environment: failed`, the retried result with `ignore_failure`, the other may mark its node dirty, deletion and close may raise | a redeployment meets only what was left, failed environments are kept, `LisaRunner` implements `TestRun`, termination |
| `ready_platform` | 3 results, `reuse_dirty_env`, `exit_on_first_failure`, an OS mismatch, `ignore_failure` | termination with environments that come back and results skipped under a worker |
| `notifications` | 2 submitters, 1 pool thread, 3 messages, one may raise | bound, order, single reap, the flush misses at most the last message, no lost wake-up |
| `requirements` | every test requirement with every runbook requirement and every host of `MCRequirements` | check is overlap, the choice is best and within all three, the environment serves its test, no needless skip |
| `selection` | every list of up to 4 of 17 filters over 3 cases | selection, failure and forced actions follow the rule of `schema.py:1667-1669` case by case, but for forgotten forced exclusions; settings are what the list declares |
| `combinations` | no combinator, a 2x1x2 grid, a batch of 3, git bisect over 5 commits; 1 or 2 workers, 0 to 2 runners per combination; tasks, transformers, runners, closes and notifiers may fail | idle worker, closed once unless the close raised, combinations in order, transformers in order, everything ran, bisect keeps the culprit, the loop ends; and the sort of every 3 transformers in 2 phases |
| `v_retry_lost`, `v_flush`, `v_disk`, `v_bisect` | smallest that shows it | expected violations, section 5 |

`runbook_environments` uses the symmetry of the workers and of the environments
(`RunbookSymmetry`), `v_retry_lost` that of the workers; the runs with liveness properties use
none.

### Bounds

Two workers and two environments suffice for every race between a worker, another worker
and the main thread that the code has: a task touches one environment. Two results are
the least for which a result waits while another runs; the third in `ready_platform`
gives each special case its own. One retry of each kind and one resource wait make the
environment go round once (`EnvRetry`, `CaseRetry`, `MaxAwaits`: larger values repeat the
cycle). Three messages are one running, one queued, one pending behind a pool of one, the
size the notifier uses. `Failures` is everything in `runbook_environments` and
all but `cleanup` in `retries` (with it a run need not end, section 5); `ready_platform`
leaves out those of deletion and close as well, and `generated_environments` has `deploy`,
`test`, `connection` and `free`, the ones that leave an environment bad or undeleted after it
exists.

`MaxSize` (5 for `sys.maxsize`) is above every end of a range in `MCRequirements`, so that
"no bound" stays apart; the ranges meet, touch and miss one another with and without their
ends. Four filters are the least for include, forced exclude, include, forced include,
and for a case that is dropped and comes back with new settings. Five commits give bisect
two or three rounds; a grid with a variable of one value carries through it; no batch
item is empty, as an empty one ends the combinator (section 5).

### Fairness

`LisaRunner`: weak fairness of the main thread and of each worker. The loop of the main
thread has no blocking call except `wait_worker`, and the calls of a task are bounded by
timeouts, so a thread that can step does. `TaskManager`: weak fairness of each thread, and
strong fairness of taking `_process_lock`, which is held for a bounded time and handed by
the OS to a waiter sooner or later. The start of the flush has no fairness: messages are
processed without it. `RootRunner`: weak fairness of the main thread, of the workers and of
the notifier's thread. A task that raised while the loop has runners to fill its workers
with need never be joined (section 5), so `Terminates` there says that the run ends or that
such an exception stays stored.

## 4. Proofs

The theorems hold for every value of the constants that satisfies the `ASSUME`s of the
component modules, which TLC evaluates in every run. Where a theorem has a hypothesis of its
own (`ASSUME ... PROVE`), it is one without which section 5 shows the property to fail, or one
that a run's instance shares. Each proof is an inductive invariant with one lemma per action
or group of actions that it treats alike.

### Scheduler

`LisaRunner_proofs`, for any finite sets of environments, results and workers:

| Theorem | Property | Hypotheses |
|---|---|---|
| `TypeCorrect`, `Exclusion` | `TypeOK`, `EnvironmentExclusive` | none |
| `ResultExclusion` | `ResultOwnedOnce` | environments of the runbook, no case retries |

`IInv` is the conjunction of the first two. Exclusion needs types (a busy slot has an
environment), and `GenerateTask` keeps it because it is only reached for an environment that
is not in use, which by `IInv` no busy task has; only the task itself clears `is_in_use`, in
its last step. `ResultInv` adds that a result held by a task is not `QUEUED` (so nobody is
offered it) and that no task is on the retry path. Both hypotheses are needed: a generated
environment is offered its source result even if it is `ASSIGNED`, and a retry queues a
result that its task still holds.

`LisaRunner_env_proofs`:

| Theorem | Property | Hypotheses |
|---|---|---|
| `LiveEnvironment` | `RunsOnLiveEnvironment` | none |
| `OneDeployment` | `NoDoubleDeployment` | none |
| `NothingLost` | `NothingLeaked` | none |
| `NewIsNew` | `NewEnvironmentIsNew` | no guests |
| `RunIsComplete` | `EndsComplete` | no case retries |
| `NothingStays` | `EverythingDeleted` | nothing is kept, no deletion raises (`cleanup`, `free`), no environment retry, no repeated waits |
| `DirtyNotReused` | `DirtyEnvironmentNotReused` | no case retries, `cleanup` does not fail, no dirty reuse |

`LiveInv` relates the status of an environment to what the platform has: nothing exists for
a `New` or `Prepared` one, something does for a `Deployed` or `Connected` one; and between
its dispatch and its first effect a task finds the status the scheduler saw, because the
environment is in use, is still in the scheduler's list (or about to be put back by
`_prepare_environments`), and every list of `fetch_task` is a part of that list. An abort
closes environments under their workers, so that part holds while nobody aborted, whereas
what is said of deployments holds after it too. `NewInv` says that an environment whose
`is_new` is set has run nothing since it was deployed. `CompleteInv` says that a running
result has a worker, that a result the scheduler forgot is completed or runs, and that once
the runner is done no task starts a test.

`LeakInv` accounts for what exists, with every failure and retry: what lost its context was
left (`OrphanedIsLeft`); a `Deleted` environment with resources has a task about to free them
or was left (`DeletedIsFreed`); a retried case renews its environment only after the deletion
was tried (`RenewIsFreed`); what is deployed is known to the scheduler, being freed, or left
(`DeployedIsKnown`); and so is what the runner closes (`ClosedIsFreed`). `OneDeployment` says
so of what a deployment may meet, `NothingLost` and `RunIsComplete` of the end of a run;
`NothingStays` adds the hypotheses under which nothing is ever left, so everything the platform
created is gone. `DirtyInv` says that an environment that is dirty, by its flag or a node's, is
`Deleted`, or in use by the task that made it so, which passes the deletion before it lets go.

`LisaRunner_result_proofs`, for environments of the runbook without case retries:

| Theorem | Property | Further hypotheses |
|---|---|---|
| `VerdictStands` | `VerdictIsFinal` | none |
| `FailedStays` | `FailedEnvironmentKept` | none |
| `PromiseKept` | `KeepsPromise` | no `exit_on_first_failure` |

`VerdictInv` says that the result a task works on is one it holds, has no verdict before the
task's own, and that a failed test closed its environment before it is deleted. `PromiseKept`
is the refinement: every initial state of `LisaRunner` maps to one of `TestRun`, and every
step to a step of it or a stutter. `PromiseInv` adds what a running test is to its worker, and
that every pass of `fetch_task` finds its environment (so nobody skips its result as one that
no environment can serve). Skipping and attached failures map to `Close`, dispatch to `Take`,
the start of a case to `Begin`, its verdict to `End`, the release to `Give`. With case retries
the run `retries` checks the refinement, for one environment; with `exit_on_first_failure` it is
not claimed (section 5).

### Task manager

`TaskManager_proofs`, for any callers, pool and tasks:

| Theorem | Property | Hypotheses |
|---|---|---|
| `TypeCorrect`, `Bounded` | `TypeOK`, `WorkersBounded` | none |
| `InOrder` | `ProcessedInOrder` | none (the property is about one worker) |
| `Reaped` | `ReapedOnce` | the run ends normally |
| `FlushAlmostComplete` | `FlushMissesOnlyLast` | the run ends normally |
| `FlushRaisesFailures` | no run: the flush raises only what a message raised | the run ends normally |

`TypeOK` includes that `_process_lock` is held by exactly the thread inside the `with`. `IInv`
says in addition that a thread inside `_process_pending_tasks` has a frame, that the lock's
holder past its test has a pending task, and that at the append there is room for one future:
between test and append others can only remove futures, even the flush that reaps without
the lock. `OrderInv` says that the tasks handed to the pool's threads, then its queue, then
the pending list make up the submitted messages in order, and that with one thread the last
one handed out is the one that runs. For the flush, `FlushInv` says that once everything is
submitted and the main thread has found nothing pending, no other thread passes the `while`
condition: the main thread reaps alone, so what it has seen is still there (`SeenInv`). One
thread may have passed it before, with the last task in its hands; every other task is a
future, pending or done, which is why the flush misses only that one. "Ends normally" is
`~FlushEarly`: the flush begins when everything is submitted. After an abort others still
submit, and the flush may fail for another reason (section 5).

### Root runner

`RootRunner_proofs`, for any combinators, types of runners, tasks, transformers, workers and
failures: `IdleWorker` (`WorkerIsIdle`), `RunnersClosedOnce` (`ClosedOnce`: the close of a
runner returns exactly once, unless closing one raises in `_cleanup`, and is called twice only
where the first call raised), `RunIsWhole` (`EverythingRan`), `CulpritKept` (`BisectKeepsCulprit`), `CombinationsYielded`
(`CombinationsInOrder`), `CleanupWaits` (`CleanupAfterRunners`) and `DependenciesRunFirst`
(`DependenciesFirst`).

`LInv` is the invariant of the loop: `remaining_runners` lists the active runners, each once;
what the `for` loop has still to visit are active runners, each once; a runner that is no
longer active is done and was closed; the number of runners created is what the generator's
position says (`CountInv`); and a future that is done and not reaped has left its worker
idle. `BisectInv` says, for the commit under test, that if it is bad, someone still owes the
message that says so until the verdict has it: a task to fetch or to run, a message on its
way, or the result; `early`, a verdict read while some are missing, is the only way
out.
`CleanInv` says that an
`expanded_cleanup` runs for the current combination only once the generator will create no
more runners for it (`Closing`), and with one worker when none is left.

For the combinators, `BatchInv` relates the index to the combinations fetched (the items in
order, and all of them if none is empty), and `GridInv`
says that combination n is n written in the mixed radix of the grid (variable i has weight
`Weights[i]`, the product of the sizes before it). The code adds one with a carry; the lemma
`CarriesCount` says that the carry into variable i is (n + 1) ÷ w − n ÷ w for its weight w, so
the digits of n become those of n + 1 (`NextDigits`) and the last carry is 1 exactly when every
combination has been yielded. Both are recursive functions over the variables; the induction is
a least counterexample (`LeastNatural`, `OneByOne`), and so is the proof that functions defined
this way exist (`Recursion`). `GridAssumption`: every variable of the grid has a value.

For the transformers, `OnlyFact` says that a filter keeps the order of what it keeps, `SortFact`
that a list accepted by `_sort` is sorted by phase and has every dependency earlier, and
`Depends` what follows for the list of a phase: a dependency is earlier in it or belongs to an
earlier phase. `DepInv` says which phases have run whole: `init` once the loop has started,
`expanded` and `expanded_cleanup` for every combination but the current one, and for that one as
far as the generator's position says; so what a transformer depends on is in the history, for
`cleanup` in every combination. `environment_connected` transformers are outside the property,
as they run while a runner deploys, and `cleanup` is claimed only without an error, as it also
runs after a failure that kept others from running. The filters of the model are written by
counting (`Only`), as the prover has no facts about `SelectSeq`. `SortAssumption` says that
`_sort_dfs` returns a list of names of transformers, of whatever order: all the rest follows from
the checks `_sort` makes afterwards. TLC evaluates it for the run's runbook.

### Requirements and search space

`SearchSpace_proofs`, for all integers: `RangesOverlap` and `CheckMeansOverlap` (a check says
yes exactly if some number is allowed by both sides, for every kind of count space),
`ChoiceIsBest` and `IntersectionIsExact` (two ranges that overlap intersect in a legal range
that holds exactly the common numbers). A legal range holds its least number, and of two
ranges that overlap the larger least number is in both.

`Requirements_proofs`, for all requirements and capabilities allowed by the assumptions:
`CheckOverlaps` (`CheckIsOverlap`), `ChoosesBest` (`ChosenIsBest`), `ServesItsTest`
(`EnvironmentServesItsTest`) and `MeetsPlatform` (`ChoiceMeetsPlatform`). `RInv` says for each
stage what the environment is: merged, it is *within* test case and runbook (it allows
only what they allow), except that a number of disks neither sets becomes any number;
prepared, every count is the best of what the merged space and the capability share; deployed,
it is the choice, except that zero disks become any number (which is what `v_disk` is about).
The minimum and maximum over lists of ranges exist because the numbers up to `sys.maxsize` are
well-founded in both directions: a least element of a nonempty set is all the induction the
proofs need.

`SkipsOnlyUnmet` (`SkippedOnlyIfUnmet`) is the converse of those: whatever is refused had to
be. Its hypothesis `PlainSpaces` says what the requirements of the repository's platforms are
like: no list has a range that starts at `sys.maxsize`; a runbook's requirement has disk types
and data paths (`_create_platform_requirement`, `lisa_runner.py:927-934`); a node may have no
GPU, and the size of its disks does not ask for the largest (`libvirt/platform.py:346-353`).
`MCRequirements` assumes it too, so TLC evaluates it for the run's instance. `SkipInv` says
that a merged requirement is `Attainable` (every count shares a number, every set an option
with the capability, and features do not exclude one another) unless test, runbook and
capability already have no common value; an intersection then keeps one, and the choice finds
it. The first hypothesis is needed: a list with a range that starts at `sys.maxsize` is refused
as unbounded although it has smaller common numbers.

### Test selection

`TestSelector_proofs`, for any cases, metadata and filters: `TypeCorrect`,
`ForcedActionsStay` (`ForcedStays`), `SelectionDeclared` (`SelectionIsDeclared`),
`FailureDeclared` (`FailsOnlyOnConflict`) and `SettingsDeclared` (`SettingsAreDeclared`). The
properties speak about the list of filters, the code keeps sets. The first says that the cases
of a forced filter stay in or out, apart from the ones it forgot; the second that, for a case
with nothing forgotten, the last filter up to the first forced one decides; the third that the
selection raises only if a case is forced both ways, and always if it is and nothing about it
was forgotten. The inductive invariant says for each case that it is in the code's forced set
exactly if the first forced filter about it that was not forgotten forces it in (out);
`FirstForced` finds that filter and `ForcedKept` says that it stays the first. A step appends a filter, so the lemmas say what that does to the filters about a
case, to the first that binds it, to the last that decides, and, for the settings, to the
filters since the case was last selected.

### Only model-checked

* Liveness (`Terminates`, `EveryTaskRuns`), which is out of the prover's reach.
* `SortIsRight`, which says that the sort lists every transformer and refuses only what has no
  order: `_sort_dfs` is a recursive fold over lists. That what is accepted is in order is proved.
* `KeepsPromise` with case retries, on one environment.

## 5. What was found

With a run that shows the behaviour:

* `v_retry_lost`: a case that is retried is `FAILED`, and its environment `Deleted`, until
  the worker requeues them; a `fetch_task` in between drops both, and the run ends with
  the result queued.
* `v_flush`: also in a run that ends normally, a done callback has taken the last pending
  message (`parallel.py:173`) and not yet appended its future (176) when the main thread looks
  at both lists without the lock; the flush returns early, against `runner.py:476`, "wait for
  all test result messages are processed and notified".
* `v_disk`: a chosen count of 0 data disks is taken for unset when the node chooses again, so
  the node offers any number of them, and a test that needs some passes its check. The AWS
  and Azure disk settings test `is not None` instead.
* `v_bisect`: the verdict of a commit is set by the notifier's thread and nothing waits for
  it; if the main loop asks for the next commit first, the run fails.

Seen in the model and in the code, without a run of their own. Scheduler:

* A failed deployment that is retried (`lisa_runner.py:314`) resets the environment without
  deleting what the failed attempt created.
* A platform whose `_delete_environment` raises (`platform_.py:241`) does so after the status
  is `Deleted`; the scheduler logs it (`lisa_runner.py:477-482`) and forgets the environment,
  so its resources stay.
* An environment that waits for a resource is `Bad`, so it does not count as in use, and the
  results that wait for it are skipped (`lisa_runner.py:165`). The same happens to a result
  whose environment becomes connected between two passes of `_sort_environments`.
* With guests enabled `is_new` is cleared on a copy (`testsuite.py:692`), so a used
  environment still counts as new.
* A result that is `ASSIGNED` to one environment is also deployed for on its own; the first
  to finish closes the log handler, the other fails the assertion at `testsuite.py:285`,
  which cancels the run.
* A retried result is queued (`lisa_runner.py:453`) before its task ends. If a second
  environment picks it at once, the end of the first task (`lisa_runner.py:562`) takes it
  back: two tasks then hold it. So `ResultOwnedOnce` and `KeepsPromise` are claimed without
  case retries or with one environment.

* `exit_on_first_failure` skips `ASSIGNED` results that a worker then runs
  (`_should_early_stop`).
* With generated environments a result may be dispatched twice, and the failed deployment
  of its own environment then replaces the verdict of its run elsewhere; so
  `ResultOwnedOnce` and `VerdictIsFinal` are claimed for runbook environments only.
* `_need_retry` and the case retry leave the dirty flag set when they renew an
  environment (`_reset` does not clear it): it is deleted again after its next test.
* A failed prepare with no queued result left aborts the whole run.
* After an abort, `_cleanup` closes the runner while workers still deploy; what they
  deploy afterwards stays.
* A failing `environment.cleanup()` leaves the status as it was, so a bad environment can
  keep `is_done` false for ever, a dirty one is used again, and one that is renewed later
  has lost what names its resources. `runbook_environments` includes this failure and
  checks what still holds; the liveness runs leave it out.

Root runner, task manager, combinators, transformers:

* After an aborted run the flush and a thread that still notifies may reap the same future; the
  second removal raises, and no notifier is finalized. `ReapedOnce` is claimed for runs that end
  normally.
* A runner whose close raises in the loop (`runner.py:431`, from `platform.cleanup()`) stays in
  `_runners`, and `_cleanup` (471-472) closes it a second time.
* A message that arrives after git bisect read the verdict (`git_bisect_combinator.py:96`) and
  before it is cleared (89) is lost.
* When a task raised and the loop still has runners to fetch and an idle worker, it goes
  round without reaching `wait_worker`: if the crashed runner can never be done and holds
  the place of the last concurrent runner, the exception is not joined and the loop spins.
* With more than one worker `expanded_cleanup` transformers run while the runners of their
  combination still run, since the generator goes on as soon as a runner is wanted.
* An empty batch item is falsy and ends the combinator, later items are dropped, although
  `runbook.rst:704` says that each batch will run once; so `CombinationsInOrder` claims a whole
  batch only if no item is empty. A grid variable with an empty list divides by zero.
* `_load_transformers` makes a dictionary by name, so of two transformers with one name the
  first is lost and the check for duplicates in `_sort` never fires
  (`microsoft/runbook/examples/git_bisect.yml` lists two without names).

Requirements and selection:

* `if not node_space.check(...)` in the platforms tests an object that is always true;
  `choose_value` is what refuses.
* `intersect_countspace` raises a plain `LisaException` for a list, which
  `_merge_test_requirements` does not catch: the run aborts instead of skipping the result.
* `DiskOptionSettings.check` leaves out disk types and sizes: the scheduler's check passes
  where the choice then refuses.
* The clones of a case with `times` above one have the default time-out
  (`testsuite.py:652`), although `runbook.rst` gives the time-out to the case.
* A forced exclusion matches only selected cases (`testselector.py:242`), so one of a case that
  is not selected yet is not remembered: a later include selects the case, and a later forced
  include does not raise. `schema.py:1667-1669` says "if it's forced include or exclude, it
  won't be effect by following select actions. And it fails if there are force rules
  conflict." The properties of `selection` follow that rule and name this exception
  (`Forgotten`).

Read in the libvirt and Hyper-V platforms, which are not modelled:

* `vm_disks_dir` is a field of the platform (`libvirt/platform.py:428`), overwritten by every
  deployment; deleting an environment removes the directory of the one deployed last (line
  706), which may still run, and its own directory stays.
* `_deploy_nodes` deletes the nodes of a failed creation when nothing is kept
  (`libvirt/platform.py:409`), and after the last attempt the scheduler deletes the
  environment again. `release_devices` runs both times and nothing empties
  `passthrough_devices`, so a device is in the pool twice, or while another VM has it.
* A node whose second pool runs out raises from `_configure_nodes`, outside the `try`; the
  scheduler then renews the environment, and the devices of the first pool are not returned.
* The pools have no lock: two workers may choose the same IOMMU group. Hyper-V's
  `release_devices` gives devices back to the host but not to the pool.

## 6. Not modelled

Remote I/O (nodes, shells, tools, features, the cloud platforms, the test suites) enters
only as the outcomes that reach the scheduler; it is nine tenths of the repository, mostly
wrappers of commands and parsers of their output. What a platform keeps between calls (the
passthrough device pools and the disk directory of libvirt) is in the plan. YAML loading, variables, the command line and the formatting of reports are
text processing. Of `util/parallel.py`, cancellation and `run_in_parallel` are left out; of
`notifier.py`, the fan-out of a message to the notifiers that subscribed to it. The csv
combinator is the batch one fed from a file. `RootRunner.stop` runs only on an interrupt.

## 7. Plan

1. Proofs: `KeepsPromise` with case retries on one environment; that `_sort_dfs` lists every
   transformer once.
2. The fan-out of `_notify` by message type and priority.
3. Cancellation: `RootRunner.stop` beside the loop, and tasks that check for it.
4. `_check_host_capabilities` and the platforms' own choice of a size (Azure).
5. The libvirt device pools and disk directory under `LisaRunner`'s deploy, retry and delete.
