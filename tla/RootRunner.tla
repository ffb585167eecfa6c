----------------------------- MODULE RootRunner -----------------------------
(***************************************************************************)
(* The root runner: it runs the transformers of the runbook phase by       *)
(* phase, expands the runbook with a combinator, creates the runners of    *)
(* each combination, shares the workers among the runners, and cleans up.  *)
(*                                                                         *)
(* _fetch_runners is a generator: it goes on only when the main loop asks  *)
(* for the next runner, so what it does after a yield happens then.        *)
(*                                                                         *)
(* A runner is what BaseRunner promises: tasks to fetch, done when all     *)
(* have ended.  Test results are messages that the thread of the notifier  *)
(* delivers later.  The repository that git bisect searches is external:   *)
(* commits 0..LastCommit, the ones from FirstBad on are bad.               *)
(*                                                                         *)
(* A definition named for a slip (CloseNever, ...) is a wrong              *)
(* version of the one after it and is not part of the specification.       *)
(***************************************************************************)
EXTENDS Transformers

CONSTANTS
  MaxConcurrency,  \* bound on runbook.concurrency
  Kinds,           \* combinators of the runbook, a subset of {"none", "grid", "batch", "git_bisect"}
  GridSizes,       \* the number of values of each variable of the grid
  BatchItems,      \* the items of the batch; <<>> is an empty one
  RunnerTypes,     \* the types of the filters that are enabled, in runbooks with a combinator
  TaskCount,       \* the number of tasks of a runner, by type
  Runbook,         \* the transformers of the runbook
  LastCommit, FirstBad,
  MayFail          \* what raises: a subset of {"task", "transformer", "runner", "close", "notify"}

ASSUME ConcurrencyAssumption == MaxConcurrency \in Nat \ {0}
ASSUME CommitAssumption == LastCommit \in Nat /\ FirstBad \in 1..LastCommit
ASSUME RunnerAssumption ==
  /\ \A t \in DOMAIN TaskCount : TaskCount[t] \in Nat
  /\ \A k \in Kinds : RunnerTypes[k] \subseteq Seq(DOMAIN TaskCount)
\* A variable with an empty list divides by zero.
ASSUME GridAssumption == GridSizes \in Seq(Nat \ {0})
ASSUME BatchAssumption == BatchItems \in Seq(Range(BatchItems))

NoResult == "None"

VARIABLES
  pc,          \* the main thread
  gen,         \* where _fetch_runners is suspended or runs
  kind, types, concurrency, \* of the runbook
  indexes,     \* GridCombinator._indexes
  index,       \* BatchCombinator._index, GitBisectCombinator._iteration
  good, bad,   \* git bisect: the last good and the first bad commit known
  result,      \* GitBisectResult.result
  early,       \* a verdict was taken before the results were in
  left,        \* the types whose runners _generate_runners has still to create
  fetched,     \* the combinations fetched so far
  runners,     \* all runners created
  active,      \* self._runners
  remaining,   \* remaining_runners
  scan,        \* what the for loop over remaining_runners has still to visit
  more,        \* has_more_runner
  reapable,    \* a future is done and not yet processed
  stored,      \* _stored_exceptions is not empty
  messages,    \* test results on their way to the notifiers
  ran,         \* the transformers that ran, each with its combination
  error        \* what made the run fail; "close" if closing a runner failed on top

vars == <<pc, gen, kind, types, concurrency, indexes, index, good, bad, result, early, left, fetched, runners, active,
          remaining, scan, more, reapable, stored, messages, ran, error>>

runbook == <<kind, types, concurrency>>
bisect == <<good, bad, result, early>>
combinator == <<runbook, indexes, index, bisect>>
loop == <<remaining, scan, more, reapable, stored>>

-----------------------------------------------------------------------------
(* Runners and workers *)

\* fetch counts the tasks not fetched yet, running holds the others that run.  A task
\* that raises leaves its results open, and its environment in use.
IsDone(r) == runners[r].fetch = 0 /\ runners[r].running = {} /\ ~runners[r].crashed

Running == UNION {{<<r, t>> : t \in runners[r].running} : r \in DOMAIN runners}

HasIdleWorkerSpare == Cardinality(Running) <= concurrency

HasIdleWorker == Cardinality(Running) < concurrency

\* Runner.close returns for the runners rs, and raises for those of raising.
Closed(rs, raising) ==
  [r \in DOMAIN runners |-> IF r \in rs THEN [runners[r] EXCEPT !.closed = @ + 1]
                            ELSE IF r \in raising THEN [runners[r] EXCEPT !.raised = @ + 1]
                            ELSE runners[r]]

\* list.remove
Without(s, r) == RemoveAt(s, CHOOSE i \in DOMAIN s : s[i] = r)

-----------------------------------------------------------------------------
(* Combinators *)

\* GridCombinator.__init__
FirstIndexes == [i \in DOMAIN GridSizes |-> IF i = 1 THEN -1 ELSE 0]

\* GridCombinator._next: add one with carry.  carries[i] is the carry into item i.
Carries(ixs) ==
  LET carries[i \in 1..(Len(GridSizes) + 1)] ==
        IF i = 1 THEN 1 ELSE (carries[i - 1] + ixs[i - 1]) \div GridSizes[i - 1]
  IN  carries

NextIndexesNoCarry(ixs) == [i \in DOMAIN ixs |-> (ixs[i] + 1) % GridSizes[i]]

NextIndexes(ixs) == [i \in DOMAIN ixs |-> (Carries(ixs)[i] + ixs[i]) % GridSizes[i]]

Overflow(ixs) == Carries(ixs)[Len(GridSizes) + 1] # 0

CombinedLast(current, passed) == IF passed THEN "passed" ELSE "failed"

\* GitBisectResult._update_result
Combined(current, passed) == IF passed /\ current # "failed" THEN "passed" ELSE "failed"

-----------------------------------------------------------------------------
(* Transformers *)

Loaded == Load(Runbook)

\* _sort raises
Unsorted == Sort(Loaded) = Refused

PhaseNames == [p \in ToSet(Phases) |-> IF Unsorted THEN <<>> ELSE PhaseRun(Runbook, p)]

\* The recursion of _sort_dfs gives a list of names, about which the prover has no facts.
ASSUME SortAssumption == SortDfs(Loaded).sorted \in Seq(NamesOf(Loaded))

\* transformer.run of one phase, for the combination c
RunPhase(phase, c) ==
  ran' = ran \o [i \in DOMAIN PhaseNames[phase] |-> [name |-> PhaseNames[phase][i], combination |-> c]]

\* Sorting fails, or the next transformer after the first n of the phase raises.
PhaseFails(phase, c) ==
  \E n \in IF Unsorted THEN {0}
           ELSE {k \in 0..(Len(PhaseNames[phase]) - 1) : "transformer" \in MayFail} :
    ran' = ran \o [i \in 1..n |-> [name |-> PhaseNames[phase][i], combination |-> c]]

Current == Len(fetched)

\* An exception leaves the loop: cancel(), then _cleanup.
Raise(what) == pc' = "cleanup" /\ error' = what

-----------------------------------------------------------------------------
Init ==
  /\ pc = "start" /\ gen = "begin"
  /\ kind \in Kinds /\ types \in RunnerTypes[kind] /\ concurrency \in 1..MaxConcurrency
  /\ indexes = FirstIndexes /\ index = 0
  /\ good = 0 /\ bad = LastCommit /\ result = NoResult /\ early = FALSE
  /\ left = <<>> /\ fetched = <<>>
  /\ runners = <<>> /\ active = {} /\ remaining = <<>> /\ scan = <<>>
  /\ more = TRUE /\ reapable = FALSE /\ stored = FALSE
  /\ messages = <<>> /\ ran = <<>> /\ error = "None"

\* The transformers of the phase init
Start ==
  /\ pc = "start"
  /\ \/ /\ RunPhase("init", 0) /\ ~Unsorted
        /\ pc' = "wait" /\ UNCHANGED error
     \/ PhaseFails("init", 0) /\ Raise("transformer")
  /\ UNCHANGED <<gen, combinator, left, fetched, runners, active, loop, messages>>

(* The main loop *)

UnfinishedTasks == Running # {} \/ more

\* The condition of the outer loop
Unfinished == Running # {} \/ more \/ remaining # <<>>

\* wait_worker waits for the first future that is done and raises what the tasks have
\* raised.
WaitWorker ==
  /\ pc = "wait"
  /\ Running = {} \/ reapable
  /\ reapable' = FALSE
  /\ IF stored
       THEN Raise("task") /\ stored' = FALSE /\ UNCHANGED scan
       ELSE /\ pc' = IF Unfinished THEN "submit" ELSE "cleanup"
            /\ scan' = remaining
            /\ UNCHANGED <<error, stored>>
  /\ UNCHANGED <<gen, combinator, left, fetched, runners, active, remaining, more, messages, ran>>

\* _submit_runner_tasks: fetch a task of the runner and start it.
SubmitTask ==
  /\ pc = "submit" /\ scan # <<>>
  /\ LET r == Head(scan)
     IN  /\ runners[r].fetch > 0 /\ HasIdleWorker
         /\ runners' = [runners EXCEPT ![r].fetch = @ - 1, ![r].running = @ \cup {runners[r].fetch}]
  /\ reapable' = FALSE
  /\ UNCHANGED <<pc, gen, combinator, left, fetched, active, remaining, scan, more, stored, messages,
                 ran, error>>

\* A runner has no task now only because it waits for one that runs.
HasTask(r) == runners[r].fetch > 0 /\ runners[r].running = {} /\ ~runners[r].crashed

CloseNotForgotten(r) ==
  IF IsDone(r)
    THEN runners' = Closed({r}, {}) /\ remaining' = Without(remaining, r) /\ UNCHANGED active
    ELSE UNCHANGED <<runners, active, remaining>>

CloseNever(r) == UNCHANGED <<runners, active, remaining>>

\* A runner that is done is closed and forgotten.
CloseIfDone(r) ==
  IF IsDone(r)
    THEN runners' = Closed({r}, {}) /\ active' = active \ {r} /\ remaining' = Without(remaining, r)
    ELSE UNCHANGED <<runners, active, remaining>>

\* close raises out of the loop, and the runner is still in both lists.
CloseRaises(r) ==
  /\ "close" \in MayFail /\ IsDone(r)
  /\ runners' = Closed({}, {r})
  /\ Raise("closing")

\* The end of the loop's turn for a runner
LeaveRunner ==
  /\ pc = "submit" /\ scan # <<>>
  /\ ~HasTask(Head(scan)) \/ ~HasIdleWorker
  /\ \/ CloseIfDone(Head(scan)) /\ scan' = Tail(scan) /\ UNCHANGED <<pc, error>>
     \/ CloseRaises(Head(scan)) /\ UNCHANGED <<active, remaining, scan>>
  /\ reapable' = FALSE
  /\ UNCHANGED <<gen, combinator, left, fetched, more, stored, messages, ran>>

\* After the for loop: ask for more runners, go round again or wait.
LeaveScan ==
  /\ pc = "submit" /\ scan = <<>>
  /\ pc' = IF HasIdleWorker /\ more THEN "advance" ELSE "wait"
  /\ reapable' = FALSE
  /\ UNCHANGED <<gen, combinator, left, fetched, runners, active, remaining, scan, more, stored,
                 messages, ran, error>>

\* The condition of the inner loop
InnerLoop ==
  /\ pc' = IF HasIdleWorker THEN "submit" ELSE "wait"
  /\ scan' = IF HasIdleWorker THEN remaining ELSE <<>>

\* "add new runner up to max concurrency"
EnoughRunners ==
  /\ pc = "advance" /\ Len(remaining) >= concurrency
  /\ InnerLoop
  /\ UNCHANGED <<gen, combinator, left, fetched, runners, active, remaining, more, reapable, stored,
                 messages, ran, error>>

AdvancingOneMore == pc = "advance" /\ Len(remaining) <= concurrency

Advancing == pc = "advance" /\ Len(remaining) < concurrency

(* _fetch_runners *)

BeginFetch ==
  /\ Advancing /\ gen = "begin"
  /\ gen' = IF kind = "none" THEN "expanded" ELSE "fetch"
  /\ fetched' = IF kind = "none" THEN <<"root">> ELSE fetched
  /\ UNCHANGED <<pc, combinator, left, runners, active, loop, messages, ran, error>>

\* StopIteration: has_more_runner = False, and once more round the inner loop
NoMoreRunners ==
  /\ more' = FALSE /\ gen' = "ended"
  /\ InnerLoop
  /\ UNCHANGED <<remaining, reapable, stored, error>>

Combination(c) == fetched' = Append(fetched, c) /\ gen' = "expanded" /\ UNCHANGED <<pc, loop, error>>

FetchGrid ==
  /\ kind = "grid"
  /\ indexes' = NextIndexes(indexes)
  /\ IF Overflow(indexes) \/ GridSizes = <<>>
       THEN NoMoreRunners /\ UNCHANGED fetched
       ELSE Combination(indexes')
  /\ UNCHANGED <<runbook, index, bisect>>

\* An item without a variable is falsy, so fetch takes it for the end.
FetchBatch ==
  /\ kind = "batch"
  /\ index' = IF index < Len(BatchItems) THEN index + 1 ELSE index
  /\ IF index = Len(BatchItems) \/ BatchItems[index'] = <<>>
       THEN NoMoreRunners /\ UNCHANGED fetched
       ELSE Combination(BatchItems[index'])
  /\ UNCHANGED <<runbook, indexes, bisect>>

\* GitBisectCombinator._next: a message that came after _process_result is forgotten.
FetchBisect ==
  /\ index' = index + 1 /\ result' = NoResult
  /\ IF bad = good + 1 THEN NoMoreRunners /\ UNCHANGED fetched
     ELSE Combination((good + bad) \div 2)
  /\ UNCHANGED <<runbook, indexes, good, bad, early>>

\* _process_result tells git the verdict on the last commit; without one it raises.
ProcessResult ==
  /\ Advancing /\ gen = "fetch" /\ kind = "git_bisect"
  /\ IF index > 0 /\ result = NoResult
       THEN Raise("bisect") /\ UNCHANGED <<gen, good, bad, early>>
       ELSE /\ good' = IF index > 0 /\ result = "passed" THEN fetched[Len(fetched)] ELSE good
            /\ bad' = IF index > 0 /\ result = "failed" THEN fetched[Len(fetched)] ELSE bad
            /\ early' = (early \/ messages # <<>> \/ \E r \in DOMAIN runners : ~IsDone(r))
            /\ gen' = "told" /\ UNCHANGED <<pc, error>>
  /\ UNCHANGED <<runbook, indexes, index, result, left, fetched, runners, active, loop, messages, ran>>

\* Combinator.fetch
Fetch ==
  /\ Advancing
  /\ \/ gen = "fetch" /\ FetchGrid
     \/ gen = "fetch" /\ FetchBatch
     \/ gen = "told" /\ FetchBisect
  /\ UNCHANGED <<left, runners, active, messages, ran>>

\* The transformers of the phase expanded, then _generate_runners groups the filters.
Expand ==
  /\ Advancing /\ gen = "expanded"
  /\ \/ /\ RunPhase("expanded", Current)
        /\ gen' = "runners" /\ left' = types
        /\ UNCHANGED <<pc, error>>
     \/ PhaseFails("expanded", Current) /\ Raise("transformer") /\ UNCHANGED <<gen, left>>
  /\ UNCHANGED <<combinator, fetched, runners, active, loop, messages>>

\* _generate_runners creates and initializes the next runner.
CreateRunner ==
  /\ Advancing /\ gen = "runners" /\ left # <<>>
  /\ \/ /\ runners' = Append(runners, [combination |-> Current, fetch |-> TaskCount[Head(left)],
                                       running |-> {}, crashed |-> FALSE, closed |-> 0,
                                       raised |-> 0])
        /\ active' = active \cup {Len(runners')}
        /\ remaining' = Append(remaining, Len(runners'))
        /\ left' = Tail(left)
        /\ UNCHANGED <<pc, error>>
     \/ /\ "runner" \in MayFail
        /\ Raise("runner") /\ UNCHANGED <<left, runners, active, remaining>>
  /\ UNCHANGED <<gen, combinator, fetched, scan, more, reapable, stored, messages, ran>>

\* No runner is left: the transformers of the phase expanded_cleanup
ExpandedCleanup ==
  /\ Advancing /\ gen = "runners" /\ left = <<>>
  /\ \/ /\ RunPhase("expanded_cleanup", Current)
        /\ IF kind = "none" THEN NoMoreRunners ELSE gen' = "fetch" /\ UNCHANGED <<pc, error, loop>>
     \/ PhaseFails("expanded_cleanup", Current) /\ Raise("transformer") /\ UNCHANGED <<gen, loop>>
  /\ UNCHANGED <<combinator, left, fetched, runners, active, messages>>

(* Workers and the thread of the notifier *)

\* A test passes on a good commit; only the last task of a runner tells a bad one.
Passes(r, t) == kind = "git_bisect" /\ t = 1 => fetched[runners[r].combination] < FirstBad

TaskEnds ==
  \E r \in DOMAIN runners : \E t \in runners[r].running :
    /\ reapable' = TRUE
    /\ \/ /\ runners' = [runners EXCEPT ![r].running = @ \ {t}]
          /\ messages' = Append(messages, [runner |-> r, passed |-> Passes(r, t)])
          /\ UNCHANGED stored
       \/ /\ "task" \in MayFail
          /\ runners' = [runners EXCEPT ![r].running = @ \ {t}, ![r].crashed = TRUE]
          /\ stored' = TRUE /\ UNCHANGED messages
    /\ UNCHANGED <<pc, gen, combinator, left, fetched, active, remaining, scan, more, ran, error>>

\* The notifiers receive the messages one after the other.
Notify ==
  /\ messages # <<>>
  /\ messages' = Tail(messages)
  /\ result' = IF kind = "git_bisect" THEN Combined(result, Head(messages).passed) ELSE result
  /\ UNCHANGED <<pc, gen, runbook, indexes, index, good, bad, early, left, fetched, runners, active, loop,
                 ran, error>>

(* The end *)

\* _cleanup closes the runners that are left, one whose close raised in the loop again; if
\* one raises, the others stay open.
CloseActive ==
  \/ runners' = Closed(active, {}) /\ UNCHANGED error
  \/ /\ "close" \in MayFail
     /\ \E r \in active : runners' = Closed({x \in active : x < r}, {r})
     /\ error' = "close"

Cleanup ==
  /\ pc = "cleanup"
  /\ CloseActive
  /\ pc' = "flush"
  /\ UNCHANGED <<gen, combinator, left, fetched, active, loop, messages, ran>>

\* flush_notifications may miss the last message (FlushMissesOnlyLast of TaskManager).  Then
\* the transformers of the phase cleanup run; an error in them is only logged.
Flush ==
  /\ pc = "flush" /\ Len(messages) <= 1
  /\ \/ ~Unsorted /\ RunPhase("cleanup", 0)
     \/ PhaseFails("cleanup", 0)
  /\ pc' = "done"
  /\ UNCHANGED <<gen, combinator, left, fetched, runners, active, loop, messages, error>>

\* flush_notifications raises what a notifier raised, and _cleanup ends there.
FlushRaises ==
  /\ pc = "flush" /\ "notify" \in MayFail
  /\ pc' = "done" /\ error' = IF error = "None" THEN "notify" ELSE error
  /\ UNCHANGED <<gen, combinator, left, fetched, runners, active, loop, messages, ran>>

Done == pc = "done" /\ Running = {} /\ messages = <<>> /\ UNCHANGED vars

Main ==
  \/ Start \/ WaitWorker \/ SubmitTask \/ LeaveRunner \/ LeaveScan \/ EnoughRunners
  \/ BeginFetch \/ ProcessResult \/ Fetch \/ Expand \/ CreateRunner \/ ExpandedCleanup
  \/ Cleanup \/ Flush \/ FlushRaises

Next == Main \/ TaskEnds \/ Notify \/ Done

\* The main thread, the workers and the notifier all go on.
Spec == Init /\ [][Next]_vars /\ WF_vars(Main) /\ WF_vars(TaskEnds) /\ WF_vars(Notify)
-----------------------------------------------------------------------------
(* Properties. *)

\* "assert task_manager.has_idle_worker()": when wait_worker returns, a worker is idle.
WorkerIsIdle == pc = "wait" /\ (Running = {} \/ reapable) => Cardinality(Running) < concurrency

\* A runner is closed once, by the loop when it is done or at the end with the others,
\* unless one of the others fails to close then.  Only where closing a runner raised in the
\* loop is close called for it a second time.
ClosedOnce ==
  \A r \in DOMAIN runners :
    /\ runners[r].closed <= 1
    /\ runners[r].closed + runners[r].raised > 1 => error \in {"closing", "close"}
    /\ pc \notin {"flush", "done"} => (runners[r].closed = 0 <=> r \in active)
    /\ pc \in {"flush", "done"} /\ error # "close" => runners[r].closed = 1

\* The number of combinations of the variables before the i-th
Weights[i \in 1..(Len(GridSizes) + 1)] == IF i = 1 THEN 1 ELSE Weights[i - 1] * GridSizes[i - 1]

\* The number n in the mixed radix of the grid, the first variable fastest
Digit(n, i) == (n \div Weights[i]) % GridSizes[i]

\* Without a variable there is nothing to combine.
GridTotal == IF GridSizes = <<>> THEN 0 ELSE Weights[Len(GridSizes) + 1]

\* The grid gives every combination once.  Of a batch runbook.rst says "Each batch will run
\* once": so it does, in order, if no batch is empty; fetch takes an empty one for the end.
CombinationsInOrder ==
  /\ kind = "grid" =>
       /\ \A i \in DOMAIN fetched : \A v \in DOMAIN GridSizes : fetched[i][v] = Digit(i - 1, v)
       /\ gen = "ended" => Len(fetched) = GridTotal
  /\ kind = "batch" =>
       /\ \A i \in DOMAIN fetched : fetched[i] = BatchItems[i]
       /\ gen = "ended" /\ <<>> \notin Range(BatchItems) => Len(fetched) = Len(BatchItems)

\* With one worker the transformers of a combination's expanded_cleanup run when its
\* runners are done.  (With more they run while the runners do: the generator goes on as
\* soon as the loop wants another runner.)
CleanupAfterRunners ==
  concurrency = 1 =>
    \A i \in DOMAIN ran : \A r \in DOMAIN runners :
      /\ ByName(Loaded, ran[i].name).phase = "expanded_cleanup"
      /\ ran[i].combination = runners[r].combination
      => IsDone(r)

\* The combinations for which a transformer is to run before entry i of ran, which depends
\* on it: once for all, or for the same combination, or for all of them before cleanup.
NeededFor(transformer, i) ==
  IF transformer.phase \in {"init", "cleanup"} THEN {0}
  ELSE IF ByName(Loaded, ran[i].name).phase = "cleanup" THEN 1..Len(fetched)
  ELSE {ran[i].combination}

\* A transformer runs after those it depends on, whatever raises; those of cleanup, which
\* run after a failure too, if there was none.  (environment_connected transformers run
\* while a runner deploys.)
DependenciesFirst ==
  \A i \in DOMAIN ran : \A d \in ToSet(ByName(Loaded, ran[i].name).depends_on) :
    /\ ByName(Loaded, ran[i].name).phase = "cleanup" => error = "None"
    /\ ByName(Loaded, d).enabled /\ ByName(Loaded, d).phase # "environment_connected"
    => \A c \in NeededFor(ByName(Loaded, d), i) :
         \E j \in 1..(i - 1) : ran[j] = [name |-> d, combination |-> c]

\* A run that ends without an error has created the runners of every combination it fetched
\* and run all their tasks.
EverythingRan ==
  pc = "done" /\ error = "None" =>
    /\ \A r \in DOMAIN runners : runners[r].fetch = 0 /\ runners[r].running = {}
    /\ Len(runners) = Len(fetched) * Len(types)

\* git bisect keeps the first bad commit between the commits it knows, as long as each
\* verdict is taken when the results of its commit are in.
BisectKeepsCulprit == ~early => good < FirstBad /\ FirstBad <= bad

\* The run ends: no runner waits for a worker, a message or another runner for ever;
\* unless a task raised and the loop never comes to join its exception.
Terminates == <>(pc = "done") \/ <>[]stored

\* "The runbook will be iterated until the bisect operations completes": it never stops
\* because the result of a commit is missing.
BisectIterates == error # "bisect"
=============================================================================
