----------------------------- MODULE TaskManager -----------------------------
(***************************************************************************)
(* TaskManager, the thread pool of LISA, as the notifier uses it: threads  *)
(* submit messages with notify, the pool processes them, and at the end    *)
(* the main thread waits for all of them with flush_notifications.         *)
(*                                                                         *)
(* Submitters and the done callbacks of the futures, which run in the pool *)
(* threads, schedule pending tasks under _process_lock.  The main thread   *)
(* reaps finished futures without it.  A step is what one thread does      *)
(* between two accesses to what the threads share.  A future is named by   *)
(* its task.  This manager is never cancelled and has no result callback.  *)
(*                                                                         *)
(* HasIdleOffByOne, PendingReversed, MustWaitAlways, KeepsLock and         *)
(* RegistersAlways are plausible wrong versions of the definition after    *)
(* each; they are not part of the specification.                           *)
(***************************************************************************)
EXTENDS Naturals, Sequences, FiniteSets

CONSTANTS
  Callers,     \* threads that call notify
  Main,        \* the thread that calls notify, then flush_notifications
  Pool,        \* threads of the ThreadPoolExecutor, max_workers of them
  Tasks,       \* the tasks the threads submit
  Owner,       \* the thread that submits a task
  MayFail,     \* tasks that may raise
  FlushEarly,  \* the run was aborted: callers still run when Main flushes
  NoOne        \* _process_lock is free

ASSUME ThreadAssumption ==
  /\ IsFiniteSet(Pool) /\ Pool # {}
  /\ Main \notin Callers \cup Pool /\ Callers \cap Pool = {}
  /\ NoOne \notin Callers \cup Pool \cup {Main}

ASSUME TaskAssumption ==
  /\ IsFiniteSet(Tasks)
  /\ Owner \in [Tasks -> Callers \cup {Main}]
  /\ MayFail \subseteq Tasks /\ FlushEarly \in BOOLEAN

VARIABLES
  pending,     \* _pending_tasks
  lock,        \* the holder of _process_lock
  futures,     \* _futures
  queue,       \* work items of the executor
  state,       \* state of the future of each task
  raised,      \* tasks whose future holds an exception
  registered,  \* futures with the done callback
  stored,      \* _stored_exceptions
  submitted,   \* tasks in the order of their submission (history)
  flushing,    \* Main is in wait_for_all_workers
  pc,          \* where each thread is
  frames,      \* new_futures of each active _process_pending_tasks of a thread
  seen,        \* what is left of the copy of _futures a thread loops over
  cur          \* the task or future a thread is at

sharedVars == <<futures, queue, state, raised, registered, stored>>
threadVars == <<pc, frames, seen, cur>>
vars == <<pending, lock, sharedVars, submitted, flushing, threadVars>>

Threads == Callers \cup Pool \cup {Main}
MaxWorkers == Cardinality(Pool)

Init ==
  /\ pending = <<>> /\ lock = NoOne /\ futures = {} /\ queue = <<>>
  /\ state = [k \in Tasks |-> "new"]
  /\ raised = {} /\ registered = {} /\ stored = {}
  /\ submitted = <<>> /\ flushing = FALSE
  /\ pc = [t \in Threads |-> IF t \in Pool THEN "fetch" ELSE "call"]
  /\ frames = [t \in Threads |-> <<>>]
  /\ seen = [t \in Threads |-> {}]
  /\ cur = [t \in Threads |-> NoOne]

At(t, label) == pc[t] = label
Goto(t, label) == pc' = [pc EXCEPT ![t] = label]
IsSubmitted(k) == \E i \in DOMAIN submitted : submitted[i] = k

\* _process_pending_tasks is called.
Enter(t) ==
  /\ frames' = [frames EXCEPT ![t] = <<{}>> \o @]
  /\ Goto(t, "lock")

\* Where a thread goes on when its outermost _process_pending_tasks returns.
AfterReturn(t) == IF t \in Pool THEN "fetch"
                  ELSE IF t = Main /\ flushing THEN "remaining" ELSE "call"

-----------------------------------------------------------------------------
(* Calls *)

\* notify and submit_task
Submit(t, k) ==
  /\ At(t, "call") /\ Owner[k] = t /\ ~IsSubmitted(k)
  /\ pending' = Append(pending, k)
  /\ submitted' = Append(submitted, k)
  /\ Enter(t)
  /\ UNCHANGED <<lock, sharedVars, flushing, seen, cur>>

\* flush_notifications; in a run that ends normally no other thread notifies any more.
Flush ==
  /\ At(Main, "call") /\ ~flushing
  /\ \A k \in Tasks : Owner[k] = Main \/ ~FlushEarly => IsSubmitted(k)
  /\ ~FlushEarly => \A t \in Callers : At(t, "call")
  /\ flushing' = TRUE
  /\ Enter(Main)
  /\ UNCHANGED <<pending, lock, sharedVars, submitted, seen, cur>>

MustWaitAlways == TRUE

\* wait_for_all_workers: wait_worker is called only if nothing is pending.
MustWait == pending = <<>>

Remaining ==
  /\ At(Main, "remaining")
  /\ IF MustWait
       THEN /\ seen' = [seen EXCEPT ![Main] = futures]
            /\ Goto(Main, "wait")
            /\ UNCHANGED frames
       ELSE Enter(Main) /\ UNCHANGED seen
  /\ UNCHANGED <<pending, lock, sharedVars, submitted, flushing, cur>>

\* wait_worker blocks until one of the futures it saw is done, then reaps.
WaitWorker ==
  /\ At(Main, "wait")
  /\ seen[Main] = {} \/ \E k \in seen[Main] : state[k] = "done"
  /\ seen' = [seen EXCEPT ![Main] = futures]
  /\ Goto(Main, "reap")
  /\ UNCHANGED <<pending, lock, sharedVars, submitted, flushing, frames, cur>>

\* join_exceptions, and the loop condition of wait_for_all_workers.
JoinExceptions ==
  /\ At(Main, "join")
  /\ \/ \E k \in stored : stored' = stored \ {k} /\ Goto(Main, "joined") /\ UNCHANGED frames
     \/ stored = {} /\ futures # {} /\ Enter(Main) /\ UNCHANGED stored
     \/ stored = {} /\ futures = {} /\ Goto(Main, "flushed") /\ UNCHANGED <<stored, frames>>
  /\ UNCHANGED <<pending, lock, futures, queue, state, raised, registered, submitted, flushing,
                 seen, cur>>
-----------------------------------------------------------------------------
(* _process_pending_tasks *)

AcquireLock(t) ==
  /\ At(t, "lock") /\ lock = NoOne
  /\ lock' = t
  /\ Goto(t, "empty")
  /\ UNCHANGED <<pending, sharedVars, submitted, flushing, frames, seen, cur>>

KeepsLock(t) == UNCHANGED lock

\* The end of the with statement.
ReleasesLock(t) == lock' = NoOne

\* not self._pending_tasks.empty(), and the start of has_idle_worker
CheckPending(t) ==
  /\ At(t, "empty")
  /\ IF pending = <<>>
       THEN ReleasesLock(t) /\ Goto(t, "callbacks") /\ UNCHANGED seen
       ELSE /\ seen' = [seen EXCEPT ![t] = futures]
            /\ Goto(t, "reap")
            /\ UNCHANGED lock
  /\ UNCHANGED <<pending, sharedVars, submitted, flushing, frames, cur>>

\* _process_done_futures looks at the next future.
Reap(t) ==
  /\ At(t, "reap")
  /\ \/ /\ seen[t] = {}
        /\ Goto(t, IF lock = t THEN "idle" ELSE "join")
        /\ UNCHANGED <<seen, cur, stored>>
     \/ \E k \in seen[t] :
          /\ seen' = [seen EXCEPT ![t] = @ \ {k}]
          /\ IF state[k] = "done"
               THEN /\ stored' = stored \cup ({k} \cap raised)
                    /\ cur' = [cur EXCEPT ![t] = k]
                    /\ Goto(t, "remove")
               ELSE UNCHANGED <<stored, cur, pc>>
  /\ UNCHANGED <<pending, lock, futures, queue, state, raised, registered, submitted, flushing,
                 frames>>

\* _futures.remove raises if the future is gone.  The exception leaves the lock and the
\* innermost call; a done callback that raises is only logged.
Remove(t) ==
  /\ At(t, "remove")
  /\ IF cur[t] \in futures
       THEN futures' = futures \ {cur[t]} /\ Goto(t, "reap") /\ UNCHANGED <<lock, frames>>
       ELSE /\ lock' = IF lock = t THEN NoOne ELSE lock
            /\ frames' = [frames EXCEPT ![t] = IF lock = t THEN Tail(@) ELSE @]
            /\ Goto(t, IF frames'[t] # <<>> THEN "callbacks"
                       ELSE IF t \in Pool THEN "fetch" ELSE "broken")
            /\ UNCHANGED futures
  /\ UNCHANGED <<pending, queue, state, raised, registered, stored, submitted, flushing, seen,
                 cur>>

HasIdleOffByOne == Cardinality(futures) <= MaxWorkers

\* len(self._futures) < self._max_workers
HasIdle == Cardinality(futures) < MaxWorkers

HasIdleWorker(t) ==
  /\ At(t, "idle")
  /\ IF HasIdle THEN Goto(t, "take") /\ UNCHANGED lock
                ELSE Goto(t, "callbacks") /\ ReleasesLock(t)
  /\ UNCHANGED <<pending, sharedVars, submitted, flushing, frames, seen, cur>>

PendingReversed == <<pending[Len(pending)], SubSeq(pending, 1, Len(pending) - 1)>>

\* The next pending task, and the others.
NextPending == <<Head(pending), Tail(pending)>>

\* A pending task goes to the executor in three steps, between which the main thread may
\* look at _pending_tasks and _futures: it holds no lock.
GetPending(t) ==
  /\ At(t, "take")
  /\ cur' = [cur EXCEPT ![t] = NextPending[1]]
  /\ pending' = NextPending[2]
  /\ Goto(t, "submit")
  /\ UNCHANGED <<lock, sharedVars, submitted, flushing, frames, seen>>

SubmitToPool(t) ==
  /\ At(t, "submit")
  /\ queue' = Append(queue, cur[t])
  /\ state' = [state EXCEPT ![cur[t]] = "queued"]
  /\ Goto(t, "append")
  /\ UNCHANGED <<pending, lock, futures, raised, registered, stored, submitted, flushing,
                 frames, seen, cur>>

AppendFuture(t) ==
  /\ At(t, "append")
  /\ futures' = futures \cup {cur[t]}
  /\ frames' = [frames EXCEPT ![t] = <<Head(@) \cup {cur[t]}>> \o Tail(@)]
  /\ Goto(t, "empty")
  /\ UNCHANGED <<pending, lock, queue, state, raised, registered, stored, submitted, flushing,
                 seen, cur>>

RegistersAlways(k) == TRUE

\* add_done_callback keeps the callback of a future that is not done.
Registers(k) == state[k] # "done"

\* After the lock, each new future gets its callback; for one that is done already it is
\* called at once, in this thread.
AddCallback(t) ==
  /\ At(t, "callbacks")
  /\ \/ /\ Head(frames[t]) = {}
        /\ frames' = [frames EXCEPT ![t] = Tail(@)]
        /\ Goto(t, IF Len(frames[t]) > 1 THEN "callbacks" ELSE AfterReturn(t))
        /\ UNCHANGED registered
     \/ \E k \in Head(frames[t]) :
          LET rest == <<Head(frames[t]) \ {k}>> \o Tail(frames[t])
          IN  IF Registers(k)
                THEN /\ registered' = registered \cup {k}
                     /\ frames' = [frames EXCEPT ![t] = rest]
                     /\ UNCHANGED pc
                ELSE /\ frames' = [frames EXCEPT ![t] = <<{}>> \o rest]
                     /\ Goto(t, "lock")
                     /\ UNCHANGED registered
  /\ UNCHANGED <<pending, lock, futures, queue, state, raised, stored, submitted, flushing,
                 seen, cur>>
-----------------------------------------------------------------------------
(* Threads of the executor *)

Fetch(p) ==
  /\ At(p, "fetch") /\ queue # <<>>
  /\ cur' = [cur EXCEPT ![p] = Head(queue)]
  /\ queue' = Tail(queue)
  /\ state' = [state EXCEPT ![Head(queue)] = "running"]
  /\ Goto(p, "run")
  /\ UNCHANGED <<pending, lock, futures, raised, registered, stored, submitted, flushing,
                 frames, seen>>

\* The task returns or raises; then the done callback, if there is one, is called.
Finish(p) ==
  /\ At(p, "run")
  /\ state' = [state EXCEPT ![cur[p]] = "done"]
  /\ \E fails \in BOOLEAN :
       /\ fails => cur[p] \in MayFail
       /\ raised' = IF fails THEN raised \cup {cur[p]} ELSE raised
  /\ IF cur[p] \in registered THEN Enter(p) ELSE Goto(p, "fetch") /\ UNCHANGED frames
  /\ UNCHANGED <<pending, lock, futures, queue, registered, stored, submitted, flushing, seen,
                 cur>>
-----------------------------------------------------------------------------
ThreadStep(t) ==
  \/ \E k \in Tasks : Submit(t, k)
  \/ AcquireLock(t) \/ CheckPending(t) \/ Reap(t) \/ Remove(t) \/ HasIdleWorker(t)
  \/ GetPending(t) \/ SubmitToPool(t) \/ AppendFuture(t) \/ AddCallback(t)

FlushStep == Remaining \/ WaitWorker \/ JoinExceptions
PoolStep(p) == ThreadStep(p) \/ Fetch(p) \/ Finish(p)

\* Everyone is back and nothing is left to run.
Terminated ==
  /\ pc[Main] \in {"flushed", "joined", "broken"}
  /\ \A t \in Callers : pc[t] \in {"call", "broken"}
  /\ \A t \in Callers : At(t, "call") => \A k \in Tasks : Owner[k] = t => IsSubmitted(k)
  /\ \A p \in Pool : At(p, "fetch")
  /\ queue = <<>>
  /\ UNCHANGED vars

Next ==
  \/ \E t \in Callers : ThreadStep(t)
  \/ ThreadStep(Main) \/ Flush \/ FlushStep
  \/ \E p \in Pool : PoolStep(p)
  \/ Terminated

Spec == Init /\ [][Next]_vars

\* Threads are scheduled, and a lock that is free again and again is acquired.  Nothing
\* makes the main thread flush: the end of the run may be hours away.
FairSpec ==
  /\ Spec
  /\ \A t \in Callers : WF_vars(ThreadStep(t)) /\ SF_vars(AcquireLock(t))
  /\ WF_vars(ThreadStep(Main) \/ FlushStep) /\ SF_vars(AcquireLock(Main))
  /\ \A p \in Pool : WF_vars(PoolStep(p)) /\ SF_vars(AcquireLock(p))
-----------------------------------------------------------------------------
(* Properties *)

Labels == {"call", "lock", "empty", "reap", "remove", "idle", "take", "submit", "append",
           "callbacks", "remaining", "wait", "join", "joined", "flushed", "broken", "fetch", "run"}

\* Inside "with self._process_lock".
InLock(t) == \/ pc[t] \in {"empty", "idle", "take", "submit", "append"}
             \/ pc[t] \in {"reap", "remove"} /\ frames[t] # <<>>

\* Every variable has its type, and the lock is held by the thread inside it: every way out,
\* exceptions included, releases it.
TypeOK ==
  /\ pending \in Seq(Tasks) /\ queue \in Seq(Tasks) /\ submitted \in Seq(Tasks)
  /\ lock \in Threads \cup {NoOne}
  /\ futures \in SUBSET Tasks /\ raised \in SUBSET Tasks
  /\ registered \in SUBSET Tasks /\ stored \in SUBSET Tasks
  /\ state \in [Tasks -> {"new", "queued", "running", "done"}]
  /\ flushing \in BOOLEAN
  /\ pc \in [Threads -> Labels]
  /\ frames \in [Threads -> Seq(SUBSET Tasks)]
  /\ seen \in [Threads -> SUBSET Tasks]
  /\ cur \in [Threads -> Tasks \cup {NoOne}]
  /\ \A t \in Threads : InLock(t) <=> lock = t

\* Submitters and done callbacks schedule at the same time, and never fill more than
\* max_workers futures.
WorkersBounded == Cardinality(futures) <= MaxWorkers

\* notifier.py: "process test results message in an order, so the max_workers is 1".
ProcessedInOrder ==
  MaxWorkers = 1 =>
    \A i, j \in DOMAIN submitted :
      i < j /\ state[submitted[j]] \in {"running", "done"} => state[submitted[i]] = "done"

\* The exception that _futures.remove raises for a future another thread reaped first.
ReapedOnce == \A t \in Threads : At(t, "remove") => cur[t] \in futures

\* runner.py, of the flush: "wait for all test result messages are processed and notified".
\* A done callback that has taken the last pending task, and not yet appended its future,
\* hides it from the flush.
FlushWaitsForAll ==
  At(Main, "flushed") => \A i \in DOMAIN submitted : state[submitted[i]] = "done"

\* That is all a flush can miss: when it returns, every message but the last one submitted
\* was processed, whatever the callbacks of the pool threads do meanwhile.
FlushMissesOnlyLast ==
  At(Main, "flushed") => \A i \in DOMAIN submitted :
                           i < Len(submitted) => state[submitted[i]] = "done"

\* No wakeup is lost: a submitted task runs, whoever schedules it, and without a flush.
EveryTaskRuns == \A k \in Tasks : IsSubmitted(k) ~> state[k] = "done"
=============================================================================
