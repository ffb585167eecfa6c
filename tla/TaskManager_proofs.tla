--------------------------- MODULE TaskManager_proofs --------------------------
(***************************************************************************)
(* Theorems about TaskManager, for any threads and tasks.  That no more    *)
(* than max_workers futures exist rests on the lock: only its holder adds  *)
(* a future, and between its test of the length and its append the others  *)
(* can only remove some.  The order of the messages rests on the way of a  *)
(* task: pending, then the queue of the pool, then the thread that runs    *)
(* it, none of which reorders.  What a flush may miss rests on the main    *)
(* thread being the only one left that reaps, and on the one task that the *)
(* holder of the lock may have in hand, neither pending nor a future.      *)
(***************************************************************************)
EXTENDS TaskManager, FiniteSetTheorems, TLAPS

\* The variables have their types.
Types ==
  /\ pending \in Seq(Tasks) /\ queue \in Seq(Tasks) /\ submitted \in Seq(Tasks)
  /\ lock \in Threads \cup {NoOne}
  /\ futures \in SUBSET Tasks /\ raised \in SUBSET Tasks
  /\ registered \in SUBSET Tasks /\ stored \in SUBSET Tasks
  /\ state \in [Tasks -> {"new", "queued", "running", "done"}]
  /\ flushing \in BOOLEAN
  /\ pc \in [Threads -> Labels]
  /\ frames \in [Threads -> Seq(SUBSET Tasks)]
  /\ seen \in [Threads -> SUBSET Tasks]
  /\ cur \in [Threads -> Tasks \cup {NoOne}]

\* The lock is held by the thread inside it.
LockOK == \A t \in Threads : InLock(t) <=> lock = t

\* What holds of a thread at the step it is at: a call of _process_pending_tasks has its
\* list of new futures, the holder of the lock found a pending task until it takes it, and
\* an idle worker from then on until it appends the future.
ThreadOK(t) ==
  /\ pc[t] \in {"lock", "empty", "idle", "take", "submit", "append", "callbacks"} => frames[t] # <<>>
  /\ frames[t] # <<>> =>
       pc[t] \in {"lock", "empty", "idle", "take", "submit", "append", "callbacks", "reap", "remove"}
  /\ InLock(t) /\ pc[t] \notin {"empty", "submit", "append"} => pending # <<>>
  /\ pc[t] \in {"remove", "run", "submit", "append"} => cur[t] \in Tasks
  /\ pc[t] \in {"take", "submit", "append"} => Cardinality(futures) < MaxWorkers

IInv == Types /\ LockOK /\ WorkersBounded /\ \A t \in Threads : ThreadOK(t)

-----------------------------------------------------------------------------
(* Facts about sequences and sets *)

\* A stack of calls is empty if it has no frame.
LEMMA EmptyFact ==
  ASSUME NEW S, NEW s \in Seq(S)
  PROVE  s = <<>> <=> Len(s) = 0
  OBVIOUS

\* The frame of a new call goes on top of the stack of calls.
LEMMA PushFact ==
  ASSUME NEW S, NEW s \in Seq(S), NEW x \in S
  PROVE  <<x>> \o s \in Seq(S) /\ <<x>> \o s # <<>>
<1>1. <<x>> \in Seq(S) /\ Len(<<x>>) = 1
  OBVIOUS
<1>2. <<x>> \o s \in Seq(S) /\ Len(<<x>> \o s) = 1 + Len(s) /\ Len(s) \in Nat
  BY <1>1
<1>3. Len(<<x>> \o s) # 0
  BY <1>2
<1> QED
  BY <1>2, <1>3, EmptyFact

\* The first element of a sequence and the rest of it.
LEMMA PopFact ==
  ASSUME NEW S, NEW s \in Seq(S), s # <<>>
  PROVE  Head(s) \in S /\ Tail(s) \in Seq(S)
  OBVIOUS

\* A task added at the end of a queue.
LEMMA AppendFact ==
  ASSUME NEW S, NEW s \in Seq(S), NEW x \in S
  PROVE  Append(s, x) \in Seq(S) /\ Append(s, x) # <<>>
<1>1. Append(s, x) \in Seq(S) /\ Len(Append(s, x)) = Len(s) + 1
  OBVIOUS
<1>2. Len(s) \in Nat
  OBVIOUS
<1>3. Len(Append(s, x)) # 0
  BY <1>1, <1>2
<1> QED
  BY <1>1, <1>3, EmptyFact

\* max_workers is a number, and the number of futures too.
LEMMA Counts ==
  ASSUME NEW F \in SUBSET Tasks
  PROVE  MaxWorkers \in Nat /\ Cardinality(F) \in Nat
<1>1. IsFiniteSet(F)
  BY FS_Subset, TaskAssumption
<1> QED
  BY <1>1, FS_CardinalityType, ThreadAssumption DEF MaxWorkers

\* One future less: there are not more than before.
LEMMA FewerFutures ==
  ASSUME NEW F \in SUBSET Tasks, NEW k
  PROVE  Cardinality(F \ {k}) <= Cardinality(F)
<1>1. IsFiniteSet(F)
  BY FS_Subset, TaskAssumption
<1> QED
  BY <1>1, FS_Subset

\* One future more: there is at most one more than before.
LEMMA OneMoreFuture ==
  ASSUME NEW F \in SUBSET Tasks, NEW k \in Tasks
  PROVE  Cardinality(F \cup {k}) <= Cardinality(F) + 1
<1>1. IsFiniteSet(F)
  BY FS_Subset, TaskAssumption
<1>2. Cardinality(F) \in Nat
  BY <1>1, FS_CardinalityType
<1>3. Cardinality(F \cup {k}) = IF k \in F THEN Cardinality(F) ELSE Cardinality(F) + 1
  BY <1>1, FS_AddElement
<1> QED
  BY <1>2, <1>3

\* The two forms of the type invariant.
LEMMA TypeParts == TypeOK <=> Types /\ LockOK
  BY DEF TypeOK, Types, LockOK

\* Main and the threads of the pool are threads.
LEMMA MainIsThread == Main \in Threads /\ NoOne \notin Threads /\ Pool \subseteq Threads
                      /\ Callers \subseteq Threads
  BY ThreadAssumption DEF Threads

-----------------------------------------------------------------------------
(* The steps *)

\* submit_task only fills the queue of pending tasks.
LEMMA SubmitStep ==
  ASSUME IInv, NEW t \in Threads, NEW k \in Tasks, Submit(t, k)
  PROVE  IInv'
<1> USE DEF IInv
<1>a. ASSUME NEW u \in Threads
     PROVE  <<{}>> \o frames[u] \in Seq(SUBSET Tasks) /\ <<{}>> \o frames[u] # <<>>
  BY <1>a, PushFact DEF Types
<1>b. Append(pending, k) \in Seq(Tasks) /\ Append(pending, k) # <<>>
      /\ Append(submitted, k) \in Seq(Tasks)
  BY AppendFact DEF Types
<1>1. Types'
  BY MainIsThread, <1>a, <1>b DEF Submit, Enter, sharedVars, At, Goto, Types, Labels
<1>2. LockOK'
  BY MainIsThread, <1>a, <1>b
     DEF Submit, Enter, sharedVars, At, Goto, Types, LockOK, InLock, ThreadOK
<1>3. WorkersBounded'
  BY DEF Submit, Enter, sharedVars, At, Goto, WorkersBounded, MaxWorkers
<1>4. ASSUME NEW u \in Threads PROVE ThreadOK(u)'
  BY <1>4, MainIsThread, <1>a, <1>b
     DEF Submit, Enter, sharedVars, At, Goto, Types, LockOK, InLock, ThreadOK, MaxWorkers
<1> QED
  BY <1>1, <1>2, <1>3, <1>4

\* wait_for_all_workers begins with a call of _process_pending_tasks.
LEMMA FlushStarts ==
  ASSUME IInv, Flush
  PROVE  IInv'
<1> USE DEF IInv
<1>a. ASSUME NEW u \in Threads
     PROVE  <<{}>> \o frames[u] \in Seq(SUBSET Tasks) /\ <<{}>> \o frames[u] # <<>>
  BY <1>a, PushFact DEF Types
<1>1. Types'
  BY MainIsThread, <1>a DEF Flush, Enter, sharedVars, At, Goto, Types, Labels
<1>2. LockOK'
  BY MainIsThread, <1>a DEF Flush, Enter, sharedVars, At, Goto, Types, LockOK, InLock, ThreadOK
<1>3. WorkersBounded'
  BY DEF Flush, Enter, sharedVars, At, Goto, WorkersBounded, MaxWorkers
<1>4. ASSUME NEW u \in Threads PROVE ThreadOK(u)'
  BY <1>4, MainIsThread, <1>a
     DEF Flush, Enter, sharedVars, At, Goto, Types, LockOK, InLock, ThreadOK, MaxWorkers
<1> QED
  BY <1>1, <1>2, <1>3, <1>4

\* The main thread decides to wait or to process again.
LEMMA RemainingStep ==
  ASSUME IInv, Remaining
  PROVE  IInv'
<1> USE DEF IInv
<1>a. ASSUME NEW u \in Threads
     PROVE  <<{}>> \o frames[u] \in Seq(SUBSET Tasks) /\ <<{}>> \o frames[u] # <<>>
  BY <1>a, PushFact DEF Types
<1>1. Types'
  <2>1. seen' \in [Threads -> SUBSET Tasks]
    BY DEF Remaining, Types
  <2>2. pc' \in [Threads -> Labels]
    BY MainIsThread DEF Remaining, Enter, Goto, Types, Labels
  <2>3. frames' \in [Threads -> Seq(SUBSET Tasks)]
    <3>1. \/ frames' = frames
          \/ frames' = [frames EXCEPT ![Main] = <<{}>> \o frames[Main]]
      BY DEF Remaining, Enter
    <3> DEFINE deep == <<{}>> \o frames[Main]
    <3>2. deep \in Seq(SUBSET Tasks)
      BY <1>a, MainIsThread
    <3>3. frames' = frames \/ frames' = [frames EXCEPT ![Main] = deep]
      BY <3>1
    <3> HIDE DEF deep
    <3> QED
      BY <3>2, <3>3 DEF Types
  <2> QED
    BY <2>1, <2>2, <2>3 DEF Remaining, sharedVars, Types
<1>2. LockOK'
  BY MainIsThread, <1>a
     DEF Remaining, Enter, MustWait, sharedVars, At, Goto, Types, LockOK, InLock, ThreadOK
<1>3. WorkersBounded'
  BY DEF Remaining, Enter, MustWait, sharedVars, At, Goto, WorkersBounded, MaxWorkers
<1>4. ASSUME NEW u \in Threads PROVE ThreadOK(u)'
  BY <1>4, MainIsThread, <1>a
     DEF Remaining, Enter, MustWait, sharedVars, At, Goto, Types, LockOK, InLock, ThreadOK,
         MaxWorkers
<1> QED
  BY <1>1, <1>2, <1>3, <1>4

\* wait_worker goes on to reap without the lock.
LEMMA WaitStep ==
  ASSUME IInv, WaitWorker
  PROVE  IInv'
<1> USE DEF IInv
<1>1. Types'
  BY MainIsThread DEF WaitWorker, sharedVars, At, Goto, Types, Labels
<1>2. LockOK'
  BY MainIsThread DEF WaitWorker, sharedVars, At, Goto, Types, LockOK, InLock, ThreadOK
<1>3. WorkersBounded'
  BY DEF WaitWorker, sharedVars, At, Goto, WorkersBounded, MaxWorkers
<1>4. ASSUME NEW u \in Threads PROVE ThreadOK(u)'
  BY <1>4, MainIsThread
     DEF WaitWorker, sharedVars, At, Goto, Types, LockOK, InLock, ThreadOK, MaxWorkers
<1> QED
  BY <1>1, <1>2, <1>3, <1>4

\* join_exceptions ends the flush or goes round again.
LEMMA JoinStep ==
  ASSUME IInv, JoinExceptions
  PROVE  IInv'
<1> USE DEF IInv
<1>a. ASSUME NEW u \in Threads
     PROVE  <<{}>> \o frames[u] \in Seq(SUBSET Tasks) /\ <<{}>> \o frames[u] # <<>>
  BY <1>a, PushFact DEF Types
<1>1. Types'
  <2>1. stored' \in SUBSET Tasks
    BY DEF JoinExceptions, Types
  <2>2. pc' \in [Threads -> Labels]
    BY MainIsThread DEF JoinExceptions, Enter, Goto, Types, Labels
  <2>3. frames' \in [Threads -> Seq(SUBSET Tasks)]
    <3>1. \/ frames' = frames
          \/ frames' = [frames EXCEPT ![Main] = <<{}>> \o frames[Main]]
      BY DEF JoinExceptions, Enter
    <3> DEFINE deep == <<{}>> \o frames[Main]
    <3>2. deep \in Seq(SUBSET Tasks)
      BY <1>a, MainIsThread
    <3>3. frames' = frames \/ frames' = [frames EXCEPT ![Main] = deep]
      BY <3>1
    <3> HIDE DEF deep
    <3> QED
      BY <3>2, <3>3 DEF Types
  <2> QED
    BY <2>1, <2>2, <2>3 DEF JoinExceptions, Types
<1>2. LockOK'
  BY MainIsThread, <1>a
     DEF JoinExceptions, Enter, sharedVars, At, Goto, Types, LockOK, InLock, ThreadOK
<1>3. WorkersBounded'
  BY DEF JoinExceptions, Enter, sharedVars, At, Goto, WorkersBounded, MaxWorkers
<1>4. ASSUME NEW u \in Threads PROVE ThreadOK(u)'
  BY <1>4, MainIsThread, <1>a
     DEF JoinExceptions, Enter, sharedVars, At, Goto, Types, LockOK, InLock, ThreadOK,
         MaxWorkers
<1> QED
  BY <1>1, <1>2, <1>3, <1>4

\* The lock is acquired by one thread at a time.
LEMMA AcquireStep ==
  ASSUME IInv, NEW t \in Threads, AcquireLock(t)
  PROVE  IInv'
<1> USE DEF IInv
<1>1. Types'
  BY MainIsThread DEF AcquireLock, sharedVars, At, Goto, Types, Labels
<1>2. LockOK'
  BY MainIsThread DEF AcquireLock, sharedVars, At, Goto, Types, LockOK, InLock, ThreadOK
<1>3. WorkersBounded'
  BY DEF AcquireLock, sharedVars, At, Goto, WorkersBounded, MaxWorkers
<1>4. ASSUME NEW u \in Threads PROVE ThreadOK(u)'
  BY <1>4, MainIsThread
     DEF AcquireLock, sharedVars, At, Goto, Types, LockOK, InLock, ThreadOK, MaxWorkers
<1> QED
  BY <1>1, <1>2, <1>3, <1>4

\* The while condition leaves the lock or goes on to has_idle_worker.
LEMMA CheckStep ==
  ASSUME IInv, NEW t \in Threads, CheckPending(t)
  PROVE  IInv'
<1> USE DEF IInv
<1>1. Types'
  <2>1. lock' \in Threads \cup {NoOne} /\ seen' \in [Threads -> SUBSET Tasks]
    BY DEF CheckPending, ReleasesLock, Types
  <2>2. pc' \in [Threads -> Labels]
    BY DEF CheckPending, Goto, Types, Labels
  <2> QED
    BY <2>1, <2>2 DEF CheckPending, sharedVars, Types
<1>2. LockOK'
  BY MainIsThread, ZenonT(60)
     DEF CheckPending, ReleasesLock, sharedVars, At, Goto, Types, LockOK, InLock, ThreadOK
<1>3. WorkersBounded'
  BY DEF CheckPending, ReleasesLock, sharedVars, At, Goto, WorkersBounded, MaxWorkers
<1>4. ASSUME NEW u \in Threads PROVE ThreadOK(u)'
  BY <1>4, MainIsThread
     DEF CheckPending, ReleasesLock, sharedVars, At, Goto, Types, LockOK, InLock, ThreadOK,
         MaxWorkers
<1> QED
  BY <1>1, <1>2, <1>3, <1>4

\* A look at one future.
LEMMA ReapStep ==
  ASSUME IInv, NEW t \in Threads, Reap(t)
  PROVE  IInv'
<1> USE DEF IInv
<1>1. Types'
  <2>1. stored' \in SUBSET Tasks /\ seen' \in [Threads -> SUBSET Tasks]
    BY DEF Reap, Types
  <2>2. cur' \in [Threads -> Tasks \cup {NoOne}]
    BY ZenonT(60) DEF Reap, Types
  <2>3. pc' \in [Threads -> Labels]
    BY DEF Reap, Goto, Types, Labels
  <2> QED
    BY <2>1, <2>2, <2>3 DEF Reap, Types
<1>2. LockOK'
  BY MainIsThread DEF Reap, sharedVars, At, Goto, Types, LockOK, InLock, ThreadOK
<1>3. WorkersBounded'
  BY DEF Reap, sharedVars, At, Goto, WorkersBounded, MaxWorkers
<1>4. ASSUME NEW u \in Threads PROVE ThreadOK(u)'
  BY <1>4, MainIsThread
     DEF Reap, sharedVars, At, Goto, Types, LockOK, InLock, ThreadOK, MaxWorkers
<1> QED
  BY <1>1, <1>2, <1>3, <1>4

\* A future is removed, or the exception leaves the lock and the call.
LEMMA RemoveStep ==
  ASSUME IInv, NEW t \in Threads, Remove(t)
  PROVE  IInv'
<1> USE DEF IInv
<1>a. frames[t] # <<>> => Tail(frames[t]) \in Seq(SUBSET Tasks)
  BY PopFact DEF Types
<1>b. lock = t => frames[t] # <<>>
  BY DEF LockOK, InLock, ThreadOK
<1>c. cur[t] \in futures => Cardinality(futures') <= Cardinality(futures)
  BY FewerFutures DEF Remove, Types
<1>d. futures' \in SUBSET Tasks
  BY DEF Remove, Types
<1>e. MaxWorkers \in Nat /\ Cardinality(futures) \in Nat /\ Cardinality(futures') \in Nat
  BY <1>d, Counts DEF Types
<1>f. Cardinality(futures') <= Cardinality(futures) /\ MaxWorkers' = MaxWorkers
  BY <1>c, <1>e DEF Remove, MaxWorkers
<1>1. Types'
  <2>1. lock' \in Threads \cup {NoOne}
    BY DEF Remove, Types
  <2>2. frames' \in [Threads -> Seq(SUBSET Tasks)]
    BY <1>a, <1>b DEF Remove, Types
  <2>3. pc' \in [Threads -> Labels]
    BY DEF Remove, Goto, Types, Labels
  <2> QED
    BY <1>d, <2>1, <2>2, <2>3 DEF Remove, Types
<1>2. LockOK'
  BY MainIsThread, <1>a, <1>b, <1>e, <1>f
     DEF Remove, sharedVars, At, Goto, Types, LockOK, InLock, ThreadOK
<1>3. WorkersBounded'
  BY <1>e, <1>f DEF WorkersBounded
<1>4. ASSUME NEW u \in Threads PROVE ThreadOK(u)'
  BY <1>4, MainIsThread, <1>a, <1>b, <1>e, <1>f
     DEF Remove, sharedVars, At, Goto, Types, LockOK, InLock, ThreadOK
<1> QED
  BY <1>1, <1>2, <1>3, <1>4

\* has_idle_worker: the next step is under the lock, with room for one future.
LEMMA IdleStep ==
  ASSUME IInv, NEW t \in Threads, HasIdleWorker(t)
  PROVE  IInv'
<1> USE DEF IInv
<1>1. Types'
  BY MainIsThread DEF HasIdleWorker, HasIdle, ReleasesLock, sharedVars, At, Goto, Types, Labels
<1>2. LockOK'
  BY MainIsThread
     DEF HasIdleWorker, HasIdle, ReleasesLock, sharedVars, At, Goto, Types, LockOK, InLock,
         ThreadOK
<1>3. WorkersBounded'
  BY DEF HasIdleWorker, HasIdle, ReleasesLock, sharedVars, At, Goto, WorkersBounded, MaxWorkers
<1>4. ASSUME NEW u \in Threads PROVE ThreadOK(u)'
  BY <1>4, MainIsThread
     DEF HasIdleWorker, HasIdle, ReleasesLock, sharedVars, At, Goto, Types, LockOK, InLock,
         ThreadOK, MaxWorkers
<1> QED
  BY <1>1, <1>2, <1>3, <1>4

\* The holder of the lock takes the first pending task.
LEMMA GetStep ==
  ASSUME IInv, NEW t \in Threads, GetPending(t)
  PROVE  IInv'
<1> USE DEF IInv
<1>a. /\ pc[t] = "take" /\ lock = t /\ pending # <<>> /\ frames[t] # <<>>
      /\ Cardinality(futures) < MaxWorkers
  BY DEF GetPending, At, LockOK, InLock, ThreadOK
<1>b. Head(pending) \in Tasks /\ Tail(pending) \in Seq(Tasks)
  BY <1>a, PopFact DEF Types
<1>c. /\ cur' = [cur EXCEPT ![t] = Head(pending)] /\ pending' = Tail(pending)
      /\ pc' = [pc EXCEPT ![t] = "submit"]
      /\ UNCHANGED <<lock, futures, queue, state, raised, registered, stored, submitted, flushing,
                     frames, seen>>
  BY DEF GetPending, NextPending, Goto, sharedVars
<1>1. Types'
  BY <1>b, <1>c DEF Types, Labels
<1>2. LockOK'
  BY <1>a, <1>c DEF Types, LockOK, InLock
<1>3. WorkersBounded'
  BY <1>c DEF WorkersBounded, MaxWorkers
<1>4. ASSUME NEW u \in Threads PROVE ThreadOK(u)'
  <2>1. CASE u = t
    BY <1>a, <1>b, <1>c, <2>1 DEF Types, ThreadOK, InLock, MaxWorkers
  <2>2. CASE u # t
    <3>1. ~InLock(u) /\ ThreadOK(u)
      BY <1>a, <1>4, <2>2 DEF LockOK
    <3> QED
      BY <1>c, <2>2, <3>1 DEF Types, ThreadOK, InLock, MaxWorkers
  <2> QED
    BY <2>1, <2>2
<1> QED
  BY <1>1, <1>2, <1>3, <1>4

\* It gives the task to the executor.
LEMMA SubmitToPoolStep ==
  ASSUME IInv, NEW t \in Threads, SubmitToPool(t)
  PROVE  IInv'
<1> USE DEF IInv
<1>a. pc[t] = "submit" /\ cur[t] \in Tasks
  BY DEF SubmitToPool, At, ThreadOK
<1>b. Append(queue, cur[t]) \in Seq(Tasks)
  BY <1>a, AppendFact DEF Types
<1>c. /\ queue' = Append(queue, cur[t]) /\ state' = [state EXCEPT ![cur[t]] = "queued"]
      /\ pc' = [pc EXCEPT ![t] = "append"]
      /\ UNCHANGED <<pending, lock, futures, raised, registered, stored, submitted, flushing,
                     frames, seen, cur>>
  BY DEF SubmitToPool, Goto
<1>1. Types'
  BY <1>a, <1>b, <1>c DEF Types, Labels
<1>2. LockOK'
  BY <1>a, <1>c DEF Types, LockOK, InLock
<1>3. WorkersBounded'
  BY <1>c DEF WorkersBounded, MaxWorkers
<1>4. ASSUME NEW u \in Threads PROVE ThreadOK(u)'
  BY <1>4, <1>a, <1>c DEF Types, ThreadOK, InLock, MaxWorkers
<1> QED
  BY <1>1, <1>2, <1>3, <1>4

\* It adds one future where there is room for one.
LEMMA AppendStep ==
  ASSUME IInv, NEW t \in Threads, AppendFuture(t)
  PROVE  IInv'
<1> USE DEF IInv
<1> DEFINE k == cur[t]
<1>a. /\ pc[t] = "append" /\ lock = t /\ frames[t] # <<>> /\ k \in Tasks
      /\ Cardinality(futures) < MaxWorkers
  BY DEF AppendFuture, At, LockOK, InLock, ThreadOK
<1>c. Head(frames[t]) \cup {k} \in SUBSET Tasks /\ Tail(frames[t]) \in Seq(SUBSET Tasks)
  BY <1>a, PopFact DEF Types
<1>d. LET f == <<Head(frames[t]) \cup {k}>> \o Tail(frames[t])
      IN  f \in Seq(SUBSET Tasks) /\ f # <<>>
  BY <1>c, PushFact
<1> HIDE DEF k
<1>f. /\ futures' = futures \cup {k}
      /\ frames' = [frames EXCEPT ![t] = <<Head(frames[t]) \cup {k}>> \o Tail(frames[t])]
      /\ pc' = [pc EXCEPT ![t] = "empty"]
      /\ UNCHANGED <<pending, lock, queue, state, raised, registered, stored, submitted, flushing,
                     seen, cur>>
  BY DEF AppendFuture, Goto, Types, k
<1>g. MaxWorkers \in Nat /\ Cardinality(futures) \in Nat /\ Cardinality(futures') \in Nat
  BY <1>a, <1>f, Counts DEF Types
<1>h. Cardinality(futures') <= Cardinality(futures) + 1
  BY <1>a, <1>f, OneMoreFuture DEF Types
<1>1. Types'
  BY <1>a, <1>d, <1>f DEF Types, Labels
<1>2. LockOK'
  BY <1>a, <1>d, <1>f DEF Types, LockOK, InLock
<1>3. WorkersBounded'
  BY <1>a, <1>f, <1>g, <1>h DEF WorkersBounded, MaxWorkers
<1>4. ASSUME NEW u \in Threads PROVE ThreadOK(u)'
  <2>1. CASE u = t
    BY <1>d, <1>f, <2>1 DEF Types, ThreadOK, InLock
  <2>2. CASE u # t
    <3>1. ~InLock(u) /\ ThreadOK(u)
      BY <1>a, <1>4, <2>2 DEF LockOK
    <3> QED
      BY <1>f, <2>2, <3>1 DEF Types, ThreadOK, InLock
  <2> QED
    BY <2>1, <2>2
<1> QED
  BY <1>1, <1>2, <1>3, <1>4

\* add_done_callback and the return from _process_pending_tasks, outside the lock.
LEMMA CallbackStep ==
  ASSUME IInv, NEW t \in Threads, AddCallback(t)
  PROVE  IInv'
<1> USE DEF IInv
<1>a. frames[t] # <<>> /\ lock # t
  BY DEF AddCallback, At, LockOK, InLock, ThreadOK
<1>b. Head(frames[t]) \in SUBSET Tasks /\ Tail(frames[t]) \in Seq(SUBSET Tasks)
  BY <1>a, PopFact DEF Types
<1>c. ASSUME NEW k
      PROVE  LET rest == <<Head(frames[t]) \ {k}>> \o Tail(frames[t])
             IN  /\ rest \in Seq(SUBSET Tasks) /\ rest # <<>>
                 /\ <<{}>> \o rest \in Seq(SUBSET Tasks) /\ <<{}>> \o rest # <<>>
  <2>1. Head(frames[t]) \ {k} \in SUBSET Tasks
    BY <1>b
  <2> QED
    BY <1>b, <2>1, PushFact
<1>d. Len(frames[t]) > 1 <=> Tail(frames[t]) # <<>>
  <2>1. frames[t] \in Seq(SUBSET Tasks) /\ Len(frames[t]) \in Nat /\ Len(frames[t]) # 0
    BY <1>a DEF Types
  <2>2. Len(Tail(frames[t])) = Len(frames[t]) - 1
    BY <1>a, <2>1
  <2>3. Tail(frames[t]) = <<>> <=> Len(Tail(frames[t])) = 0
    BY <1>b, EmptyFact
  <2> DEFINE n == Len(frames[t])  m == Len(Tail(frames[t]))
  <2>4. n \in Nat /\ n # 0 /\ m = n - 1
    BY <2>1, <2>2
  <2>5. n > 1 <=> m # 0
    <3> HIDE DEF n, m
    <3> QED
      BY <2>4
  <2> QED
    BY <2>3, <2>5
<1>e. /\ frames' = [frames EXCEPT ![t] = frames'[t]]
      /\ frames'[t] \in Seq(SUBSET Tasks)
      /\ pc' = [pc EXCEPT ![t] = pc'[t]]
      /\ frames'[t] # <<>> <=> pc'[t] \in {"lock", "callbacks"}
      /\ pc'[t] \in {"lock", "callbacks", "fetch", "remaining", "call"}
  <2>1. CASE /\ Head(frames[t]) = {}
             /\ frames' = [frames EXCEPT ![t] = Tail(@)]
             /\ Goto(t, IF Len(frames[t]) > 1 THEN "callbacks" ELSE AfterReturn(t))
    BY <1>b, <1>d, <2>1 DEF Goto, AfterReturn, Types
  <2>2. ASSUME NEW k \in Head(frames[t]),
               LET rest == <<Head(frames[t]) \ {k}>> \o Tail(frames[t])
               IN  \/ frames' = [frames EXCEPT ![t] = rest] /\ UNCHANGED pc
                   \/ frames' = [frames EXCEPT ![t] = <<{}>> \o rest] /\ Goto(t, "lock")
        PROVE  /\ frames' = [frames EXCEPT ![t] = frames'[t]]
               /\ frames'[t] \in Seq(SUBSET Tasks)
               /\ pc' = [pc EXCEPT ![t] = pc'[t]]
               /\ frames'[t] # <<>> <=> pc'[t] \in {"lock", "callbacks"}
               /\ pc'[t] \in {"lock", "callbacks", "fetch", "remaining", "call"}
    <3> DEFINE rest == <<Head(frames[t]) \ {k}>> \o Tail(frames[t])
    <3>1. /\ rest \in Seq(SUBSET Tasks) /\ rest # <<>>
          /\ <<{}>> \o rest \in Seq(SUBSET Tasks) /\ <<{}>> \o rest # <<>>
      BY <1>c
    <3>2. \/ frames' = [frames EXCEPT ![t] = rest] /\ UNCHANGED pc
          \/ frames' = [frames EXCEPT ![t] = <<{}>> \o rest] /\ Goto(t, "lock")
      BY <2>2
    <3>3. pc[t] = "callbacks"
      BY DEF AddCallback, At
    <3> DEFINE deep == <<{}>> \o rest
    <3> HIDE DEF rest, deep
    <3>4. deep \in Seq(SUBSET Tasks) /\ deep # <<>>
      BY <3>1 DEF deep
    <3>5. CASE frames' = [frames EXCEPT ![t] = rest] /\ UNCHANGED pc
      BY <3>1, <3>3, <3>5 DEF Types
    <3>6. CASE frames' = [frames EXCEPT ![t] = deep] /\ Goto(t, "lock")
      BY <3>4, <3>6 DEF Goto, Types
    <3> QED
      BY <3>2, <3>5, <3>6 DEF deep
  <2> QED
    BY <2>1, <2>2 DEF AddCallback
<1>1. Types'
  <2>1. registered' \in SUBSET Tasks
    <3>1. UNCHANGED registered \/ \E k \in Head(frames[t]) : registered' = registered \cup {k}
      BY DEF AddCallback
    <3> QED
      BY <1>b, <3>1 DEF Types
  <2>2. frames' \in [Threads -> Seq(SUBSET Tasks)]
    BY <1>e DEF Types
  <2>3. pc' \in [Threads -> Labels]
    BY <1>e DEF Types, Labels
  <2> QED
    BY <2>1, <2>2, <2>3 DEF AddCallback, Types
<1>2. LockOK'
  BY <1>a, <1>e DEF AddCallback, Types, LockOK, InLock
<1>3. WorkersBounded'
  BY DEF AddCallback, WorkersBounded, MaxWorkers
<1>4. ASSUME NEW u \in Threads PROVE ThreadOK(u)'
  BY <1>4, <1>e DEF AddCallback, Types, InLock, ThreadOK, MaxWorkers
<1> QED
  BY <1>1, <1>2, <1>3, <1>4

\* A thread of the pool takes a work item.
LEMMA FetchStep ==
  ASSUME IInv, NEW t \in Threads, Fetch(t)
  PROVE  IInv'
<1> USE DEF IInv
<1>a. Head(queue) \in Tasks /\ Tail(queue) \in Seq(Tasks)
  BY PopFact DEF Fetch, Types
<1>1. Types'
  BY MainIsThread, <1>a DEF Fetch, sharedVars, At, Goto, Types, Labels
<1>2. LockOK'
  BY MainIsThread, <1>a DEF Fetch, sharedVars, At, Goto, Types, LockOK, InLock, ThreadOK
<1>3. WorkersBounded'
  BY DEF Fetch, sharedVars, At, Goto, WorkersBounded, MaxWorkers
<1>4. ASSUME NEW u \in Threads PROVE ThreadOK(u)'
  BY <1>4, MainIsThread, <1>a
     DEF Fetch, sharedVars, At, Goto, Types, LockOK, InLock, ThreadOK, MaxWorkers
<1> QED
  BY <1>1, <1>2, <1>3, <1>4

\* A task ends, and its done callback may start.
LEMMA FinishStep ==
  ASSUME IInv, NEW t \in Threads, Finish(t)
  PROVE  IInv'
<1> USE DEF IInv
<1>a. ASSUME NEW u \in Threads
     PROVE  <<{}>> \o frames[u] \in Seq(SUBSET Tasks) /\ <<{}>> \o frames[u] # <<>>
  BY <1>a, PushFact DEF Types
<1>1. Types'
  <2>1. cur[t] \in Tasks
    BY DEF Finish, At, ThreadOK
  <2>2. state' \in [Tasks -> {"new", "queued", "running", "done"}]
    BY <2>1 DEF Finish, Types
  <2>3. raised' \in SUBSET Tasks
    BY <2>1 DEF Finish, Types
  <2>4. pc' \in [Threads -> Labels] /\ frames' \in [Threads -> Seq(SUBSET Tasks)]
    BY <1>a DEF Finish, Enter, Goto, Types, Labels
  <2> QED
    BY <2>2, <2>3, <2>4 DEF Finish, Types
<1>2. LockOK'
  BY MainIsThread, <1>a DEF Finish, Enter, sharedVars, At, Goto, Types, LockOK, InLock, ThreadOK
<1>3. WorkersBounded'
  BY DEF Finish, Enter, sharedVars, At, Goto, WorkersBounded, MaxWorkers
<1>4. ASSUME NEW u \in Threads PROVE ThreadOK(u)'
  BY <1>4, MainIsThread, <1>a
     DEF Finish, Enter, sharedVars, At, Goto, Types, LockOK, InLock, ThreadOK, MaxWorkers
<1> QED
  BY <1>1, <1>2, <1>3, <1>4

\* Nothing changes.
LEMMA StutterStep ==
  ASSUME IInv, UNCHANGED vars
  PROVE  IInv'
<1> USE DEF IInv
<1>1. Types'
  BY MainIsThread DEF vars, threadVars, sharedVars, At, Goto, Types, Labels
<1>2. LockOK'
  BY MainIsThread DEF vars, threadVars, sharedVars, At, Goto, Types, LockOK, InLock, ThreadOK
<1>3. WorkersBounded'
  BY DEF vars, threadVars, sharedVars, At, Goto, WorkersBounded, MaxWorkers
<1>4. ASSUME NEW u \in Threads PROVE ThreadOK(u)'
  BY <1>4, MainIsThread
     DEF vars, threadVars, sharedVars, At, Goto, Types, LockOK, InLock, ThreadOK, MaxWorkers
<1> QED
  BY <1>1, <1>2, <1>3, <1>4

-----------------------------------------------------------------------------
(* The theorems *)

\* All threads start outside the lock, with nothing to do.
LEMMA InitIInv == Init => IInv
<1> SUFFICES ASSUME Init PROVE IInv
  OBVIOUS
<1>1. Types
  <2>1. <<>> \in Seq(Tasks) /\ <<>> \in Seq(SUBSET Tasks)
    OBVIOUS
  <2>2. pc \in [Threads -> Labels]
    BY DEF Init, Labels
  <2> QED
    BY <2>1, <2>2 DEF Init, Types
<1>2. LockOK
  BY MainIsThread DEF Init, LockOK, InLock
<1>3. WorkersBounded
  <2>1. Cardinality({}) = 0
    BY FS_EmptySet
  <2>2. MaxWorkers \in Nat
    BY Counts
  <2> QED
    BY <2>1, <2>2 DEF Init, WorkersBounded
<1>4. \A t \in Threads : ThreadOK(t)
  BY DEF Init, ThreadOK, InLock
<1> QED
  BY <1>1, <1>2, <1>3, <1>4 DEF IInv

\* A step of a thread that submits or schedules.
LEMMA ThreadStepIInv ==
  ASSUME IInv, NEW t \in Threads, ThreadStep(t)
  PROVE  IInv'
  BY SubmitStep, AcquireStep, CheckStep, ReapStep, RemoveStep, IdleStep, GetStep,
     SubmitToPoolStep, AppendStep, CallbackStep
     DEF ThreadStep

\* Every step keeps the invariant.
LEMMA NextIInv == IInv /\ [Next]_vars => IInv'
<1> SUFFICES ASSUME IInv, [Next]_vars PROVE IInv'
  OBVIOUS
<1>1. CASE \E t \in Callers : ThreadStep(t)
  BY <1>1, ThreadStepIInv, MainIsThread
<1>2. CASE ThreadStep(Main)
  BY <1>2, ThreadStepIInv, MainIsThread
<1>3. CASE Flush
  BY <1>3, FlushStarts
<1>4. CASE FlushStep
  BY <1>4, RemainingStep, WaitStep, JoinStep DEF FlushStep
<1>5. CASE \E p \in Pool : PoolStep(p)
  <2>1. PICK p \in Pool : PoolStep(p)
    BY <1>5
  <2>2. p \in Threads
    BY MainIsThread
  <2> QED
    BY <2>1, <2>2, ThreadStepIInv, FetchStep, FinishStep DEF PoolStep
<1>6. CASE Terminated \/ UNCHANGED vars
  BY <1>6, StutterStep DEF Terminated
<1> QED
  BY <1>1, <1>2, <1>3, <1>4, <1>5, <1>6 DEF Next

\* The invariant holds in every state of every behaviour.
LEMMA Inductive == Spec => []IInv
<1> QED
  BY InitIInv, NextIInv, PTL DEF Spec

\* Every variable keeps its type, and _process_lock is held by exactly the thread that is
\* inside the with statement: no way out of it, exceptions included, keeps it.
THEOREM TypeCorrect == Spec => []TypeOK
<1>1. IInv => TypeOK
  BY TypeParts DEF IInv
<1> QED
  BY <1>1, Inductive, PTL

\* However submitters, done callbacks and the flush interleave, TaskManager never has more
\* than max_workers futures.
THEOREM Bounded == Spec => []WorkersBounded
<1>1. IInv => WorkersBounded
  BY DEF IInv
<1> QED
  BY <1>1, Inductive, PTL

-----------------------------------------------------------------------------
(* The order of the messages *)

\* The number of tasks that are no longer pending.
Taken == Len(submitted) - Len(pending)

\* A thread has taken a task that is not in _futures yet; at first it is not in the queue
\* of the executor either.
InHand(t) == pc[t] \in {"submit", "append"}
Held == IF \E t \in Threads : pc[t] = "submit" THEN 1 ELSE 0

\* The number of tasks the threads of the executor have fetched: the others still wait in
\* its queue, and behind them the one in hand and those that are pending.
Handed == Taken - Held - Len(queue)

\* Both queues are in the order of the submissions, without a task twice, and the task in
\* hand is the last one taken.
QueuesInv ==
  /\ Handed \in Nat
  /\ \A i \in 1..Len(queue) : queue[i] = submitted[Handed + i]
  /\ \A i \in 1..Len(pending) : pending[i] = submitted[Taken + i]
  /\ \A i, j \in 1..Len(submitted) : submitted[i] = submitted[j] => i = j
  /\ \A t \in Threads : InHand(t) => Taken > 0 /\ cur[t] = submitted[Taken]

\* The state of a task says where it is.
StateInv ==
  /\ \A i \in 1..Len(submitted) :
       /\ i <= Handed => state[submitted[i]] \in {"running", "done"}
       /\ i > Handed /\ i <= Handed + Len(queue) => state[submitted[i]] = "queued"
       /\ i > Handed + Len(queue) => state[submitted[i]] = "new"
  /\ \A k \in Tasks : state[k] # "new" => IsSubmitted(k)

\* A running task is the one its only thread is at; with a single thread, the last handed
\* out.
RunInv ==
  /\ \A k \in Tasks : state[k] = "running" => \E p \in Pool : pc[p] = "run" /\ cur[p] = k
  /\ \A t \in Threads : pc[t] = "run" => t \in Pool /\ state[cur[t]] = "running"
  /\ \A t, u \in Threads : pc[t] = "run" /\ pc[u] = "run" /\ cur[t] = cur[u] => t = u
  /\ \A t \in Threads : MaxWorkers = 1 /\ pc[t] = "run" => Handed > 0 /\ cur[t] = submitted[Handed]

OrderInv == QueuesInv /\ StateInv /\ RunInv

\* What the invariant says of the three sequences.
LEMMA OrderFacts ==
  ASSUME IInv, OrderInv
  PROVE  /\ Len(submitted) \in Nat /\ Len(queue) \in Nat /\ Len(pending) \in Nat
         /\ Handed \in Nat /\ Taken \in Nat /\ Held \in 0..1
         /\ Handed + Len(queue) + Held = Taken /\ Taken + Len(pending) = Len(submitted)
         /\ \A i \in 1..Len(queue) : queue[i] = submitted[Handed + i]
         /\ \A i \in 1..Len(pending) : pending[i] = submitted[Taken + i]
         /\ \A i, j \in 1..Len(submitted) : submitted[i] = submitted[j] => i = j
         /\ \A i \in 1..Len(submitted) :
              /\ submitted[i] \in Tasks
              /\ i <= Handed => state[submitted[i]] \in {"running", "done"}
              /\ i > Handed /\ i <= Handed + Len(queue) => state[submitted[i]] = "queued"
              /\ i > Handed + Len(queue) => state[submitted[i]] = "new"
         /\ \A t \in Threads : InHand(t) => Taken > 0 /\ cur[t] = submitted[Taken]
<1>1. Len(submitted) \in Nat /\ Len(queue) \in Nat /\ Len(pending) \in Nat /\ Handed \in Nat
  BY DEF IInv, Types, OrderInv, QueuesInv
<1>2. Held \in 0..1
  BY DEF Held
<1>3. /\ Taken \in Nat /\ Handed + Len(queue) + Held = Taken
      /\ Taken + Len(pending) = Len(submitted)
  BY <1>1, <1>2 DEF Handed, Taken
<1>4. \A i \in 1..Len(submitted) : submitted[i] \in Tasks
  BY DEF IInv, Types
<1> QED
  BY <1>1, <1>2, <1>3, <1>4, Zenon DEF OrderInv, QueuesInv, StateInv

\* The holder of the lock is the only thread with a task in hand.
LEMMA OneInHand ==
  ASSUME IInv, NEW t \in Threads, NEW u \in Threads, lock = t, InHand(u)
  PROVE  u = t
  BY DEF IInv, LockOK, InLock, InHand

\* A task is submitted once: what notify sends is new.
LEMMA SubmitKeepsOrder ==
  ASSUME IInv, OrderInv, NEW t \in Threads, NEW k \in Tasks, Submit(t, k)
  PROVE  OrderInv'
<1> DEFINE n == Len(submitted)  q == Len(queue)  m == Len(pending)
<1>1. /\ submitted' = Append(submitted, k) /\ pending' = Append(pending, k)
      /\ UNCHANGED <<queue, state, cur>>
      /\ pc[t] = "call" /\ pc' = [pc EXCEPT ![t] = "lock"]
      /\ \A i \in 1..n : submitted[i] # k
  BY DEF Submit, Enter, Goto, At, sharedVars, IsSubmitted, IInv, Types
<1>2. /\ submitted \in Seq(Tasks) /\ pending \in Seq(Tasks) /\ queue \in Seq(Tasks)
      /\ n \in Nat /\ q \in Nat /\ m \in Nat /\ Taken = n - m /\ Handed = Taken - Held - q
  BY DEF IInv, Types, Handed, Taken
<1>3. /\ submitted' \in Seq(Tasks) /\ Len(submitted') = n + 1 /\ submitted'[n + 1] = k
      /\ \A i \in 1..n : submitted'[i] = submitted[i]
  BY <1>1, <1>2
<1>4. /\ pending' \in Seq(Tasks) /\ Len(pending') = m + 1 /\ pending'[m + 1] = k
      /\ \A i \in 1..m : pending'[i] = pending[i]
  BY <1>1, <1>2
<1>5. Handed' = Handed /\ Taken' = Taken /\ Len(queue') = q
  <2>1. Held' = Held
    BY <1>1 DEF Held, IInv, Types
  <2>2. Taken' = Taken
    BY <1>2, <1>3, <1>4 DEF Taken
  <2> QED
    BY <1>1, <2>1, <2>2 DEF Handed
<1>6. state[k] = "new"
  BY <1>1 DEF OrderInv, StateInv, IsSubmitted
<1>a. /\ \A i \in 1..q : queue[i] = submitted[Handed + i]
      /\ \A i \in 1..m : pending[i] = submitted[Taken + i]
      /\ \A i, j \in 1..n : submitted[i] = submitted[j] => i = j
      /\ Handed \in Nat /\ Taken \in Nat /\ Held \in 0..1
      /\ Handed + q + Held = Taken /\ Taken + m = n
      /\ \A i \in 1..n :
           /\ submitted[i] \in Tasks
           /\ i <= Handed => state[submitted[i]] \in {"running", "done"}
           /\ i > Handed /\ i <= Handed + q => state[submitted[i]] = "queued"
           /\ i > Handed + q => state[submitted[i]] = "new"
      /\ \A u \in Threads : InHand(u) => Taken > 0 /\ cur[u] = submitted[Taken]
  BY OrderFacts, Zenon
<1> HIDE DEF n, q, m
<1>7. QueuesInv'
  <2>1. Handed \in Nat /\ Taken \in Nat /\ Held \in 0..1 /\ Handed + q + Held = Taken /\ Taken + m = n
    BY <1>a
  <2>2. ASSUME NEW i \in 1..q PROVE queue'[i] = submitted'[Handed' + i]
    <3>1. Handed + i \in 1..n
      BY <1>2, <2>1
    <3>2. queue'[i] = queue[i] /\ queue[i] = submitted[Handed + i]
      BY <1>1, <1>a
    <3>3. submitted'[Handed + i] = submitted[Handed + i]
      BY <1>3, <3>1
    <3> QED
      BY <1>5, <3>2, <3>3
  <2>3. ASSUME NEW i \in 1..(m + 1) PROVE pending'[i] = submitted'[Taken' + i]
    <3>1. CASE i = m + 1
      <4>1. Taken + i = n + 1
        BY <1>2, <2>1, <3>1
      <4> QED
        BY <1>3, <1>4, <1>5, <3>1, <4>1
    <3>2. CASE i \in 1..m
      <4>1. Taken + i \in 1..n
        BY <1>2, <2>1, <3>2
      <4>2. pending'[i] = pending[i] /\ pending[i] = submitted[Taken + i]
        BY <1>4, <1>a, <3>2
      <4>3. submitted'[Taken + i] = submitted[Taken + i]
        BY <1>3, <4>1
      <4> QED
        BY <1>5, <4>2, <4>3
    <3> QED
      BY <1>2, <3>1, <3>2
  <2>4. ASSUME NEW i \in 1..(n + 1), NEW j \in 1..(n + 1), submitted'[i] = submitted'[j]
        PROVE  i = j
    BY <1>1, <1>2, <1>3, <1>a, <2>4
  <2>5. ASSUME NEW u \in Threads, InHand(u)' PROVE Taken > 0 /\ cur'[u] = submitted'[Taken]
    <3>1. InHand(u) /\ cur'[u] = cur[u]
      BY <1>1, <2>5 DEF InHand, IInv, Types
    <3>2. Taken > 0 /\ cur[u] = submitted[Taken]
      BY <1>a, <3>1
    <3>3. Taken \in 1..n
      BY <1>2, <2>1, <3>2
    <3> QED
      BY <1>3, <3>1, <3>2, <3>3
  <2> QED
    BY <1>3, <1>4, <1>5, <2>1, <2>2, <2>3, <2>4, <2>5 DEF QueuesInv
<1>8. StateInv'
  <2>1. Handed \in Nat /\ Taken \in Nat /\ Held \in 0..1 /\ Handed + q + Held = Taken /\ Taken + m = n
    BY <1>a
  <2>2. ASSUME NEW i \in 1..(n + 1)
        PROVE  /\ i <= Handed => state[submitted'[i]] \in {"running", "done"}
               /\ i > Handed /\ i <= Handed + q => state[submitted'[i]] = "queued"
               /\ i > Handed + q => state[submitted'[i]] = "new"
    <3>1. CASE i = n + 1
      <4>1. ~(i <= Handed) /\ ~(i <= Handed + q)
        BY <1>2, <2>1, <3>1
      <4> QED
        BY <1>3, <1>6, <3>1, <4>1
    <3>2. CASE i \in 1..n
      BY <1>3, <1>a, <3>2
    <3> QED
      BY <1>2, <3>1, <3>2
  <2>3. ASSUME NEW j \in Tasks, IsSubmitted(j) PROVE IsSubmitted(j)'
    BY <1>2, <1>3, <2>3 DEF IsSubmitted, n
  <2> QED
    BY <1>1, <1>3, <1>5, <2>2, <2>3 DEF OrderInv, StateInv
<1>9. RunInv'
  <2>1. \A u \in Threads : pc'[u] = "run" <=> pc[u] = "run"
    BY <1>1 DEF IInv, Types
  <2>2. Handed \in Nat /\ Taken \in Nat /\ Held \in 0..1 /\ Handed + q + Held = Taken /\ Taken + m = n
    BY <1>a
  <2>3. Handed > 0 => submitted'[Handed] = submitted[Handed]
    <3>1. Handed > 0 => Handed \in 1..n
      BY <1>2, <2>2
    <3> QED
      BY <1>3, <3>1
  <2>4. \A j \in Tasks : state'[j] = "running" => \E p \in Pool : pc'[p] = "run" /\ cur'[p] = j
    BY <1>1, <2>1, MainIsThread DEF OrderInv, RunInv
  <2>5. \A u \in Threads : pc'[u] = "run" => u \in Pool /\ state'[cur'[u]] = "running"
    BY <1>1, <2>1 DEF OrderInv, RunInv
  <2>6. ASSUME NEW u \in Threads, MaxWorkers = 1, pc'[u] = "run"
        PROVE  Handed > 0 /\ cur'[u] = submitted'[Handed]
    BY <1>1, <2>1, <2>3, <2>6 DEF OrderInv, RunInv
  <2>7. \A u, v \in Threads : pc'[u] = "run" /\ pc'[v] = "run" /\ cur'[u] = cur'[v] => u = v
    BY <1>1, <2>1 DEF OrderInv, RunInv
  <2> QED
    BY <1>5, <2>4, <2>5, <2>6, <2>7 DEF RunInv, MaxWorkers
<1> QED
  BY <1>7, <1>8, <1>9 DEF OrderInv

\* The first pending task is in hand.
LEMMA GetKeepsOrder ==
  ASSUME IInv, OrderInv, NEW t \in Threads, GetPending(t)
  PROVE  OrderInv'
<1> DEFINE n == Len(submitted)  q == Len(queue)  m == Len(pending)  k == Head(pending)
<1>1. /\ pc[t] = "take" /\ pending # <<>> /\ lock = t
      /\ submitted \in Seq(Tasks) /\ pending \in Seq(Tasks) /\ queue \in Seq(Tasks)
      /\ n \in Nat /\ q \in Nat /\ m \in Nat /\ Taken = n - m /\ Handed = Taken - Held - q
  <2>1. pc[t] = "take" /\ pending # <<>> /\ lock = t
    BY DEF GetPending, At, IInv, LockOK, InLock, ThreadOK
  <2> QED
    BY <2>1 DEF IInv, Types, Handed, Taken
<1>2. /\ pending' = Tail(pending) /\ cur' = [cur EXCEPT ![t] = k]
      /\ pc' = [pc EXCEPT ![t] = "submit"]
      /\ UNCHANGED <<submitted, queue, state>>
  BY DEF GetPending, NextPending, Goto, sharedVars
<1>3. m > 0 /\ k = pending[1] /\ k \in Tasks
  <2>1. m # 0
    BY <1>1, EmptyFact
  <2> QED
    BY <1>1, <2>1
<1>4. /\ pending' \in Seq(Tasks) /\ Len(pending') = m - 1
      /\ \A i \in 1..(m - 1) : pending'[i] = pending[i + 1]
  BY <1>1, <1>2
<1>5. Held = 0 /\ Held' = 1 /\ \A u \in Threads : InHand(u)' => u = t
  <2>1. \A u \in Threads : ~InHand(u)
    BY <1>1, OneInHand DEF InHand
  <2>2. /\ \A u \in Threads : pc[u] # "submit"
        /\ pc'[t] = "submit" /\ \A u \in Threads : u # t => pc'[u] = pc[u]
    BY <1>2, <2>1 DEF InHand, IInv, Types
  <2> QED
    BY <2>1, <2>2 DEF Held, InHand
<1>6. /\ \A i \in 1..q : queue[i] = submitted[Handed + i]
      /\ \A i \in 1..m : pending[i] = submitted[Taken + i]
      /\ \A i, j \in 1..n : submitted[i] = submitted[j] => i = j
      /\ Handed \in Nat /\ Taken \in Nat /\ Handed + q + Held = Taken /\ Taken + m = n
  BY OrderFacts, Zenon
<1>7. Taken' = Taken + 1 /\ Handed' = Handed
  <2>1. Taken' = Taken + 1
    BY <1>1, <1>2, <1>4 DEF Taken
  <2> QED
    BY <1>1, <1>2, <1>5, <1>6, <2>1 DEF Handed
<1> HIDE DEF n, q, m, k
<1>b. n \in Nat /\ q \in Nat /\ m \in Nat /\ Taken \in Nat /\ Taken + m = n /\ m > 0
  BY <1>1, <1>3, <1>6, Zenon
<1>8. Taken + 1 \in 1..n /\ k = submitted[Taken + 1]
  <2>1. Taken + 1 \in 1..n /\ 1 \in 1..m
    BY <1>b
  <2> QED
    BY <1>3, <1>6, <2>1, Zenon
<1>9. QueuesInv'
  <2>1. ASSUME NEW i \in 1..(m - 1) PROVE pending'[i] = submitted[Taken + 1 + i]
    <3>1. i + 1 \in 1..m /\ Taken + (i + 1) = Taken + 1 + i
      BY <1>b
    <3> QED
      BY <1>4, <1>6, <3>1
  <2>2. ASSUME NEW u \in Threads, InHand(u)' PROVE Taken + 1 > 0 /\ cur'[u] = submitted[Taken + 1]
    <3>1. u = t
      BY <1>5, <2>2
    <3> QED
      BY <1>2, <1>8, <1>b, <3>1 DEF IInv, Types
  <2> QED
    BY <1>2, <1>4, <1>6, <1>7, <2>1, <2>2 DEF QueuesInv, n, q
<1>10. StateInv'
  BY <1>2, <1>7 DEF OrderInv, StateInv, IsSubmitted
<1>11. RunInv'
  <2>1. \A u \in Threads : /\ pc'[u] = "run" <=> pc[u] = "run"
                           /\ pc[u] = "run" => cur'[u] = cur[u]
    BY <1>1, <1>2 DEF IInv, Types
  <2>2. \A j \in Tasks : state'[j] = "running" => \E p \in Pool : pc'[p] = "run" /\ cur'[p] = j
    BY <1>2, <2>1, MainIsThread DEF OrderInv, RunInv
  <2>3. \A u \in Threads : pc'[u] = "run" => u \in Pool /\ state'[cur'[u]] = "running"
    BY <1>2, <2>1 DEF OrderInv, RunInv
  <2>4. ASSUME NEW u \in Threads, MaxWorkers = 1, pc'[u] = "run"
        PROVE  Handed > 0 /\ cur'[u] = submitted'[Handed]
    BY <1>2, <2>1, <2>4 DEF OrderInv, RunInv
  <2>5. \A u, v \in Threads : pc'[u] = "run" /\ pc'[v] = "run" /\ cur'[u] = cur'[v] => u = v
    BY <2>1 DEF OrderInv, RunInv
  <2> QED
    BY <1>7, <2>2, <2>3, <2>4, <2>5 DEF RunInv, MaxWorkers
<1> QED
  BY <1>9, <1>10, <1>11 DEF OrderInv

\* The task in hand becomes the last one in the queue of the executor.
LEMMA SubmitToPoolKeepsOrder ==
  ASSUME IInv, OrderInv, NEW t \in Threads, SubmitToPool(t)
  PROVE  OrderInv'
<1> DEFINE n == Len(submitted)  q == Len(queue)  m == Len(pending)  k == cur[t]
<1>1. /\ pc[t] = "submit" /\ lock = t /\ k \in Tasks
      /\ submitted \in Seq(Tasks) /\ pending \in Seq(Tasks) /\ queue \in Seq(Tasks)
      /\ n \in Nat /\ q \in Nat /\ m \in Nat /\ Taken = n - m /\ Handed = Taken - Held - q
  BY DEF SubmitToPool, At, IInv, Types, LockOK, InLock, ThreadOK, Handed, Taken
<1>2. /\ queue' = Append(queue, k)
      /\ state' = [state EXCEPT ![k] = "queued"]
      /\ pc' = [pc EXCEPT ![t] = "append"]
      /\ UNCHANGED <<submitted, pending, cur>>
  BY DEF SubmitToPool, Goto
<1>3. Held = 1 /\ Held' = 0 /\ \A u \in Threads : InHand(u)' => u = t
  <2>1. \A u \in Threads : InHand(u) => u = t
    BY <1>1, OneInHand
  <2>2. pc'[t] = "append" /\ \A u \in Threads : u # t => pc'[u] = pc[u]
    BY <1>2 DEF IInv, Types
  <2> QED
    BY <1>1, <2>1, <2>2 DEF Held, InHand
<1>5. /\ queue' \in Seq(Tasks) /\ Len(queue') = q + 1 /\ queue'[q + 1] = k
      /\ \A i \in 1..q : queue'[i] = queue[i]
  BY <1>1, <1>2, <1>3
<1>6. /\ \A i \in 1..q : queue[i] = submitted[Handed + i]
      /\ \A i \in 1..m : pending[i] = submitted[Taken + i]
      /\ \A i, j \in 1..n : submitted[i] = submitted[j] => i = j
      /\ Handed \in Nat /\ Taken \in Nat /\ Handed + q + Held = Taken /\ Taken + m = n
      /\ \A i \in 1..n :
           /\ submitted[i] \in Tasks
           /\ i <= Handed => state[submitted[i]] \in {"running", "done"}
           /\ i > Handed /\ i <= Handed + q => state[submitted[i]] = "queued"
           /\ i > Handed + q => state[submitted[i]] = "new"
      /\ Taken > 0 /\ k = submitted[Taken]
  BY <1>1, OrderFacts, Zenon DEF InHand
<1>7. Handed' = Handed /\ Taken' = Taken
  <2>1. Taken' = Taken
    BY <1>2 DEF Taken
  <2> QED
    BY <1>1, <1>3, <1>5, <1>6, <2>1 DEF Handed
<1> HIDE DEF n, q, m, k
<1>b. n \in Nat /\ q \in Nat /\ m \in Nat /\ Handed \in Nat /\ Handed + q + 1 = Taken /\ Taken + m = n
  BY <1>1, <1>3, <1>6
<1>8. Handed + q + 1 \in 1..n /\ k = submitted[Handed + q + 1]
  BY <1>6, <1>b
<1>9. QueuesInv'
  <2>1. ASSUME NEW i \in 1..(q + 1) PROVE queue'[i] = submitted[Handed + i]
    <3>1. CASE i = q + 1
      BY <1>b, <1>5, <1>8, <3>1
    <3>2. CASE i \in 1..q
      BY <1>5, <1>6, <3>2
    <3> QED
      BY <1>1, <3>1, <3>2
  <2>2. ASSUME NEW u \in Threads, InHand(u)' PROVE Taken > 0 /\ cur'[u] = submitted[Taken]
    <3>1. u = t
      BY <1>3, <2>2
    <3> QED
      BY <1>2, <1>6, <3>1 DEF k
  <2> QED
    BY <1>2, <1>5, <1>6, <1>7, <2>1, <2>2 DEF QueuesInv, n, m
<1>10. StateInv'
  <2>1. ASSUME NEW i \in 1..n
        PROVE  /\ i <= Handed => state'[submitted[i]] \in {"running", "done"}
               /\ i > Handed /\ i <= Handed + (q + 1) => state'[submitted[i]] = "queued"
               /\ i > Handed + (q + 1) => state'[submitted[i]] = "new"
    <3>1. CASE i = Handed + q + 1
      BY <1>1, <1>2, <1>b, <1>8, <3>1 DEF IInv, Types
    <3>2. CASE i # Handed + q + 1
      <4>1. submitted[i] # k /\ submitted[i] \in Tasks
        BY <1>1, <1>6, <1>8, <3>2
      <4>2. state'[submitted[i]] = state[submitted[i]]
        BY <1>2, <4>1 DEF IInv, Types
      <4>3. /\ i <= Handed => state[submitted[i]] \in {"running", "done"}
            /\ i > Handed /\ i <= Handed + q => state[submitted[i]] = "queued"
            /\ i > Handed + q => state[submitted[i]] = "new"
        BY <1>6, Zenon
      <4> QED
        BY <1>b, <3>2, <4>2, <4>3
    <3> QED
      BY <3>1, <3>2
  <2>2. ASSUME NEW j \in Tasks, state'[j] # "new" PROVE IsSubmitted(j)'
    <3>1. IsSubmitted(j)
      <4>1. CASE j = k
        <5>1. DOMAIN submitted = 1..n
          BY <1>1 DEF n
        <5> QED
          BY <1>8, <4>1, <5>1 DEF IsSubmitted
      <4>2. CASE j # k
        BY <1>2, <2>2, <4>2 DEF OrderInv, StateInv, IInv, Types
      <4> QED
        BY <4>1, <4>2
    <3> QED
      BY <1>2, <3>1 DEF IsSubmitted
  <2> QED
    BY <1>2, <1>5, <1>7, <2>1, <2>2 DEF StateInv, n
<1>11. RunInv'
  <2>1. \A u \in Threads : pc'[u] = "run" <=> pc[u] = "run"
    BY <1>1, <1>2 DEF IInv, Types
  <2>2. state[k] = "new"
    BY <1>b, <1>6, <1>8
  <2>3. \A j \in Tasks : state'[j] = "running" <=> state[j] = "running"
    BY <1>2, <2>2 DEF IInv, Types
  <2>4. \A j \in Tasks : state'[j] = "running" => \E p \in Pool : pc'[p] = "run" /\ cur'[p] = j
    BY <1>2, <2>1, <2>3, MainIsThread DEF OrderInv, RunInv
  <2>5. \A u \in Threads : pc'[u] = "run" => u \in Pool /\ state'[cur'[u]] = "running"
    BY <1>2, <2>1, <2>3 DEF OrderInv, RunInv, IInv, ThreadOK
  <2>6. ASSUME NEW u \in Threads, MaxWorkers = 1, pc'[u] = "run"
        PROVE  Handed > 0 /\ cur'[u] = submitted'[Handed]
    BY <1>2, <2>1, <2>6 DEF OrderInv, RunInv
  <2>7. \A u, v \in Threads : pc'[u] = "run" /\ pc'[v] = "run" /\ cur'[u] = cur'[v] => u = v
    BY <1>2, <2>1 DEF OrderInv, RunInv
  <2> QED
    BY <1>7, <2>4, <2>5, <2>6, <2>7 DEF RunInv, MaxWorkers
<1> QED
  BY <1>9, <1>10, <1>11 DEF OrderInv

\* A thread of the executor takes the first task of the queue.
LEMMA FetchKeepsOrder ==
  ASSUME IInv, OrderInv, NEW t \in Pool, Fetch(t)
  PROVE  OrderInv'
<1> DEFINE n == Len(submitted)  q == Len(queue)  m == Len(pending)  k == Head(queue)
<1>1. /\ pc[t] = "fetch" /\ queue # <<>> /\ t \in Threads
      /\ submitted \in Seq(Tasks) /\ pending \in Seq(Tasks) /\ queue \in Seq(Tasks)
      /\ n \in Nat /\ q \in Nat /\ m \in Nat /\ Taken = n - m /\ Handed = Taken - Held - q
  BY MainIsThread DEF Fetch, At, IInv, Types, Handed, Taken
<1>2. /\ queue' = Tail(queue) /\ cur' = [cur EXCEPT ![t] = k]
      /\ state' = [state EXCEPT ![k] = "running"]
      /\ pc' = [pc EXCEPT ![t] = "run"]
      /\ UNCHANGED <<submitted, pending>>
  BY DEF Fetch, Goto
<1>3. q > 0 /\ k = queue[1] /\ k \in Tasks
  <2>1. q # 0
    BY <1>1, EmptyFact
  <2> QED
    BY <1>1, <2>1
<1>4. /\ queue' \in Seq(Tasks) /\ Len(queue') = q - 1
      /\ \A i \in 1..(q - 1) : queue'[i] = queue[i + 1]
  BY <1>1, <1>2
<1>5. /\ \A i \in 1..q : queue[i] = submitted[Handed + i]
      /\ \A i \in 1..m : pending[i] = submitted[Taken + i]
      /\ \A i, j \in 1..n : submitted[i] = submitted[j] => i = j
      /\ Handed \in Nat /\ Taken \in Nat /\ Held \in 0..1
      /\ Handed + q + Held = Taken /\ Taken + m = n
      /\ \A i \in 1..n :
           /\ submitted[i] \in Tasks
           /\ i <= Handed => state[submitted[i]] \in {"running", "done"}
           /\ i > Handed /\ i <= Handed + q => state[submitted[i]] = "queued"
           /\ i > Handed + q => state[submitted[i]] = "new"
      /\ \A u \in Threads : InHand(u) => Taken > 0 /\ cur[u] = submitted[Taken]
  BY OrderFacts, Zenon
<1>6. Handed' = Handed + 1 /\ Taken' = Taken
  <2>1. Taken' = Taken
    BY <1>2 DEF Taken
  <2>2. Held' = Held
    BY <1>1, <1>2 DEF Held, IInv, Types
  <2> QED
    BY <1>1, <1>4, <1>5, <2>1, <2>2 DEF Handed
<1> HIDE DEF n, q, m, k
<1>b. /\ n \in Nat /\ q \in Nat /\ m \in Nat /\ Handed \in Nat /\ Taken \in Nat /\ Held \in 0..1
      /\ Handed + q + Held = Taken /\ Taken + m = n /\ q > 0
  BY <1>1, <1>3, <1>5, Zenon
<1>7. Handed + 1 \in 1..n /\ k = submitted[Handed + 1]
  <2>1. Handed + 1 \in 1..n /\ 1 \in 1..q
    BY <1>b
  <2> QED
    BY <1>3, <1>5, <2>1, Zenon
<1>8. QueuesInv'
  <2>1. ASSUME NEW i \in 1..(q - 1) PROVE queue'[i] = submitted[Handed + 1 + i]
    <3>1. i + 1 \in 1..q /\ Handed + (i + 1) = Handed + 1 + i
      BY <1>b
    <3> QED
      BY <1>4, <1>5, <3>1
  <2>2. ASSUME NEW u \in Threads, InHand(u)' PROVE Taken > 0 /\ cur'[u] = submitted[Taken]
    <3>1. InHand(u) /\ cur'[u] = cur[u]
      BY <1>1, <1>2, <2>2 DEF InHand, IInv, Types
    <3> QED
      BY <1>5, <3>1
  <2>3. Len(submitted') = n /\ Len(pending') = m /\ pending' = pending /\ submitted' = submitted
    BY <1>2 DEF n, m
  <2>4. Handed + 1 \in Nat
    BY <1>5
  <2> QED
    BY <1>4, <1>5, <1>6, <2>1, <2>2, <2>3, <2>4 DEF QueuesInv
<1>9. StateInv'
  <2>1. ASSUME NEW i \in 1..n
        PROVE  /\ i <= Handed + 1 => state'[submitted[i]] \in {"running", "done"}
               /\ i > Handed + 1 /\ i <= Handed + 1 + (q - 1) => state'[submitted[i]] = "queued"
               /\ i > Handed + 1 + (q - 1) => state'[submitted[i]] = "new"
    <3>1. CASE i = Handed + 1
      <4>1. state'[submitted[i]] = "running"
        BY <1>2, <1>3, <1>7, <3>1 DEF IInv, Types
      <4> QED
        BY <1>b, <3>1, <4>1
    <3>2. CASE i # Handed + 1
      <4>1. submitted[i] # k /\ submitted[i] \in Tasks
        BY <1>1, <1>5, <1>7, <3>2
      <4>2. state'[submitted[i]] = state[submitted[i]]
        BY <1>2, <4>1 DEF IInv, Types
      <4>3. /\ i <= Handed => state[submitted[i]] \in {"running", "done"}
            /\ i > Handed /\ i <= Handed + q => state[submitted[i]] = "queued"
            /\ i > Handed + q => state[submitted[i]] = "new"
        BY <1>5, Zenon
      <4> QED
        BY <1>b, <3>2, <4>2, <4>3
    <3> QED
      BY <3>1, <3>2
  <2>2. ASSUME NEW j \in Tasks, state'[j] # "new" PROVE IsSubmitted(j)'
    <3>1. IsSubmitted(j)
      <4>1. CASE j = k
        <5>1. DOMAIN submitted = 1..n
          BY <1>1 DEF n
        <5> QED
          BY <1>7, <4>1, <5>1 DEF IsSubmitted
      <4>2. CASE j # k
        BY <1>2, <2>2, <4>2 DEF OrderInv, StateInv, IInv, Types
      <4> QED
        BY <4>1, <4>2
    <3> QED
      BY <1>2, <3>1 DEF IsSubmitted
  <2> QED
    BY <1>2, <1>4, <1>6, <2>1, <2>2 DEF StateInv, n
<1>10. RunInv'
  <2>1. /\ pc'[t] = "run" /\ cur'[t] = k /\ state'[k] = "running"
        /\ \A u \in Threads : u # t => pc'[u] = pc[u] /\ cur'[u] = cur[u]
        /\ \A j \in Tasks : j # k => state'[j] = state[j]
    BY <1>1, <1>2, <1>3 DEF IInv, Types
  <2>2. ASSUME NEW j \in Tasks, state'[j] = "running"
        PROVE  \E p \in Pool : pc'[p] = "run" /\ cur'[p] = j
    <3>1. CASE j = k
      BY <2>1, <3>1
    <3>2. CASE j # k
      <4>1. PICK p \in Pool : pc[p] = "run" /\ cur[p] = j
        BY <2>1, <2>2, <3>2 DEF OrderInv, RunInv
      <4>2. p # t /\ p \in Threads
        BY <1>1, <4>1, MainIsThread
      <4> QED
        BY <2>1, <4>1, <4>2
    <3> QED
      BY <3>1, <3>2
  <2>3. ASSUME NEW u \in Threads, pc'[u] = "run" PROVE u \in Pool /\ state'[cur'[u]] = "running"
    <3>1. CASE u = t
      BY <2>1, <3>1
    <3>2. CASE u # t
      <4>1. u \in Pool /\ cur[u] \in Tasks /\ state[cur[u]] = "running"
        BY <2>1, <2>3, <3>2 DEF OrderInv, RunInv, IInv, ThreadOK
      <4> QED
        BY <2>1, <3>2, <4>1
    <3> QED
      BY <3>1, <3>2
  <2>4. ASSUME NEW u \in Threads, MaxWorkers = 1, pc'[u] = "run"
        PROVE  Handed + 1 > 0 /\ cur'[u] = submitted'[Handed + 1]
    <3>1. u = t
      <4>1. u \in Pool
        BY <2>3, <2>4
      <4>2. PICK x : Pool = {x}
        BY <2>4, ThreadAssumption, FS_Singleton DEF MaxWorkers
      <4> QED
        BY <4>1, <4>2
    <3> QED
      BY <1>2, <1>5, <1>7, <2>1, <3>1
  <2>5. ASSUME NEW u \in Threads, pc'[u] = "run", cur'[u] = k PROVE u = t
    <3>1. state[k] = "queued"
      <4>1. Handed + 1 > Handed /\ Handed + 1 <= Handed + q
        BY <1>b
      <4> QED
        BY <1>5, <1>7, <4>1, Zenon
    <3>2. u # t => pc[u] = "run" /\ cur[u] = k
      BY <2>1, <2>5
    <3>3. u # t => state[k] = "running"
      BY <3>2 DEF OrderInv, RunInv
    <3> QED
      BY <3>1, <3>3
  <2>6. \A u, v \in Threads : pc'[u] = "run" /\ pc'[v] = "run" /\ cur'[u] = cur'[v] => u = v
    <3>1. \A u, v \in Threads : pc[u] = "run" /\ pc[v] = "run" /\ cur[u] = cur[v] => u = v
      BY DEF OrderInv, RunInv
    <3> QED
      BY <2>1, <2>5, <3>1
  <2> QED
    BY <1>6, <2>2, <2>3, <2>4, <2>6 DEF RunInv, MaxWorkers
<1> QED
  BY <1>8, <1>9, <1>10 DEF OrderInv

\* A task that ends was running.
LEMMA FinishKeepsOrder ==
  ASSUME IInv, OrderInv, NEW t \in Pool, Finish(t)
  PROVE  OrderInv'
<1> DEFINE k == cur[t]
<1>1. /\ t \in Threads /\ pc[t] = "run" /\ k \in Tasks /\ state[k] = "running"
  BY MainIsThread DEF Finish, At, IInv, ThreadOK, OrderInv, RunInv
<1>2. /\ state' = [state EXCEPT ![k] = "done"]
      /\ pc' = [pc EXCEPT ![t] = pc'[t]] /\ pc'[t] # "run"
      /\ UNCHANGED <<submitted, pending, queue, cur>>
  BY <1>1 DEF Finish, Enter, Goto, IInv, Types
<1>3. /\ state'[k] = "done" /\ \A j \in Tasks : j # k => state'[j] = state[j]
      /\ \A u \in Threads : u # t => pc'[u] = pc[u]
  BY <1>1, <1>2 DEF IInv, Types
<1>4. QueuesInv' /\ Handed' = Handed
  <2>1. Taken' = Taken
    BY <1>2 DEF Taken
  <2>2. pc'[t] \in {"lock", "fetch"}
    BY <1>1 DEF Finish, Enter, Goto, IInv, Types
  <2>3. Held' = Held /\ \A u \in Threads : InHand(u)' => InHand(u)
    BY <1>1, <1>3, <2>2 DEF Held, InHand
  <2>4. Handed' = Handed
    BY <1>2, <2>1, <2>3 DEF Handed
  <2> QED
    BY <1>2, <2>1, <2>3, <2>4 DEF OrderInv, QueuesInv
<1> HIDE DEF k
<1>5. StateInv'
  <2>1. ASSUME NEW i \in 1..Len(submitted)
        PROVE  /\ i <= Handed => state'[submitted[i]] \in {"running", "done"}
               /\ i > Handed /\ i <= Handed + Len(queue) => state'[submitted[i]] = "queued"
               /\ i > Handed + Len(queue) => state'[submitted[i]] = "new"
    <3>1. /\ submitted[i] \in Tasks
          /\ i <= Handed => state[submitted[i]] \in {"running", "done"}
          /\ i > Handed /\ i <= Handed + Len(queue) => state[submitted[i]] = "queued"
          /\ i > Handed + Len(queue) => state[submitted[i]] = "new"
      BY OrderFacts, Zenon
    <3> QED
      BY <1>1, <1>3, <3>1
  <2>2. ASSUME NEW j \in Tasks, state'[j] # "new" PROVE IsSubmitted(j)'
    <3>1. state[j] # "new"
      BY <1>1, <1>3, <2>2
    <3>2. IsSubmitted(j)
      BY <3>1 DEF OrderInv, StateInv
    <3> QED
      BY <1>2, <3>2 DEF IsSubmitted
  <2> QED
    BY <1>2, <1>4, <2>1, <2>2 DEF StateInv
<1>6. RunInv'
  <2>1. ASSUME NEW j \in Tasks, state'[j] = "running"
        PROVE  \E p \in Pool : pc'[p] = "run" /\ cur'[p] = j
    <3>1. j # k /\ state[j] = "running"
      BY <1>3, <2>1
    <3>2. PICK p \in Pool : pc[p] = "run" /\ cur[p] = j
      BY <3>1 DEF OrderInv, RunInv
    <3>3. p # t /\ p \in Threads
      BY <3>1, <3>2, MainIsThread DEF k
    <3> QED
      BY <1>2, <1>3, <3>2, <3>3
  <2>2. ASSUME NEW u \in Threads, pc'[u] = "run" PROVE u \in Pool /\ state'[cur'[u]] = "running"
    <3>1. u # t /\ pc[u] = "run"
      BY <1>2, <1>3, <2>2
    <3>2. u \in Pool /\ cur[u] \in Tasks /\ state[cur[u]] = "running"
      BY <3>1 DEF OrderInv, RunInv, IInv, ThreadOK
    <3>3. cur[u] # k
      BY <1>1, <3>1 DEF OrderInv, RunInv, k
    <3> QED
      BY <1>2, <1>3, <3>2, <3>3
  <2>3. ASSUME NEW u \in Threads, MaxWorkers = 1, pc'[u] = "run"
        PROVE  Handed > 0 /\ cur'[u] = submitted'[Handed]
    BY <1>2, <1>3, <2>3 DEF OrderInv, RunInv
  <2>4. \A u, v \in Threads : pc'[u] = "run" /\ pc'[v] = "run" /\ cur'[u] = cur'[v] => u = v
    BY <1>2, <1>3 DEF OrderInv, RunInv
  <2> QED
    BY <1>4, <2>1, <2>2, <2>3, <2>4 DEF RunInv, MaxWorkers
<1> QED
  BY <1>4, <1>5, <1>6 DEF OrderInv

\* The other steps move no task and start or end none.
Quiet ==
  /\ UNCHANGED <<submitted, pending, queue, state>>
  /\ \A t \in Threads : /\ pc'[t] = "run" <=> pc[t] = "run"
                        /\ pc'[t] = "submit" <=> pc[t] = "submit"
                        /\ pc'[t] = "append" => pc[t] = "append"
                        /\ pc[t] \in {"run", "submit", "append"} => cur'[t] = cur[t]

\* The steps of _process_pending_tasks other than the two that move a task.
LEMMA ScheduleIsQuiet ==
  ASSUME IInv, NEW t \in Threads,
         \/ AcquireLock(t) \/ CheckPending(t) \/ Reap(t) \/ Remove(t) \/ HasIdleWorker(t)
         \/ AppendFuture(t) \/ AddCallback(t)
  PROVE  Quiet
<1> USE DEF IInv, Types, At, Goto, Quiet, sharedVars
<1>1. CASE AcquireLock(t)
  BY <1>1 DEF AcquireLock
<1>2. CASE CheckPending(t)
  BY <1>2 DEF CheckPending
<1>3. CASE Reap(t)
  BY <1>3 DEF Reap
<1>4. CASE Remove(t)
  BY <1>4 DEF Remove
<1>5. CASE HasIdleWorker(t)
  BY <1>5 DEF HasIdleWorker
<1>6. CASE AddCallback(t)
  BY <1>6 DEF AddCallback, AfterReturn
<1>7. CASE AppendFuture(t)
  BY <1>7 DEF AppendFuture
<1> QED
  BY <1>1, <1>2, <1>3, <1>4, <1>5, <1>6, <1>7

\* The steps of flush_notifications.
LEMMA FlushIsQuiet ==
  ASSUME IInv, Flush \/ FlushStep
  PROVE  Quiet
<1> USE MainIsThread DEF IInv, Types, At, Goto, Quiet, sharedVars, Enter
<1>1. CASE Flush
  BY <1>1 DEF Flush
<1>2. CASE Remaining
  BY <1>2 DEF Remaining
<1>3. CASE WaitWorker
  BY <1>3 DEF WaitWorker
<1>4. CASE JoinExceptions
  BY <1>4 DEF JoinExceptions
<1> QED
  BY <1>1, <1>2, <1>3, <1>4 DEF FlushStep

\* A step that moves no task keeps the order.
LEMMA QuietKeepsOrder ==
  ASSUME IInv, OrderInv, Quiet
  PROVE  OrderInv'
<1>1. Handed' = Handed /\ Taken' = Taken
  <2>1. Taken' = Taken
    BY DEF Quiet, Taken
  <2>2. Held' = Held
    BY DEF Quiet, Held
  <2> QED
    BY <2>1, <2>2 DEF Quiet, Handed
<1>2. QueuesInv'
  <2>1. \A t \in Threads : InHand(t)' => InHand(t) /\ cur'[t] = cur[t]
    BY DEF Quiet, InHand
  <2> QED
    BY <1>1, <2>1 DEF Quiet, OrderInv, QueuesInv
<1>3. StateInv'
  BY <1>1 DEF Quiet, OrderInv, StateInv, IsSubmitted
<1>4. RunInv'
  <2>1. \A k \in Tasks : state'[k] = "running" => \E p \in Pool : pc'[p] = "run" /\ cur'[p] = k
    BY MainIsThread DEF Quiet, OrderInv, RunInv
  <2>2. \A t \in Threads : pc'[t] = "run" => t \in Pool /\ state'[cur'[t]] = "running"
    BY DEF Quiet, OrderInv, RunInv
  <2>3. \A t, u \in Threads : pc'[t] = "run" /\ pc'[u] = "run" /\ cur'[t] = cur'[u] => t = u
    BY DEF Quiet, OrderInv, RunInv
  <2>4. \A t \in Threads : MaxWorkers = 1 /\ pc'[t] = "run"
                           => Handed > 0 /\ cur'[t] = submitted'[Handed]
    BY DEF Quiet, OrderInv, RunInv
  <2> QED
    BY <1>1, <2>1, <2>2, <2>3, <2>4 DEF RunInv, MaxWorkers
<1> QED
  BY <1>2, <1>3, <1>4 DEF OrderInv

\* Every step of a thread that submits or schedules moves a task or is quiet.
LEMMA ThreadStepKeepsOrder ==
  ASSUME IInv, OrderInv, NEW t \in Threads, ThreadStep(t)
  PROVE  OrderInv'
  BY SubmitKeepsOrder, GetKeepsOrder, SubmitToPoolKeepsOrder, ScheduleIsQuiet, QuietKeepsOrder
     DEF ThreadStep

\* Every step keeps the order.
LEMMA NextKeepsOrder == IInv /\ OrderInv /\ [Next]_vars => OrderInv'
<1> SUFFICES ASSUME IInv, OrderInv, [Next]_vars PROVE OrderInv'
  OBVIOUS
<1>1. ASSUME NEW t \in Callers, ThreadStep(t) PROVE OrderInv'
  BY <1>1, ThreadStepKeepsOrder, MainIsThread
<1>2. CASE ThreadStep(Main)
  BY <1>2, ThreadStepKeepsOrder, MainIsThread
<1>3. CASE Flush \/ FlushStep
  BY <1>3, FlushIsQuiet, QuietKeepsOrder
<1>4. ASSUME NEW p \in Pool, PoolStep(p) PROVE OrderInv'
  BY <1>4, ThreadStepKeepsOrder, FetchKeepsOrder, FinishKeepsOrder, MainIsThread DEF PoolStep
<1>5. CASE Terminated \/ UNCHANGED vars
  <2>1. Quiet
    BY <1>5 DEF Terminated, vars, threadVars, sharedVars, Quiet
  <2> QED
    BY <2>1, QuietKeepsOrder
<1> QED
  BY <1>1, <1>2, <1>3, <1>4, <1>5 DEF Next

\* Nothing is submitted at first.
LEMMA InitOrder == Init => OrderInv
<1> SUFFICES ASSUME Init PROVE OrderInv
  OBVIOUS
<1>1. /\ Len(submitted) = 0 /\ Len(pending) = 0 /\ Len(queue) = 0 /\ Handed = 0
      /\ \A t \in Threads : ~InHand(t)
  <2>1. submitted = <<>> /\ pending = <<>> /\ queue = <<>>
    BY DEF Init
  <2>2. Len(submitted) = 0 /\ Len(pending) = 0 /\ Len(queue) = 0
    BY <2>1
  <2>3. Held = 0 /\ \A t \in Threads : ~InHand(t)
    BY DEF Held, InHand, Init
  <2> QED
    BY <2>2, <2>3 DEF Handed, Taken
<1>2. QueuesInv
  BY <1>1 DEF QueuesInv
<1>3. StateInv
  <2>1. \A i \in 1..Len(submitted) : FALSE
    BY <1>1
  <2>2. \A k \in Tasks : state[k] = "new"
    BY DEF Init
  <2> QED
    BY <2>1, <2>2 DEF StateInv
<1>4. RunInv
  BY MainIsThread DEF RunInv, Init
<1> QED
  BY <1>2, <1>3, <1>4 DEF OrderInv

\* In every state the queues are in the order of the submissions.
LEMMA OrderInvariance == Spec => []OrderInv
<1> QED
  BY InitOrder, NextKeepsOrder, Inductive, PTL DEF Spec

\* With one worker, as the notifier has, a message is processed only when all that were
\* submitted before it have been processed: whichever threads submit, whichever thread or
\* done callback schedules, and also when callers still notify during the flush.
THEOREM InOrder == Spec => []ProcessedInOrder
<1>1. IInv /\ OrderInv => ProcessedInOrder
  <2> SUFFICES ASSUME IInv, OrderInv, MaxWorkers = 1,
                      NEW i \in DOMAIN submitted, NEW j \in DOMAIN submitted,
                      i < j, state[submitted[j]] \in {"running", "done"}
               PROVE  state[submitted[i]] = "done"
    BY DEF ProcessedInOrder
  <2>1. i \in 1..Len(submitted) /\ j \in 1..Len(submitted) /\ Len(submitted) \in Nat
    BY DEF IInv, Types
  <2>2. /\ Handed \in Nat /\ Len(queue) \in Nat
        /\ submitted[i] \in Tasks
        /\ i <= Handed => state[submitted[i]] \in {"running", "done"}
        /\ j > Handed /\ j <= Handed + Len(queue) => state[submitted[j]] = "queued"
        /\ j > Handed + Len(queue) => state[submitted[j]] = "new"
        /\ \A x, y \in 1..Len(submitted) : submitted[x] = submitted[y] => x = y
        /\ Handed <= Len(submitted)
    <3>1. /\ Handed \in Nat /\ Len(queue) \in Nat /\ Len(pending) \in Nat /\ Len(submitted) \in Nat
          /\ Taken \in Nat /\ Held \in 0..1
          /\ Handed + Len(queue) + Held = Taken /\ Taken + Len(pending) = Len(submitted)
      BY OrderFacts, Zenon
    <3>2. Handed <= Len(submitted)
      BY <3>1
    <3> QED
      BY <2>1, <3>1, <3>2, OrderFacts, Zenon
  <2>3. j <= Handed
    BY <2>1, <2>2
  <2>4. i < Handed
    BY <2>1, <2>2, <2>3
  <2>5. state[submitted[i]] = "running" => FALSE
    <3> SUFFICES ASSUME state[submitted[i]] = "running" PROVE FALSE
      OBVIOUS
    <3>1. PICK p \in Pool : pc[p] = "run" /\ cur[p] = submitted[i]
      BY <2>2 DEF OrderInv, RunInv
    <3>2. cur[p] = submitted[Handed] /\ Handed > 0
      BY <3>1, MainIsThread DEF OrderInv, RunInv
    <3>3. Handed \in 1..Len(submitted)
      BY <2>1, <2>2, <3>2
    <3>4. i = Handed
      BY <2>1, <2>2, <3>1, <3>2, <3>3
    <3> QED
      BY <2>1, <2>2, <2>4, <3>4
  <2> QED
    BY <2>1, <2>2, <2>4, <2>5
<1> QED
  BY <1>1, Inductive, OrderInvariance, PTL

-----------------------------------------------------------------------------
(* The flush at the end of a run *)

\* A task the executor has is in _futures until it is done, unless the thread that gave
\* it to the executor has still to append it.
ReapInv ==
  /\ \A k \in Tasks : state[k] \in {"queued", "running"} =>
                       k \in futures \/ \E t \in Threads : pc[t] = "append" /\ cur[t] = k
  /\ \A t \in Threads : pc[t] = "remove" => state[cur[t]] = "done"

\* wait_worker reaps without the lock.
Alone(t) == pc[t] \in {"reap", "remove"} /\ frames[t] = <<>>

\* Once every message is submitted and the main thread has found nothing pending, no other
\* thread can get past the while condition: it reaps alone.
FlushInv ==
  /\ flushing => \A k \in Tasks : IsSubmitted(k)
  /\ \A t \in Threads :
       pc[t] \in {"remaining", "wait", "join", "joined", "flushed"} \/ Alone(t) => t = Main /\ flushing
  /\ pc[Main] \in {"wait", "join", "joined", "flushed"} \/ Alone(Main) => pending = <<>>

\* A thread removes only what is still there.
SeenInv ==
  \A t \in Threads :
    /\ pc[t] # "broken"
    /\ pc[t] = "reap" => seen[t] \subseteq futures
    /\ pc[t] = "remove" => cur[t] \in futures /\ seen[t] \subseteq futures \ {cur[t]}

\* At most one thread is at a place where it reaps.
LEMMA OneReaper ==
  ASSUME IInv, FlushInv, NEW t \in Threads, NEW u \in Threads,
         pc[t] \in {"reap", "remove"}, pc[u] \in {"reap", "remove"}
  PROVE  t = u
<1>1. ASSUME NEW x \in Threads, pc[x] \in {"reap", "remove"}
      PROVE  /\ ~Alone(x) => lock = x /\ pending # <<>>
             /\ Alone(x) => x = Main /\ pending = <<>>
  BY <1>1 DEF IInv, LockOK, InLock, ThreadOK, Alone, FlushInv
<1> QED
  BY <1>1

\* With nothing pending, no thread is about to hand out a task.
LEMMA NothingToTake ==
  ASSUME IInv, pending = <<>>, NEW t \in Threads
  PROVE  pc[t] \notin {"idle", "take"}
  BY DEF IInv, ThreadOK, InLock

\* Every step keeps the futures of the tasks that are not done.
LEMMA NextKeepsFutures == IInv /\ OrderInv /\ ReapInv /\ [Next]_vars => ReapInv'
<1> SUFFICES ASSUME IInv, OrderInv, ReapInv, [Next]_vars PROVE ReapInv'
  OBVIOUS
<1>0. ASSUME UNCHANGED <<futures, state, cur>>,
             \A t \in Threads : /\ pc'[t] = "remove" => pc[t] = "remove"
                                /\ pc[t] = "append" => pc'[t] = "append"
      PROVE  ReapInv'
  BY <1>0 DEF ReapInv
<1>1. ASSUME NEW t \in Threads, ThreadStep(t) PROVE ReapInv'
  <2>1. ASSUME NEW k \in Tasks, Submit(t, k) PROVE ReapInv'
    BY <1>0, <2>1 DEF Submit, sharedVars, At, Enter, Goto, IInv, Types
  <2>2. CASE AcquireLock(t)
    BY <1>0, <2>2 DEF AcquireLock, sharedVars, At, Goto, IInv, Types
  <2>3. CASE CheckPending(t)
    BY <1>0, <2>3 DEF CheckPending, sharedVars, At, Goto, IInv, Types
  <2>4. CASE Reap(t)
    <3>1. UNCHANGED <<futures, state>>
      BY <2>4 DEF Reap
    <3>2. ASSUME NEW u \in Threads, pc'[u] = "remove" PROVE state[cur'[u]] = "done"
      BY <2>4, <3>2 DEF Reap, Goto, At, ReapInv, IInv, Types
    <3>3. \A u \in Threads : pc[u] = "append" => pc'[u] = "append" /\ cur'[u] = cur[u]
      BY <2>4 DEF Reap, Goto, At, IInv, Types
    <3> QED
      BY <3>1, <3>2, <3>3 DEF ReapInv
  <2>5. CASE Remove(t)
    <3>1. /\ UNCHANGED <<state, cur>> /\ state[cur[t]] = "done" /\ futures \ {cur[t]} \subseteq futures'
          /\ \A u \in Threads : /\ pc'[u] = "remove" => pc[u] = "remove"
                                /\ pc[u] = "append" => pc'[u] = "append"
      BY <2>5 DEF Remove, Goto, At, ReapInv, IInv, Types
    <3> QED
      BY <3>1 DEF ReapInv
  <2>6. CASE HasIdleWorker(t)
    BY <1>0, <2>6 DEF HasIdleWorker, sharedVars, At, Goto, IInv, Types
  <2>7. CASE GetPending(t)
    <3>1. /\ pc[t] = "take" /\ pc' = [pc EXCEPT ![t] = "submit"] /\ UNCHANGED <<futures, state>>
          /\ \A u \in Threads : u # t => cur'[u] = cur[u]
      BY <2>7 DEF GetPending, At, Goto, sharedVars, IInv, Types
    <3>2. \A u \in Threads : pc[u] = "append" => pc'[u] = "append" /\ cur'[u] = cur[u]
      BY <3>1 DEF IInv, Types
    <3>3. \A u \in Threads : pc'[u] = "remove" => pc[u] = "remove" /\ cur'[u] = cur[u]
      BY <3>1 DEF IInv, Types
    <3> QED
      BY <3>1, <3>2, <3>3 DEF ReapInv
  <2>9. CASE SubmitToPool(t)
    <3> DEFINE k == cur[t]
    <3>1. /\ pc[t] = "submit" /\ k \in Tasks /\ state' = [state EXCEPT ![k] = "queued"]
          /\ pc' = [pc EXCEPT ![t] = "append"] /\ UNCHANGED <<futures, cur>>
      BY <2>9 DEF SubmitToPool, At, Goto, IInv, ThreadOK
    <3>2. state[k] = "new"
      <4>1. Held = 1 /\ InHand(t)
        BY <3>1 DEF Held, InHand
      <4>2. /\ Handed \in Nat /\ Len(queue) \in Nat /\ Len(submitted) \in Nat /\ Len(pending) \in Nat
            /\ Handed + Len(queue) + Held = Taken /\ Taken + Len(pending) = Len(submitted)
            /\ Taken \in Nat /\ Taken > 0 /\ k = submitted[Taken]
        BY <4>1, OrderFacts, Zenon
      <4>3. Taken \in 1..Len(submitted) /\ Taken > Handed + Len(queue)
        BY <4>1, <4>2
      <4>4. state[submitted[Taken]] = "new"
        BY <4>3, OrderFacts, Zenon
      <4> QED
        BY <4>2, <4>4
    <3> HIDE DEF k
    <3>3. \A j \in Tasks : j # k => state'[j] = state[j]
      BY <3>1 DEF IInv, Types
    <3>4. \A u \in Threads : pc'[u] = "remove" => pc[u] = "remove" /\ cur[u] # k /\ cur[u] \in Tasks
      BY <3>1, <3>2 DEF IInv, Types, ReapInv, ThreadOK
    <3>5. /\ pc'[t] = "append" /\ cur'[t] = k
          /\ \A u \in Threads : pc[u] = "append" => pc'[u] = "append"
      BY <3>1 DEF IInv, Types, k
    <3> QED
      BY <3>1, <3>3, <3>4, <3>5 DEF ReapInv
  <2>10. CASE AppendFuture(t)
    <3>1. /\ futures' = futures \cup {cur[t]} /\ UNCHANGED <<state, cur>>
          /\ pc' = [pc EXCEPT ![t] = "empty"]
      BY <2>10 DEF AppendFuture, Goto
    <3>2. \A u \in Threads : /\ pc'[u] = "remove" => pc[u] = "remove"
                             /\ pc[u] = "append" => u = t \/ pc'[u] = "append"
      BY <3>1 DEF IInv, Types
    <3> QED
      BY <3>1, <3>2 DEF ReapInv
  <2>8. CASE AddCallback(t)
    BY <1>0, <2>8 DEF AddCallback, AfterReturn, At, Goto, IInv, Types
  <2> QED
    BY <1>1, <2>1, <2>2, <2>3, <2>4, <2>5, <2>6, <2>7, <2>8, <2>9, <2>10 DEF ThreadStep
<1>2. CASE Flush
  BY <1>0, <1>2, MainIsThread DEF Flush, Enter, sharedVars, At, Goto, IInv, Types
<1>3. CASE FlushStep
  <2>1. CASE Remaining
    BY <1>0, <2>1, MainIsThread DEF Remaining, Enter, sharedVars, At, Goto, IInv, Types
  <2>2. CASE WaitWorker
    BY <1>0, <2>2, MainIsThread DEF WaitWorker, sharedVars, At, Goto, IInv, Types
  <2>3. CASE JoinExceptions
    BY <1>0, <2>3, MainIsThread DEF JoinExceptions, Enter, At, Goto, IInv, Types
  <2> QED
    BY <1>3, <2>1, <2>2, <2>3 DEF FlushStep
<1>4. ASSUME NEW p \in Pool, Fetch(p) PROVE ReapInv'
  <2> DEFINE k == Head(queue)
  <2>1. /\ state' = [state EXCEPT ![k] = "running"] /\ UNCHANGED futures
        /\ pc' = [pc EXCEPT ![p] = "run"] /\ cur' = [cur EXCEPT ![p] = k] /\ p \in Threads
    BY <1>4, MainIsThread DEF Fetch, Goto
  <2>2. state[k] = "queued" /\ k \in Tasks
    <3>1. queue # <<>> /\ queue \in Seq(Tasks)
      BY <1>4 DEF Fetch, IInv, Types
    <3>2. k = queue[1] /\ Len(queue) \in Nat /\ Len(queue) > 0
      <4>1. Len(queue) # 0
        BY <3>1, EmptyFact
      <4> QED
        BY <3>1, <4>1
    <3>3. /\ Handed \in Nat /\ Len(pending) \in Nat /\ Len(submitted) \in Nat /\ Taken \in Nat
          /\ Held \in 0..1 /\ Handed + Len(queue) + Held = Taken
          /\ Taken + Len(pending) = Len(submitted)
      BY OrderFacts, Zenon
    <3>4. /\ 1 \in 1..Len(queue) /\ Handed + 1 \in 1..Len(submitted)
          /\ Handed + 1 > Handed /\ Handed + 1 <= Handed + Len(queue)
      BY <3>2, <3>3
    <3>5. queue[1] = submitted[Handed + 1]
      BY <3>4, OrderFacts, Zenon
    <3>6. submitted[Handed + 1] \in Tasks /\ state[submitted[Handed + 1]] = "queued"
      BY <3>4, OrderFacts, Zenon
    <3> QED
      BY <3>2, <3>5, <3>6
  <2> HIDE DEF k
  <2>3. \A j \in Tasks : j # k => state'[j] = state[j]
    BY <2>1 DEF IInv, Types
  <2>4. \A u \in Threads : pc'[u] = "remove" =>
          pc[u] = "remove" /\ cur'[u] = cur[u] /\ cur[u] # k /\ cur[u] \in Tasks
    BY <2>1, <2>2 DEF IInv, Types, ReapInv, ThreadOK
  <2>5. \A u \in Threads : pc[u] = "append" => pc'[u] = "append" /\ cur'[u] = cur[u]
    BY <1>4, <2>1 DEF Fetch, At, IInv, Types
  <2> QED
    BY <2>1, <2>2, <2>3, <2>4, <2>5 DEF ReapInv
<1>5. ASSUME NEW p \in Pool, Finish(p) PROVE ReapInv'
  <2>1. /\ state' = [state EXCEPT ![cur[p]] = "done"] /\ UNCHANGED <<futures, cur>>
        /\ \A u \in Threads : /\ pc'[u] = "remove" => pc[u] = "remove"
                              /\ pc[u] = "append" => pc'[u] = "append"
    BY <1>5, MainIsThread DEF Finish, Enter, At, Goto, IInv, Types
  <2>2. \A u \in Threads : pc[u] = "remove" => cur[u] \in Tasks
    BY DEF IInv, ThreadOK
  <2> QED
    BY <2>1, <2>2 DEF ReapInv, IInv, Types
<1>6. CASE Terminated \/ UNCHANGED vars
  BY <1>0, <1>6 DEF Terminated, vars, threadVars, sharedVars
<1> QED
  BY <1>1, <1>2, <1>3, <1>4, <1>5, <1>6, MainIsThread DEF Next, PoolStep

\* Nobody notifies any more once a normal run flushes.
LEMMA SubmitKeepsFlush ==
  ASSUME IInv, FlushInv, SeenInv, NEW t \in Threads, NEW k \in Tasks, Submit(t, k)
  PROVE  FlushInv' /\ SeenInv'
<1>1. /\ ~flushing /\ UNCHANGED <<futures, flushing, seen, cur>>
      /\ pc' = [pc EXCEPT ![t] = "lock"]
      /\ \A u \in Threads : u # t => frames'[u] = frames[u]
  BY DEF Submit, FlushInv, sharedVars, Enter, Goto, IInv, Types
<1>2. \A u \in Threads : pc'[u] # "lock" => u # t /\ pc'[u] = pc[u]
  BY <1>1 DEF IInv, Types
<1>3. FlushInv'
  BY <1>1, <1>2, MainIsThread DEF FlushInv, Alone
<1>4. SeenInv'
  BY <1>1, <1>2, MainIsThread DEF SeenInv, IInv, Types
<1> QED
  BY <1>3, <1>4

\* A run that ends normally flushes when everything is submitted.
LEMMA FlushKeepsFlush ==
  ASSUME IInv, FlushInv, SeenInv, ~FlushEarly, Flush \/ FlushStep
  PROVE  FlushInv' /\ SeenInv'
<1> USE MainIsThread DEF IInv, Types, At, Goto, sharedVars, Enter, FlushInv, SeenInv, Alone, IsSubmitted
<1>1. CASE Flush
  <2>1. /\ flushing' = TRUE /\ \A k \in Tasks : IsSubmitted(k)
        /\ UNCHANGED <<submitted, futures, pending, seen, cur>>
        /\ pc' = [pc EXCEPT ![Main] = "lock"]
        /\ \A u \in Threads : u # Main => frames'[u] = frames[u]
    BY <1>1 DEF Flush
  <2> QED
    BY <2>1
<1>2. CASE Remaining
  <2>1. /\ UNCHANGED <<submitted, futures, pending, cur, flushing>> /\ flushing
        /\ \A u \in Threads : u # Main => frames'[u] = frames[u] /\ pc'[u] = pc[u] /\ seen'[u] = seen[u]
        /\ pc'[Main] = "lock" \/ (pc'[Main] = "wait" /\ pending = <<>>)
    <3>1. UNCHANGED <<submitted, futures, pending, cur, flushing>> /\ flushing
      BY <1>2 DEF Remaining
    <3>2. \A u \in Threads : u # Main => frames'[u] = frames[u]
      BY <1>2 DEF Remaining
    <3>3. \A u \in Threads : u # Main => pc'[u] = pc[u]
      BY <1>2 DEF Remaining
    <3>4. \A u \in Threads : u # Main => seen'[u] = seen[u]
      BY <1>2 DEF Remaining
    <3>5. pc'[Main] = "lock" \/ (pc'[Main] = "wait" /\ pending = <<>>)
      <4>1. \/ pc' = [pc EXCEPT ![Main] = "lock"]
            \/ pc' = [pc EXCEPT ![Main] = "wait"] /\ pending = <<>>
        BY <1>2, Zenon DEF Remaining, MustWait
      <4>2. pc \in [Threads -> Labels]
        OBVIOUS
      <4> HIDE DEF IInv, Types, FlushInv, SeenInv
      <4> QED
        BY <4>1, <4>2
    <3> QED
      BY <3>1, <3>2, <3>3, <3>4, <3>5
  <2> QED
    BY <2>1
<1>3. CASE WaitWorker
  <2>1. /\ UNCHANGED <<submitted, futures, pending, cur, flushing, frames>> /\ flushing
        /\ pending = <<>>
        /\ \A u \in Threads : u # Main => pc'[u] = pc[u] /\ seen'[u] = seen[u]
        /\ pc'[Main] = "reap" /\ seen'[Main] = futures
    BY <1>3 DEF WaitWorker
  <2> QED
    BY <2>1
<1>4. CASE JoinExceptions
  <2>1. /\ UNCHANGED <<submitted, futures, pending, cur, flushing, seen>> /\ flushing
        /\ pending = <<>>
        /\ \A u \in Threads : u # Main => pc'[u] = pc[u] /\ frames'[u] = frames[u]
        /\ pc'[Main] \in {"lock", "joined"} \/ (pc'[Main] = "flushed" /\ futures = {})
    <3>1. UNCHANGED <<submitted, futures, pending, cur, flushing, seen>> /\ flushing /\ pending = <<>>
      BY <1>4 DEF JoinExceptions
    <3>2. \A u \in Threads : u # Main => frames'[u] = frames[u]
      BY <1>4 DEF JoinExceptions
    <3>3. \A u \in Threads : u # Main => pc'[u] = pc[u]
      BY <1>4 DEF JoinExceptions
    <3>4. pc'[Main] \in {"lock", "joined"} \/ (pc'[Main] = "flushed" /\ futures = {})
      <4>1. \/ pc' = [pc EXCEPT ![Main] = "lock"] \/ pc' = [pc EXCEPT ![Main] = "joined"]
            \/ pc' = [pc EXCEPT ![Main] = "flushed"] /\ futures = {}
        BY <1>4, Zenon DEF JoinExceptions
      <4>2. pc \in [Threads -> Labels]
        OBVIOUS
      <4> HIDE DEF IInv, Types, FlushInv, SeenInv
      <4> QED
        BY <4>1, <4>2
    <3> QED
      BY <3>1, <3>2, <3>3, <3>4
  <2> QED
    BY <2>1
<1> QED
  BY <1>1, <1>2, <1>3, <1>4 DEF FlushStep

\* Done callbacks and the flush schedule and reap without disturbing each other.
LEMMA ScheduleKeepsFlush ==
  ASSUME IInv, FlushInv, SeenInv, NEW t \in Threads,
         \/ AcquireLock(t) \/ CheckPending(t) \/ Reap(t) \/ Remove(t) \/ HasIdleWorker(t)
         \/ GetPending(t) \/ SubmitToPool(t) \/ AppendFuture(t) \/ AddCallback(t)
  PROVE  FlushInv' /\ SeenInv'
<1> USE DEF IInv, Types, At, Goto, sharedVars, FlushInv, SeenInv, Alone, IsSubmitted
<1>1. CASE AcquireLock(t)
  <2>1. /\ UNCHANGED <<submitted, futures, pending, cur, flushing, seen, frames>>
        /\ \A u \in Threads : u # t => pc'[u] = pc[u]
        /\ pc'[t] = "empty"
    BY <1>1 DEF AcquireLock
  <2> QED
    BY <2>1, MainIsThread
<1>2. CASE CheckPending(t)
  <2>1. /\ UNCHANGED <<submitted, futures, pending, cur, flushing, frames>> /\ frames[t] # <<>>
        /\ \A u \in Threads : u # t => pc'[u] = pc[u] /\ seen'[u] = seen[u]
        /\ pc'[t] = "callbacks" \/ (pc'[t] = "reap" /\ seen'[t] = futures)
    <3>1. UNCHANGED <<submitted, futures, pending, cur, flushing, frames>> /\ frames[t] # <<>>
      BY <1>2 DEF CheckPending, ThreadOK
    <3>2. \A u \in Threads : u # t => pc'[u] = pc[u] /\ seen'[u] = seen[u]
      BY <1>2 DEF CheckPending
    <3>3. pc'[t] = "callbacks" \/ (pc'[t] = "reap" /\ seen'[t] = futures)
      <4>1. \/ pc' = [pc EXCEPT ![t] = "callbacks"]
            \/ pc' = [pc EXCEPT ![t] = "reap"] /\ seen' = [seen EXCEPT ![t] = futures]
        BY <1>2, Zenon DEF CheckPending
      <4>2. pc \in [Threads -> Labels] /\ seen \in [Threads -> SUBSET Tasks]
        OBVIOUS
      <4> HIDE DEF IInv, Types, FlushInv, SeenInv
      <4> QED
        BY <4>1, <4>2
    <3> QED
      BY <3>1, <3>2, <3>3
  <2> QED
    BY <2>1, MainIsThread
<1>3. CASE Reap(t)
  <2>1. /\ UNCHANGED <<submitted, futures, pending, flushing, frames>>
        /\ \A u \in Threads : u # t => pc'[u] = pc[u] /\ seen'[u] = seen[u] /\ cur'[u] = cur[u]
        /\ pc[t] = "reap" /\ seen[t] \subseteq futures
    BY <1>3 DEF Reap
  <2>2. \/ pc'[t] = "idle" /\ ~Alone(t)
        \/ pc'[t] = "join" /\ Alone(t)
        \/ pc'[t] = "reap" /\ seen'[t] \subseteq seen[t]
        \/ pc'[t] = "remove" /\ cur'[t] \in seen[t] /\ seen'[t] = seen[t] \ {cur'[t]}
    <3>1. pc[t] = "reap" /\ (lock = t <=> ~Alone(t))
      BY <1>3 DEF Reap, LockOK, InLock
    <3>2. CASE seen[t] = {} /\ Goto(t, IF lock = t THEN "idle" ELSE "join")
      BY <3>1, <3>2
    <3>3. ASSUME NEW k \in seen[t],
                 seen' = [seen EXCEPT ![t] = @ \ {k}],
                 IF state[k] = "done" THEN cur' = [cur EXCEPT ![t] = k] /\ Goto(t, "remove")
                                      ELSE UNCHANGED <<cur, pc>>
          PROVE  \/ pc'[t] = "reap" /\ seen'[t] \subseteq seen[t]
                 \/ pc'[t] = "remove" /\ cur'[t] \in seen[t] /\ seen'[t] = seen[t] \ {cur'[t]}
      BY <3>1, <3>3
    <3> QED
      BY <1>3, <3>2, <3>3 DEF Reap
  <2> QED
    BY <2>1, <2>2, MainIsThread, ZenonT(60)
<1>4. CASE Remove(t)
  <2>1. /\ pc[t] = "remove" /\ cur[t] \in futures /\ futures' = futures \ {cur[t]}
        /\ UNCHANGED <<submitted, pending, flushing, frames, seen, cur>>
        /\ pc'[t] = "reap" /\ \A u \in Threads : u # t => pc'[u] = pc[u]
    BY <1>4 DEF Remove
  <2>2. \A u \in Threads : u # t => pc[u] \notin {"reap", "remove"}
    BY <2>1, OneReaper
  <2>3. FlushInv'
    BY <2>1, MainIsThread, ZenonT(60)
  <2>4. SeenInv'
    <3> HIDE DEF IInv, Types, FlushInv
    <3> QED
      BY <2>1, <2>2
  <2> QED
    BY <2>3, <2>4
<1>5. CASE HasIdleWorker(t)
  <2>1. /\ UNCHANGED <<submitted, futures, pending, cur, flushing, seen, frames>>
        /\ \A u \in Threads : u # t => pc'[u] = pc[u]
        /\ pc'[t] \in {"take", "callbacks"}
    BY <1>5 DEF HasIdleWorker
  <2> QED
    BY <2>1, MainIsThread
<1>6. CASE GetPending(t)
  <2>1. /\ UNCHANGED <<submitted, futures, flushing, seen, frames>> /\ pc[t] = "take"
        /\ \A u \in Threads : u # t => pc'[u] = pc[u] /\ cur'[u] = cur[u]
        /\ pc'[t] = "submit"
    BY <1>6 DEF GetPending
  <2>2. pending # <<>>
    BY <2>1, NothingToTake
  <2> QED
    BY <2>1, <2>2, MainIsThread, ZenonT(60)
<1>8. CASE SubmitToPool(t)
  <2>1. /\ UNCHANGED <<submitted, futures, pending, cur, flushing, seen, frames>>
        /\ \A u \in Threads : u # t => pc'[u] = pc[u]
        /\ pc'[t] = "append"
    BY <1>8 DEF SubmitToPool
  <2> QED
    BY <2>1, MainIsThread
<1>9. CASE AppendFuture(t)
  <2>1. /\ futures \subseteq futures'
        /\ UNCHANGED <<submitted, pending, cur, flushing, seen>>
        /\ \A u \in Threads : u # t => pc'[u] = pc[u] /\ frames'[u] = frames[u]
        /\ pc'[t] = "empty"
    BY <1>9 DEF AppendFuture
  <2>2. FlushInv'
    BY <2>1, MainIsThread, ZenonT(60)
  <2>3. SeenInv'
    <3> HIDE DEF IInv, Types, FlushInv
    <3> QED
      BY <2>1
  <2> QED
    BY <2>2, <2>3
<1>7. CASE AddCallback(t)
  <2>1. /\ UNCHANGED <<submitted, futures, pending, cur, flushing, seen>>
        /\ \A u \in Threads : u # t => pc'[u] = pc[u] /\ frames'[u] = frames[u]
        /\ \/ pc'[t] \in {"callbacks", "lock", "fetch", "call"}
           \/ pc'[t] = "remaining" /\ t = Main /\ flushing
    BY <1>7, ZenonT(60) DEF AddCallback, AfterReturn
  <2> QED
    BY <2>1, MainIsThread
<1> QED
  BY <1>1, <1>2, <1>3, <1>4, <1>5, <1>6, <1>7, <1>8, <1>9

\* The threads of the executor only run the tasks.
LEMMA PoolKeepsFlush ==
  ASSUME IInv, FlushInv, SeenInv, NEW p \in Pool, Fetch(p) \/ Finish(p)
  PROVE  FlushInv' /\ SeenInv'
<1>1. /\ UNCHANGED <<submitted, futures, pending, flushing, seen>>
      /\ \A u \in Threads : u # p => pc'[u] = pc[u] /\ frames'[u] = frames[u] /\ cur'[u] = cur[u]
      /\ pc'[p] \in {"run", "lock", "fetch"} /\ p \in Threads /\ p # Main
  BY MainIsThread, ThreadAssumption DEF Fetch, Finish, Enter, Goto, IInv, Types
<1> QED
  BY <1>1, MainIsThread DEF FlushInv, SeenInv, Alone, IsSubmitted

\* Every step keeps the promises of the flush.
LEMMA NextKeepsFlush ==
  ~FlushEarly /\ IInv /\ FlushInv /\ SeenInv /\ [Next]_vars => FlushInv' /\ SeenInv'
<1> SUFFICES ASSUME ~FlushEarly, IInv, FlushInv, SeenInv, [Next]_vars PROVE FlushInv' /\ SeenInv'
  OBVIOUS
<1>1. ASSUME NEW t \in Threads, ThreadStep(t) PROVE FlushInv' /\ SeenInv'
  BY <1>1, SubmitKeepsFlush, ScheduleKeepsFlush DEF ThreadStep
<1>2. CASE Flush \/ FlushStep
  BY <1>2, FlushKeepsFlush
<1>3. ASSUME NEW p \in Pool, Fetch(p) \/ Finish(p) PROVE FlushInv' /\ SeenInv'
  BY <1>3, PoolKeepsFlush
<1>4. CASE Terminated \/ UNCHANGED vars
  BY <1>4 DEF Terminated, vars, threadVars, sharedVars, FlushInv, SeenInv, Alone, IsSubmitted
<1> QED
  BY <1>1, <1>2, <1>3, <1>4, MainIsThread DEF Next, PoolStep

\* Nobody reaps, and nothing is flushed, at first.
LEMMA InitFlush == Init => ReapInv /\ FlushInv /\ SeenInv
<1> SUFFICES ASSUME Init PROVE ReapInv /\ FlushInv /\ SeenInv
  OBVIOUS
<1>1. /\ \A t \in Threads : pc[t] \in {"fetch", "call"}
      /\ \A k \in Tasks : state[k] = "new"
      /\ flushing = FALSE
  BY DEF Init
<1> QED
  BY <1>1, MainIsThread DEF ReapInv, FlushInv, SeenInv, Alone

\* The promises hold in every state of a run that ends normally.
LEMMA FlushInvariance ==
  ASSUME ~FlushEarly
  PROVE  Spec => [](IInv /\ OrderInv /\ ReapInv /\ FlushInv /\ SeenInv)
<1>1. /\ IInv /\ OrderInv /\ ReapInv /\ FlushInv /\ SeenInv
      /\ [Next]_vars
      => ReapInv' /\ FlushInv' /\ SeenInv'
  BY NextKeepsFutures, NextKeepsFlush
<1> QED
  BY <1>1, InitFlush, Inductive, OrderInvariance, PTL DEF Spec

\* In a run that ends normally each future is removed once, by the thread that saw it: the
\* main thread, which reaps without the lock, and the done callbacks never meet.
THEOREM Reaped ==
  ASSUME ~FlushEarly
  PROVE  Spec => []ReapedOnce
<1>1. SeenInv => ReapedOnce
  BY DEF SeenInv, ReapedOnce, At
<1> QED
  BY <1>1, FlushInvariance, PTL

\* What is done stays done.
LEMMA DoneStays ==
  ASSUME IInv, OrderInv, [Next]_vars, NEW k \in Tasks, state[k] = "done"
  PROVE  state'[k] = "done"
<1>1. ASSUME NEW t \in Threads, ThreadStep(t) PROVE state'[k] = "done"
  <2>1. CASE SubmitToPool(t)
    <3>1. pc[t] = "submit" /\ state' = [state EXCEPT ![cur[t]] = "queued"]
      BY <2>1 DEF SubmitToPool, At
    <3>2. state[cur[t]] = "new"
      <4>1. Held = 1 /\ InHand(t)
        BY <3>1 DEF Held, InHand
      <4>2. /\ Handed \in Nat /\ Len(queue) \in Nat /\ Len(submitted) \in Nat /\ Len(pending) \in Nat
            /\ Handed + Len(queue) + Held = Taken /\ Taken + Len(pending) = Len(submitted)
            /\ Taken \in Nat /\ Taken > 0 /\ cur[t] = submitted[Taken]
        BY <4>1, OrderFacts, Zenon
      <4>3. Taken \in 1..Len(submitted) /\ Taken > Handed + Len(queue)
        BY <4>1, <4>2
      <4>4. state[submitted[Taken]] = "new"
        BY <4>3, OrderFacts, Zenon
      <4> QED
        BY <4>2, <4>4
    <3> QED
      BY <3>1, <3>2 DEF IInv, Types
  <2>2. CASE ~SubmitToPool(t)
    <3>1. UNCHANGED state
      BY <1>1, <2>2 DEF ThreadStep, Submit, AcquireLock, CheckPending, Reap, Remove, HasIdleWorker,
         GetPending, AppendFuture, AddCallback, sharedVars
    <3> QED
      BY <3>1
  <2> QED
    BY <2>1, <2>2
<1>2. CASE Flush \/ FlushStep \/ Terminated \/ UNCHANGED vars
  BY <1>2 DEF Flush, FlushStep, Remaining, WaitWorker, JoinExceptions, Terminated, vars, sharedVars
<1>3. ASSUME NEW p \in Pool, Fetch(p) PROVE state'[k] = "done"
  <2>1. queue # <<>> /\ queue \in Seq(Tasks) /\ state' = [state EXCEPT ![Head(queue)] = "running"]
    BY <1>3 DEF Fetch, IInv, Types
  <2>2. Head(queue) = queue[1] /\ Len(queue) \in Nat /\ Len(queue) > 0
    <3>1. Len(queue) # 0
      BY <2>1, EmptyFact
    <3> QED
      BY <2>1, <3>1
  <2>3. /\ Handed \in Nat /\ Len(pending) \in Nat /\ Len(submitted) \in Nat /\ Taken \in Nat
        /\ Held \in 0..1 /\ Handed + Len(queue) + Held = Taken
        /\ Taken + Len(pending) = Len(submitted)
    BY OrderFacts, Zenon
  <2>4. /\ 1 \in 1..Len(queue) /\ Handed + 1 \in 1..Len(submitted)
        /\ Handed + 1 > Handed /\ Handed + 1 <= Handed + Len(queue)
    BY <2>2, <2>3
  <2>5. queue[1] = submitted[Handed + 1]
    BY <2>4, OrderFacts, Zenon
  <2>6. state[submitted[Handed + 1]] = "queued"
    BY <2>4, OrderFacts, Zenon
  <2> QED
    BY <2>1, <2>2, <2>5, <2>6 DEF IInv, Types
<1>4. ASSUME NEW p \in Pool, Finish(p) PROVE state'[k] = "done"
  BY <1>4 DEF Finish, IInv, Types
<1> QED
  BY <1>1, <1>2, <1>3, <1>4, MainIsThread DEF Next, PoolStep

\* When the flush finds nothing pending and no future, every task was taken, and all that
\* may be missing is the task in hand, the last one taken.
LEMMA FlushEnds ==
  ASSUME IInv, OrderInv, ReapInv, pending = <<>>, futures = {},
         NEW i \in DOMAIN submitted, i < Len(submitted)
  PROVE  state[submitted[i]] = "done"
<1>1. i \in 1..Len(submitted) /\ submitted[i] \in Tasks
  BY DEF IInv, Types
<1>2. Len(pending) = 0
  OBVIOUS
<1>3. /\ Handed \in Nat /\ Len(queue) \in Nat /\ Len(submitted) \in Nat /\ Taken \in Nat
      /\ Held \in 0..1 /\ Handed + Len(queue) + Held = Taken /\ Taken + Len(pending) = Len(submitted)
      /\ i <= Handed => state[submitted[i]] \in {"running", "done"}
      /\ i > Handed /\ i <= Handed + Len(queue) => state[submitted[i]] = "queued"
      /\ \A x, y \in 1..Len(submitted) : submitted[x] = submitted[y] => x = y
      /\ \A t \in Threads : InHand(t) => Taken > 0 /\ cur[t] = submitted[Taken]
  BY <1>1, OrderFacts, Zenon
<1>4. Taken = Len(submitted) /\ Len(submitted) \in 1..Len(submitted) /\ i <= Handed + Len(queue)
  BY <1>1, <1>2, <1>3
<1>5. state[submitted[i]] \in {"queued", "running", "done"}
  BY <1>1, <1>3, <1>4
<1>6. ASSUME NEW t \in Threads, pc[t] = "append", cur[t] = submitted[i] PROVE FALSE
  <2>1. cur[t] = submitted[Taken]
    BY <1>3, <1>6 DEF InHand
  <2>2. i = Len(submitted)
    BY <1>1, <1>3, <1>4, <1>6, <2>1
  <2> QED
    BY <1>1, <2>2
<1> QED
  BY <1>1, <1>5, <1>6 DEF ReapInv

\* Every step of a run that ends normally keeps what the flush promises.
LEMMA NextKeepsMissed ==
  ~FlushEarly /\ IInv /\ OrderInv /\ ReapInv /\ FlushInv /\ FlushMissesOnlyLast /\ [Next]_vars
  => FlushMissesOnlyLast'
<1> SUFFICES ASSUME IInv, OrderInv, ReapInv, FlushInv, FlushMissesOnlyLast, [Next]_vars,
                    pc'[Main] = "flushed"
             PROVE  \A i \in DOMAIN submitted' :
                      i < Len(submitted') => state'[submitted'[i]] = "done"
  BY DEF FlushMissesOnlyLast, At
<1>1. CASE pc[Main] = "flushed"
  <2>1. flushing /\ \A k \in Tasks : IsSubmitted(k)
    BY <1>1, MainIsThread DEF FlushInv
  <2>2. UNCHANGED submitted
    BY <2>1 DEF Next, ThreadStep, PoolStep, FlushStep, Terminated, vars, sharedVars, Submit, AcquireLock,
       CheckPending, Reap, Remove, HasIdleWorker, GetPending, SubmitToPool, AppendFuture, AddCallback,
       Flush, Remaining, WaitWorker, JoinExceptions, Fetch, Finish
  <2>3. \A i \in DOMAIN submitted : submitted[i] \in Tasks
    BY DEF IInv, Types
  <2> QED
    BY <1>1, <2>2, <2>3, DoneStays DEF FlushMissesOnlyLast, At
<1>2. CASE pc[Main] # "flushed"
  <2>1. JoinExceptions /\ futures = {} /\ pending = <<>>
    <3>1. ASSUME NEW t \in Threads, ThreadStep(t) PROVE FALSE
      <4>1. pc'[t] # "flushed" /\ \A u \in Threads : u # t => pc'[u] = pc[u]
        BY <3>1 DEF ThreadStep, Submit, AcquireLock, CheckPending, Reap, Remove, HasIdleWorker,
           GetPending, SubmitToPool, AppendFuture, AddCallback, AfterReturn, Enter, Goto, At, IInv, Types
      <4> QED
        BY <1>2, <4>1, MainIsThread
    <3>2. ASSUME NEW p \in Pool, Fetch(p) \/ Finish(p) PROVE FALSE
      <4>1. p # Main /\ \A u \in Threads : u # p => pc'[u] = pc[u]
        BY <3>2, ThreadAssumption DEF Fetch, Finish, Enter, Goto, IInv, Types
      <4> QED
        BY <1>2, <4>1, MainIsThread
    <3>3. ~Flush /\ ~Remaining /\ ~WaitWorker
      BY MainIsThread DEF Flush, Remaining, WaitWorker, Enter, Goto, IInv, Types
    <3>4. ~Terminated /\ ~UNCHANGED vars
      BY <1>2 DEF Terminated, vars, threadVars
    <3>5. JoinExceptions
      BY <3>1, <3>2, <3>3, <3>4, MainIsThread DEF Next, FlushStep, PoolStep
    <3>6. \/ pc' = [pc EXCEPT ![Main] = "lock"] \/ pc' = [pc EXCEPT ![Main] = "joined"]
          \/ futures = {}
      BY <3>5, Zenon DEF JoinExceptions, Enter, Goto
    <3>7. futures = {}
      BY <3>6, MainIsThread DEF IInv, Types
    <3>8. pending = <<>>
      BY <3>5 DEF JoinExceptions, At, FlushInv
    <3> QED
      BY <3>5, <3>7, <3>8
  <2>2. UNCHANGED <<submitted, state>>
    BY <2>1 DEF JoinExceptions
  <2> QED
    BY <2>1, <2>2, FlushEnds
<1> QED
  BY <1>1, <1>2

\* In a run that ends normally, when flush_notifications returns every message but possibly
\* the last one submitted has been processed: the flush misses at most the task that a done
\* callback has taken and not yet appended.
THEOREM FlushAlmostComplete ==
  ASSUME ~FlushEarly
  PROVE  Spec => []FlushMissesOnlyLast
<1>1. Init => FlushMissesOnlyLast
  BY MainIsThread, ThreadAssumption DEF Init, FlushMissesOnlyLast, At
<1> QED
  BY <1>1, FlushInvariance, NextKeepsMissed, PTL DEF Spec

\* An exception of the flush is one that a message raised: _futures.remove never fails in
\* it, and join_exceptions joins what a task stored.
FlushRaisesOnlyFailures == ~At(Main, "broken") /\ (At(Main, "joined") => raised # {})

\* The exceptions to join come from messages that raised.
StoredInv == stored \subseteq raised /\ (At(Main, "joined") => raised # {})

\* Every step stores or joins only such exceptions.
LEMMA NextKeepsStored == IInv /\ StoredInv /\ [Next]_vars => StoredInv'
<1> SUFFICES ASSUME IInv, StoredInv, [Next]_vars PROVE StoredInv'
  OBVIOUS
<1>1. ASSUME NEW t \in Threads, ThreadStep(t) PROVE StoredInv'
  <2>1. UNCHANGED raised /\ stored' \subseteq stored \cup raised
    BY <1>1 DEF ThreadStep, Submit, AcquireLock, CheckPending, Reap, Remove, HasIdleWorker,
       GetPending, SubmitToPool, AppendFuture, AddCallback, sharedVars
  <2>2. pc'[Main] = "joined" => pc[Main] = "joined"
    <3>1. pc'[t] # "joined" /\ \A u \in Threads : u # t => pc'[u] = pc[u]
      BY <1>1 DEF ThreadStep, Submit, AcquireLock, CheckPending, Reap, Remove, HasIdleWorker,
         GetPending, SubmitToPool, AppendFuture, AddCallback, AfterReturn, Enter, Goto, At, IInv, Types
    <3> QED
      BY <3>1, MainIsThread
  <2> QED
    BY <2>1, <2>2 DEF StoredInv, At
<1>2. CASE JoinExceptions
  BY <1>2, MainIsThread DEF JoinExceptions, Enter, Goto, At, StoredInv, IInv, Types
<1>3. CASE Flush \/ Remaining \/ WaitWorker
  BY <1>3, MainIsThread DEF Flush, Remaining, WaitWorker, Enter, Goto, At, StoredInv, sharedVars, IInv, Types
<1>4. ASSUME NEW p \in Pool, Fetch(p) \/ Finish(p) PROVE StoredInv'
  <2>1. UNCHANGED stored /\ raised \subseteq raised' /\ pc'[Main] = pc[Main]
    BY <1>4, MainIsThread, ThreadAssumption DEF Fetch, Finish, Enter, Goto, IInv, Types
  <2> QED
    BY <2>1 DEF StoredInv, At
<1>5. CASE Terminated \/ UNCHANGED vars
  BY <1>5 DEF Terminated, vars, sharedVars, threadVars, StoredInv, At
<1> QED
  BY <1>1, <1>2, <1>3, <1>4, <1>5, MainIsThread DEF Next, FlushStep, PoolStep

\* In a run that ends normally flush_notifications raises nothing but the exception of a
\* message that failed; the double removal that an aborted run may meet cannot happen.
THEOREM FlushRaisesFailures ==
  ASSUME ~FlushEarly
  PROVE  Spec => []FlushRaisesOnlyFailures
<1>1. Init => StoredInv
  BY MainIsThread, ThreadAssumption DEF Init, StoredInv, At
<1>2. Spec => []StoredInv
  BY <1>1, NextKeepsStored, Inductive, PTL DEF Spec
<1>3. SeenInv /\ StoredInv => FlushRaisesOnlyFailures
  BY MainIsThread DEF SeenInv, StoredInv, FlushRaisesOnlyFailures, At
<1> QED
  BY <1>2, <1>3, FlushInvariance, PTL
=============================================================================
