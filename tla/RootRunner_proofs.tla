--------------------------- MODULE RootRunner_proofs ---------------------------
(***************************************************************************)
(* Theorems about RootRunner, for any runbook, number of runners and       *)
(* tasks, concurrency, grid and repository.  Of the depth first sort they  *)
(* use only that it lists transformers (SortAssumption); that it lists     *)
(* each of them once is a recursive fold, which TLC checks.                *)
(***************************************************************************)
EXTENDS RootRunner, FiniteSetTheorems, SequenceTheorems, WellFoundedInduction, TLAPS

Runner == [combination : Nat, fetch : Nat, running : SUBSET Nat, crashed : BOOLEAN, closed : Nat,
           raised : Nat]

\* A sequence of whatever.
IsSeq(s) == \E S : s \in Seq(S)

Types ==
  /\ kind \in Kinds /\ types \in Seq(DOMAIN TaskCount) /\ concurrency \in Nat \ {0}
  /\ left \in Seq(DOMAIN TaskCount)
  /\ runners \in Seq(Runner)
  /\ remaining \in Seq(Nat) /\ scan \in Seq(Nat)
  /\ IsSeq(fetched) /\ IsSeq(messages)

\* The runners of the loop are the active ones, each once; the for loop has still to visit
\* active ones, each once.
LoopInv ==
  /\ active \subseteq DOMAIN runners
  /\ \A i, j \in DOMAIN remaining : remaining[i] = remaining[j] => i = j
  /\ \A i \in DOMAIN remaining : remaining[i] \in active
  /\ \A r \in active : \E i \in DOMAIN remaining : remaining[i] = r
  /\ pc = "submit" => /\ \A i, j \in DOMAIN scan : scan[i] = scan[j] => i = j
                      /\ \A i \in DOMAIN scan : scan[i] \in active

\* The loop forgets a runner only when it is done, and closes it then.  One whose close has
\* raised has ended the loop.
CloseInv ==
  \A r \in DOMAIN runners :
    /\ r \notin active => IsDone(r)
    /\ pc \notin {"flush", "done"} => runners[r].closed = IF r \in active THEN 0 ELSE 1
    /\ runners[r].closed <= 1
    /\ pc \in {"flush", "done"} /\ error # "close" => runners[r].closed = 1
    /\ pc \notin {"cleanup", "flush", "done"} => runners[r].raised = 0
    /\ pc = "cleanup" /\ runners[r].raised # 0 => error = "closing"
    /\ runners[r].closed + runners[r].raised > 1 => error \in {"closing", "close"}

\* Without an error the loop ends only when no runner is left and none will come.
EndInv == pc \in {"cleanup", "flush", "done"} /\ error = "None" => active = {} /\ ~more

\* The runners of a combination are created one by one, all of them before the next.
CountInv ==
  /\ more <=> gen # "ended"
  /\ gen = "begin" => Len(fetched) = 0
  /\ gen = "told" => kind = "git_bisect"
  /\ gen \in {"begin", "fetch", "told", "ended"} => Len(runners) = Len(fetched) * Len(types)
  /\ gen = "expanded" => Len(fetched) > 0 /\ Len(runners) + Len(types) = Len(fetched) * Len(types)
  /\ gen = "runners" => Len(fetched) > 0 /\ Len(runners) + Len(left) = Len(fetched) * Len(types)

\* A task that ended and is not reaped has left its worker.
WorkInv ==
  /\ IsFiniteSet(Running) /\ Cardinality(Running) <= concurrency
  /\ reapable => Cardinality(Running) < concurrency

LInv == Types /\ LoopInv /\ CloseInv /\ EndInv /\ CountInv /\ WorkInv

-----------------------------------------------------------------------------
(* Facts about sequences *)

\* A sequence and its length.
LEMMA SeqFact ==
  ASSUME NEW S, NEW s \in Seq(S)
  PROVE  /\ Len(s) \in Nat /\ DOMAIN s = 1..Len(s) /\ (s = <<>> <=> Len(s) = 0)
         /\ \A i \in 1..Len(s) : s[i] \in S
  OBVIOUS

\* One more element.
LEMMA AppendFact ==
  ASSUME NEW S, NEW s \in Seq(S), NEW x \in S
  PROVE  /\ Append(s, x) \in Seq(S) /\ Len(Append(s, x)) = Len(s) + 1
         /\ Append(s, x)[Len(s) + 1] = x
         /\ \A i \in 1..Len(s) : Append(s, x)[i] = s[i]
  OBVIOUS

\* One more element, whatever it is.
LEMMA AppendAny ==
  ASSUME NEW s, NEW x, IsSeq(s)
  PROVE  /\ IsSeq(Append(s, x)) /\ Len(s) \in Nat /\ Len(Append(s, x)) = Len(s) + 1
         /\ Append(s, x)[Len(s) + 1] = x
         /\ \A i \in 1..Len(s) : Append(s, x)[i] = s[i]
         /\ DOMAIN s = 1..Len(s) /\ DOMAIN Append(s, x) = 1..(Len(s) + 1)
<1>1. PICK S : s \in Seq(S)
  BY DEF IsSeq
<1>2. s \in Seq(S \cup {x})
  BY <1>1
<1>3. /\ Append(s, x) \in Seq(S \cup {x}) /\ Len(Append(s, x)) = Len(s) + 1
      /\ Append(s, x)[Len(s) + 1] = x
      /\ \A i \in 1..Len(s) : Append(s, x)[i] = s[i]
  BY <1>2, AppendFact
<1>4. /\ Len(s) \in Nat /\ DOMAIN s = 1..Len(s)
      /\ DOMAIN Append(s, x) = 1..Len(Append(s, x))
  BY <1>2, <1>3, SeqFact
<1> QED
  BY <1>3, <1>4 DEF IsSeq

\* The rest of a sequence.
LEMMA TailFact ==
  ASSUME NEW S, NEW s \in Seq(S), s # <<>>
  PROVE  /\ Tail(s) \in Seq(S) /\ Len(Tail(s)) = Len(s) - 1 /\ Len(s) > 0
         /\ Head(s) = s[1] /\ Head(s) \in S
         /\ \A i \in 1..(Len(s) - 1) : Tail(s)[i] = s[i + 1]
<1>1. Len(s) \in Nat /\ Len(s) # 0
  BY SeqFact
<1>2. Len(s) > 0
  BY <1>1
<1> QED
  BY <1>2

\* list.remove of an element of a list without duplicates.
LEMMA WithoutFact ==
  ASSUME NEW S, NEW s \in Seq(S), NEW r,
         \A i, j \in DOMAIN s : s[i] = s[j] => i = j,
         \E i \in DOMAIN s : s[i] = r
  PROVE  /\ Without(s, r) \in Seq(S)
         /\ \A i, j \in DOMAIN Without(s, r) : Without(s, r)[i] = Without(s, r)[j] => i = j
         /\ \A x : (\E i \in DOMAIN Without(s, r) : Without(s, r)[i] = x)
                   <=> x # r /\ \E i \in DOMAIN s : s[i] = x
<1> DEFINE p == CHOOSE i \in DOMAIN s : s[i] = r
           n == Len(s)
           w == Without(s, r)
<1>1. p \in DOMAIN s /\ s[p] = r
  OBVIOUS
<1>2. n \in Nat /\ DOMAIN s = 1..n /\ p \in 1..n
  BY <1>1, SeqFact
<1>3. w = SubSeq(s, 1, p - 1) \o SubSeq(s, p + 1, n)
  BY DEF Without, RemoveAt
<1> HIDE DEF p, w, n
<1> DEFINE a == SubSeq(s, 1, p - 1)
           b == SubSeq(s, p + 1, n)
<1>4. a \in Seq(S) /\ Len(a) = p - 1 /\ \A i \in 1..(p - 1) : a[i] = s[i]
  <2>1. p - 1 \in Int /\ 1 \in Int /\ \A i \in 1..(p - 1) : s[i] \in S
    BY <1>2, SeqFact DEF n
  <2>2. /\ a \in Seq(S) /\ Len(a) = IF 1 <= p - 1 THEN (p - 1) - 1 + 1 ELSE 0
        /\ \A i \in 1..((p - 1) - 1 + 1) : a[i] = s[1 + i - 1]
    BY <2>1, SubSeqProperties
  <2> HIDE DEF a
  <2>3. (p - 1) - 1 + 1 = p - 1 /\ \A i \in 1..(p - 1) : 1 + i - 1 = i
    BY <1>2
  <2> QED
    BY <1>2, <2>2, <2>3
<1>5. b \in Seq(S) /\ Len(b) = n - p /\ \A i \in 1..(n - p) : b[i] = s[p + i]
  <2>1. p + 1 \in Int /\ n \in Int /\ \A i \in (p + 1)..n : s[i] \in S
    BY <1>2, SeqFact DEF n
  <2>2. /\ b \in Seq(S) /\ Len(b) = IF p + 1 <= n THEN n - (p + 1) + 1 ELSE 0
        /\ \A i \in 1..(n - (p + 1) + 1) : b[i] = s[(p + 1) + i - 1]
    BY <2>1, SubSeqProperties
  <2> HIDE DEF b
  <2>3. n - (p + 1) + 1 = n - p /\ \A i \in 1..(n - p) : (p + 1) + i - 1 = p + i
    BY <1>2
  <2> QED
    BY <1>2, <2>2, <2>3
<1>w. w = a \o b
  BY <1>3
<1> HIDE DEF a, b
<1>c. /\ w \in Seq(S) /\ Len(w) = Len(a) + Len(b)
      /\ \A i \in 1..(Len(a) + Len(b)) : w[i] = IF i <= Len(a) THEN a[i] ELSE b[i - Len(a)]
  BY <1>4, <1>5, <1>w, ConcatProperties
<1>6. w \in Seq(S) /\ Len(w) = n - 1 /\ DOMAIN w = 1..(n - 1)
  <2>1. Len(w) = n - 1
    BY <1>2, <1>4, <1>5, <1>c
  <2> QED
    BY <1>c, <2>1, SeqFact
<1>7. ASSUME NEW i \in 1..(n - 1) PROVE w[i] = IF i < p THEN s[i] ELSE s[i + 1]
  <2>1. w[i] = IF i <= p - 1 THEN a[i] ELSE b[i - (p - 1)]
    BY <1>2, <1>4, <1>5, <1>c
  <2>2. CASE i < p
    <3>1. i <= p - 1 /\ i \in 1..(p - 1)
      BY <1>2, <2>2
    <3> QED
      BY <1>4, <2>1, <2>2, <3>1
  <2>3. CASE ~(i < p)
    <3>1. ~(i <= p - 1) /\ i - (p - 1) \in 1..(n - p) /\ p + (i - (p - 1)) = i + 1
      BY <1>2, <2>3
    <3> QED
      BY <1>5, <2>1, <2>3, <3>1
  <2> QED
    BY <2>2, <2>3
<1>8. ASSUME NEW i \in 1..(n - 1), NEW j \in 1..(n - 1), w[i] = w[j] PROVE i = j
  <2> DEFINE at(k) == IF k < p THEN k ELSE k + 1
  <2>1. at(i) \in 1..n /\ at(j) \in 1..n /\ w[i] = s[at(i)] /\ w[j] = s[at(j)]
    BY <1>2, <1>7
  <2>2. at(i) = at(j)
    BY <1>2, <1>8, <2>1
  <2> QED
    BY <1>2, <2>2
<1>9. ASSUME NEW x, NEW i \in 1..(n - 1), w[i] = x PROVE x # r /\ \E j \in 1..n : s[j] = x
  <2> DEFINE at == IF i < p THEN i ELSE i + 1
  <2>1. at \in 1..n /\ at # p /\ s[at] = x
    BY <1>2, <1>7, <1>9
  <2> QED
    BY <1>1, <1>2, <2>1
<1>10. ASSUME NEW x, x # r, NEW j \in 1..n, s[j] = x PROVE \E i \in 1..(n - 1) : w[i] = x
  <2>1. j # p
    BY <1>1, <1>10
  <2>2. CASE j < p
    <3>1. j \in 1..(n - 1) /\ w[j] = x
      BY <1>2, <1>7, <1>10, <2>2
    <3> QED
      BY <3>1
  <2>3. CASE j > p
    <3>1. j - 1 \in 1..(n - 1) /\ ~(j - 1 < p) /\ (j - 1) + 1 = j
      BY <1>2, <2>3
    <3>2. w[j - 1] = x
      BY <1>7, <1>10, <3>1
    <3> QED
      BY <3>1, <3>2
  <2> QED
    BY <1>2, <2>1, <2>2, <2>3
<1> QED
  BY <1>2, <1>6, <1>8, <1>9, <1>10 DEF w

-----------------------------------------------------------------------------
(* Steps that leave the runners alone *)

\* What such a step does to the loop.
Quiet ==
  /\ UNCHANGED <<runbook, runners, active, remaining>>
  /\ scan' \in Seq(Nat) /\ left' \in Seq(DOMAIN TaskCount)
  /\ IsSeq(fetched') /\ IsSeq(messages')
  /\ reapable' => reapable
  /\ pc' = "submit" => scan' = remaining \/ (pc = "submit" /\ scan' = scan)
  /\ pc' \in {"flush", "done"} <=> pc \in {"flush", "done"}
  /\ pc = "cleanup" => error' = error /\ pc' = pc
  /\ pc \in {"flush", "done"} => error' = error \/ (error = "None" /\ error' = "notify")
  /\ pc' \in {"cleanup", "flush", "done"} /\ error' = "None" =>
       \/ pc \in {"cleanup", "flush", "done"} /\ error = "None" /\ UNCHANGED more
       \/ remaining = <<>> /\ ~more'

\* It keeps what depends on the runners.
LEMMA QuietKeeps ==
  ASSUME LInv, Quiet
  PROVE  Types' /\ LoopInv' /\ CloseInv' /\ EndInv' /\ WorkInv'
<1>1. Types'
  BY DEF LInv, Types, Quiet, runbook
<1>2. LoopInv'
  BY DEF LInv, LoopInv, Quiet
<1>3. CloseInv'
  <2>1. \A r \in DOMAIN runners : IsDone(r)' <=> IsDone(r)
    BY DEF IsDone, Quiet
  <2>2. UNCHANGED <<runners, active>>
    BY DEF Quiet
  <2>3. ASSUME NEW r \in DOMAIN runners
        PROVE  /\ pc' \notin {"flush", "done"} => runners[r].closed = IF r \in active THEN 0 ELSE 1
               /\ pc' \in {"flush", "done"} /\ error' # "close" => runners[r].closed = 1
    <3>1. /\ pc \notin {"flush", "done"} => runners[r].closed = IF r \in active THEN 0 ELSE 1
          /\ pc \in {"flush", "done"} /\ error # "close" => runners[r].closed = 1
      BY DEF LInv, CloseInv
    <3>2. /\ pc' \in {"flush", "done"} <=> pc \in {"flush", "done"}
          /\ pc \in {"flush", "done"} => error' = error \/ (error = "None" /\ error' = "notify")
      BY DEF Quiet
    <3> QED
      BY <3>1, <3>2
  <2>4. ASSUME NEW r \in DOMAIN runners
        PROVE  /\ pc' \notin {"cleanup", "flush", "done"} => runners[r].raised = 0
               /\ pc' = "cleanup" /\ runners[r].raised # 0 => error' = "closing"
               /\ runners[r].closed + runners[r].raised > 1 => error' \in {"closing", "close"}
    <3>1. /\ pc \notin {"cleanup", "flush", "done"} => runners[r].raised = 0
          /\ pc = "cleanup" /\ runners[r].raised # 0 => error = "closing"
          /\ runners[r].closed + runners[r].raised > 1 => error \in {"closing", "close"}
          /\ runners[r].closed <= 1
      BY DEF LInv, CloseInv
    <3>t. runners[r].closed \in Nat /\ runners[r].raised \in Nat
      <4>1. runners[r] \in Runner
        BY SeqFact DEF LInv, Types
      <4> QED
        BY <4>1 DEF Runner
    <3>2. CASE pc \notin {"cleanup", "flush", "done"}
      <4>1. runners[r].raised = 0 /\ ~(runners[r].closed + runners[r].raised > 1)
        BY <3>1, <3>t, <3>2
      <4> QED
        BY <4>1
    <3>3. CASE pc = "cleanup"
      BY <3>1, <3>3 DEF Quiet
    <3>4. CASE pc \in {"flush", "done"}
      BY <3>1, <3>4 DEF Quiet
    <3> QED
      BY <3>2, <3>3, <3>4
  <2>5. \A r \in DOMAIN runners : (r \notin active => IsDone(r)) /\ runners[r].closed <= 1
    BY DEF LInv, CloseInv
  <2> QED
    BY <2>1, <2>2, <2>3, <2>4, <2>5 DEF CloseInv
<1>4. EndInv'
  <2>1. ASSUME remaining = <<>> PROVE active = {}
    BY <2>1 DEF LInv, LoopInv
  <2> QED
    BY <2>1 DEF LInv, EndInv, Quiet
<1>5. WorkInv'
  <2>1. Running' = Running
    BY DEF Running, Quiet
  <2> QED
    BY <2>1 DEF LInv, WorkInv, Quiet, runbook
<1> QED
  BY <1>1, <1>2, <1>3, <1>4, <1>5

\* A step that creates no runner and leaves _fetch_runners alone.
LEMMA CountKept ==
  ASSUME CountInv, UNCHANGED <<runbook, gen, more, fetched, left>>, Len(runners') = Len(runners)
  PROVE  CountInv'
  BY DEF CountInv, runbook

\* The variables of the combinators, of the main loop, and the types.
LEMMA Unpacked ==
  /\ UNCHANGED combinator => UNCHANGED <<kind, types, concurrency, indexes, index, good, bad, result, early>>
  /\ UNCHANGED loop => UNCHANGED <<remaining, scan, more, reapable, stored>>
  /\ UNCHANGED runbook <=> UNCHANGED <<kind, types, concurrency>>
  BY DEF combinator, loop, runbook, bisect

\* A step that leaves the thread of the loop where it is.
LEMMA StaysQuiet ==
  ASSUME LInv, UNCHANGED <<runbook, runners, active, remaining, scan, more, pc, error>>,
         reapable' => reapable, left' \in Seq(DOMAIN TaskCount), IsSeq(fetched'), IsSeq(messages')
  PROVE  Quiet
  BY DEF LInv, Types, EndInv, Quiet

\* A step that raises leaves the loop.
LEMMA RaiseQuiet ==
  ASSUME LInv, UNCHANGED <<runbook, runners, active, remaining>>, UNCHANGED <<fetched, messages, left>>,
         scan' \in Seq(Nat), reapable' => reapable, NEW what, what # "None", Raise(what),
         pc \notin {"cleanup", "flush", "done"}
  PROVE  Quiet
  BY DEF LInv, Types, Quiet, Raise

\* A step that goes round the inner loop or waits.
LEMMA LoopQuiet ==
  ASSUME LInv, UNCHANGED <<runbook, runners, active, remaining, error>>, UNCHANGED <<messages, left>>,
         IsSeq(fetched'), reapable' => reapable, InnerLoop, pc \notin {"cleanup", "flush", "done"}
  PROVE  Quiet
<1>1. <<>> \in Seq(Nat)
  OBVIOUS
<1>2. scan' \in Seq(Nat) /\ (pc' = "submit" => scan' = remaining) /\ pc' \in {"submit", "wait"}
  BY <1>1 DEF InnerLoop, LInv, Types
<1> QED
  BY <1>2 DEF LInv, Types, Quiet

\* The transformers of the phase init run or fail.
LEMMA StartStep ==
  ASSUME LInv, Start
  PROVE  LInv'
<1>1. /\ UNCHANGED <<kind, types, concurrency, runners, active, remaining, scan, more, reapable>>
      /\ UNCHANGED <<gen, fetched, left, messages>> /\ pc = "start"
      /\ \/ pc' = "wait" /\ error' = error
         \/ Raise("transformer")
  BY Unpacked DEF Start
<1>2. Quiet
  <2>1. CASE pc' = "wait" /\ error' = error
    BY <1>1, <2>1 DEF LInv, Types, Quiet, runbook
  <2>2. CASE Raise("transformer")
    BY <1>1, <2>2, RaiseQuiet, Unpacked DEF LInv, Types
  <2> QED
    BY <1>1, <2>1, <2>2
<1>3. CountInv'
  BY <1>1, CountKept, Unpacked DEF LInv
<1> QED
  BY <1>2, <1>3, QuietKeeps DEF LInv

\* wait_worker returns or raises.
LEMMA WaitStep ==
  ASSUME LInv, WaitWorker
  PROVE  LInv'
<1>1. /\ UNCHANGED <<kind, types, concurrency, runners, active, remaining, more>>
      /\ UNCHANGED <<gen, fetched, left, messages>> /\ pc = "wait" /\ reapable' = FALSE
      /\ \/ Raise("task") /\ UNCHANGED scan
         \/ /\ pc' = IF Unfinished THEN "submit" ELSE "cleanup"
            /\ scan' = remaining /\ UNCHANGED error
  BY Unpacked DEF WaitWorker
<1>2. Quiet
  <2>1. CASE Raise("task") /\ UNCHANGED scan
    BY <1>1, <2>1, RaiseQuiet, Unpacked DEF LInv, Types
  <2>2. CASE /\ pc' = IF Unfinished THEN "submit" ELSE "cleanup"
             /\ scan' = remaining /\ UNCHANGED error
    <3>1. pc' \in {"submit", "cleanup"} /\ (pc' = "cleanup" => remaining = <<>> /\ ~more)
      BY <2>2 DEF Unfinished
    <3> QED
      BY <1>1, <2>2, <3>1 DEF LInv, Types, Quiet, runbook
  <2> QED
    BY <1>1, <2>1, <2>2
<1>3. CountInv'
  BY <1>1, CountKept, Unpacked DEF LInv
<1> QED
  BY <1>2, <1>3, QuietKeeps DEF LInv

\* The end of the for loop, and the test for enough runners.
LEMMA ScanStep ==
  ASSUME LInv, LeaveScan \/ EnoughRunners
  PROVE  LInv'
<1>1. /\ UNCHANGED <<kind, types, concurrency, runners, active, remaining, more, error>>
      /\ UNCHANGED <<gen, fetched, left, messages>> /\ (reapable' => reapable)
      /\ pc \in {"submit", "advance"}
      /\ \/ pc' \in {"advance", "wait"} /\ UNCHANGED scan
         \/ InnerLoop
  BY Unpacked DEF LeaveScan, EnoughRunners
<1>2. Quiet
  <2>1. CASE pc' \in {"advance", "wait"} /\ UNCHANGED scan
    BY <1>1, <2>1 DEF LInv, Types, Quiet, runbook
  <2>2. CASE InnerLoop
    BY <1>1, <2>2, LoopQuiet, Unpacked DEF LInv, Types
  <2> QED
    BY <1>1, <2>1, <2>2
<1>3. CountInv'
  BY <1>1, CountKept, Unpacked DEF LInv
<1> QED
  BY <1>2, <1>3, QuietKeeps DEF LInv

\* A result reaches the notifiers.
LEMMA NotifyStep ==
  ASSUME LInv, Notify
  PROVE  LInv'
<1>1. /\ UNCHANGED <<kind, types, concurrency, runners, active, remaining, scan, more, reapable, error>>
      /\ UNCHANGED <<gen, fetched, left, pc>> /\ messages # <<>> /\ messages' = Tail(messages)
  BY Unpacked DEF Notify
<1>2. IsSeq(messages')
  <2>1. PICK S : messages \in Seq(S)
    BY DEF LInv, Types, IsSeq
  <2>2. Tail(messages) \in Seq(S)
    BY <1>1, <2>1, TailFact
  <2> QED
    BY <1>1, <2>2 DEF IsSeq
<1>3. Quiet
  BY <1>1, <1>2, StaysQuiet, Unpacked DEF LInv, Types
<1>4. CountInv'
  BY <1>1, CountKept, Unpacked DEF LInv
<1> QED
  BY <1>3, <1>4, QuietKeeps DEF LInv

\* The last transformers, or the exception of a notifier.
LEMMA FlushStep ==
  ASSUME LInv, Flush \/ FlushRaises
  PROVE  LInv'
<1>1. /\ UNCHANGED <<kind, types, concurrency, runners, active, remaining, scan, more, reapable>>
      /\ UNCHANGED <<gen, fetched, left, messages>> /\ pc = "flush" /\ pc' = "done"
      /\ error' = error \/ (error = "None" /\ error' = "notify")
  BY Unpacked DEF Flush, FlushRaises
<1>2. Quiet
  BY <1>1 DEF LInv, Types, Quiet, runbook
<1>3. CountInv'
  BY <1>1, CountKept, Unpacked DEF LInv
<1> QED
  BY <1>2, <1>3, QuietKeeps DEF LInv

\* Nothing changes.
LEMMA StutterStep ==
  ASSUME LInv, UNCHANGED vars
  PROVE  LInv'
<1>1. /\ UNCHANGED <<kind, types, concurrency, runners, active, remaining, scan, more, reapable, error>>
      /\ UNCHANGED <<gen, fetched, left, messages, pc>>
  BY DEF vars
<1>2. Quiet
  BY <1>1, StaysQuiet, Unpacked DEF LInv, Types
<1>3. CountInv'
  BY <1>1, CountKept, Unpacked DEF LInv
<1> QED
  BY <1>2, <1>3, QuietKeeps DEF LInv

-----------------------------------------------------------------------------
(* Steps of _fetch_runners *)

\* One combination more has the runners of one combination more.
LEMMA OneMore ==
  ASSUME NEW n \in Nat, NEW m \in Nat
  PROVE  (n + 1) * m = n * m + m /\ 1 * m = m /\ 0 * m = 0
  OBVIOUS

\* The lengths are numbers.
LEMMA Lengths ==
  ASSUME Types
  PROVE  /\ Len(fetched) \in Nat /\ Len(types) \in Nat /\ Len(runners) \in Nat /\ Len(left) \in Nat
         /\ DOMAIN runners = 1..Len(runners) /\ DOMAIN fetched = 1..Len(fetched)
<1>1. PICK S : fetched \in Seq(S)
  BY DEF Types, IsSeq
<1> QED
  BY <1>1, SeqFact DEF Types

\* A runbook without a combinator is the only combination.
LEMMA BeginStep ==
  ASSUME LInv, BeginFetch
  PROVE  LInv'
<1>1. /\ UNCHANGED <<kind, types, concurrency, runners, active, remaining, scan, more, reapable, error>>
      /\ UNCHANGED <<left, messages, pc>> /\ gen = "begin"
      /\ \/ gen' = "expanded" /\ fetched' = <<"root">>
         \/ gen' = "fetch" /\ fetched' = fetched
  BY Unpacked DEF BeginFetch
<1>r. <<"root">> \in Seq({"root"}) /\ Len(<<"root">>) = 1
  OBVIOUS
<1>2. IsSeq(fetched')
  BY <1>1, <1>r DEF LInv, Types, IsSeq
<1>3. Quiet
  BY <1>1, <1>2, StaysQuiet, Unpacked DEF LInv, Types
<1>4. CountInv'
  <2>1. CASE gen' = "fetch" /\ fetched' = fetched
    BY <1>1, <2>1 DEF LInv, CountInv
  <2>2. CASE gen' = "expanded" /\ fetched' = <<"root">>
    <3>1. Len(fetched') = 1
      BY <1>r, <2>2
    <3>2. Len(runners) = 0 /\ more
      BY <1>1, Lengths, OneMore DEF LInv, CountInv
    <3> QED
      BY <1>1, <2>2, <3>1, <3>2, Lengths, OneMore DEF LInv, CountInv
  <2> QED
    BY <1>1, <2>1, <2>2
<1> QED
  BY <1>3, <1>4, QuietKeeps DEF LInv

\* A fetch of the combinator ends, or gives a combination.
LEMMA FetchCases ==
  ASSUME Fetch
  PROVE  /\ UNCHANGED <<kind, types, concurrency, runners, active, left, messages>>
         /\ pc = "advance" /\ gen \in {"fetch", "told"}
         /\ \/ NoMoreRunners /\ UNCHANGED fetched
            \/ \E c : Combination(c)
<1>1. /\ UNCHANGED <<kind, types, concurrency>>
      /\ \/ NoMoreRunners /\ UNCHANGED fetched
         \/ \E c : Combination(c)
  <2>1. CASE FetchGrid
    BY <2>1, Unpacked DEF FetchGrid
  <2>2. CASE FetchBatch
    BY <2>2, Unpacked DEF FetchBatch
  <2>3. CASE FetchBisect
    BY <2>3, Unpacked DEF FetchBisect
  <2> QED
    BY <2>1, <2>2, <2>3 DEF Fetch
<1> QED
  BY <1>1, Unpacked DEF Fetch, Advancing

\* Combinator.fetch.
LEMMA FetchStep ==
  ASSUME LInv, Fetch
  PROVE  LInv'
<1>1. /\ UNCHANGED <<kind, types, concurrency, runners, active, left, messages>>
      /\ pc = "advance" /\ gen \in {"fetch", "told"}
      /\ \/ NoMoreRunners /\ UNCHANGED fetched
         \/ \E c : Combination(c)
  BY FetchCases
<1>3. CASE NoMoreRunners /\ UNCHANGED fetched
  <2>1. Quiet
    BY <1>1, <1>3, LoopQuiet, Unpacked DEF LInv, Types, NoMoreRunners
  <2>2. CountInv'
    BY <1>1, <1>3 DEF LInv, CountInv, NoMoreRunners
  <2> QED
    BY <2>1, <2>2, QuietKeeps DEF LInv
<1>4. ASSUME NEW c, Combination(c) PROVE LInv'
  <2>1. /\ fetched' = Append(fetched, c) /\ gen' = "expanded"
        /\ UNCHANGED <<pc, error, remaining, scan, more, reapable>>
    BY <1>4, Unpacked DEF Combination
  <2>2. IsSeq(fetched') /\ Len(fetched') = Len(fetched) + 1
    BY <2>1, AppendAny DEF LInv, Types
  <2>3. Quiet
    BY <1>1, <2>1, <2>2, StaysQuiet, Unpacked DEF LInv, Types
  <2>4. CountInv'
    <3>1. /\ Len(fetched) \in Nat /\ Len(types) \in Nat
          /\ Len(runners) = Len(fetched) * Len(types) /\ more
      BY <1>1, Lengths DEF LInv, CountInv
    <3>2. Len(runners) + Len(types) = (Len(fetched) + 1) * Len(types)
      BY <3>1, OneMore
    <3>3. Len(fetched) + 1 > 0
      BY <3>1
    <3> QED
      BY <1>1, <2>1, <2>2, <3>1, <3>2, <3>3 DEF CountInv
  <2> QED
    BY <2>3, <2>4, QuietKeeps DEF LInv
<1> QED
  BY <1>1, <1>3, <1>4

\* _process_result tells git the verdict, or raises.
LEMMA ProcessCases ==
  ASSUME ProcessResult
  PROVE  /\ UNCHANGED <<kind, types, concurrency, runners, active, remaining, scan, more, reapable>>
         /\ UNCHANGED <<fetched, left, messages, ran, indexes, index, result>>
         /\ pc = "advance" /\ gen = "fetch" /\ kind = "git_bisect"
         /\ \/ Raise("bisect") /\ UNCHANGED <<gen, good, bad, early>>
            \/ gen' = "told" /\ UNCHANGED <<pc, error>>
  BY Unpacked DEF ProcessResult, Advancing

\* Either way the runners are as they were.
LEMMA ProcessStep ==
  ASSUME LInv, ProcessResult
  PROVE  LInv'
<1>1. CASE Raise("bisect") /\ UNCHANGED gen
  <2>1. Quiet
    BY <1>1, ProcessCases, RaiseQuiet, Unpacked DEF LInv, Types
  <2>2. CountInv'
    BY <1>1, ProcessCases, CountKept, Unpacked DEF LInv
  <2> QED
    BY <2>1, <2>2, QuietKeeps DEF LInv
<1>2. CASE gen' = "told" /\ UNCHANGED <<pc, error>>
  <2>1. Quiet
    BY <1>2, ProcessCases, StaysQuiet, Unpacked DEF LInv, Types
  <2>2. CountInv'
    BY <1>2, ProcessCases DEF LInv, CountInv
  <2> QED
    BY <2>1, <2>2, QuietKeeps DEF LInv
<1> QED
  BY <1>1, <1>2, ProcessCases

\* The transformers of the phase expanded, and the types of the runners to create.
LEMMA ExpandStep ==
  ASSUME LInv, Expand
  PROVE  LInv'
<1>1. /\ UNCHANGED <<kind, types, concurrency, runners, active, remaining, scan, more, reapable>>
      /\ UNCHANGED <<fetched, messages>> /\ pc = "advance" /\ gen = "expanded"
      /\ \/ gen' = "runners" /\ left' = types /\ UNCHANGED <<pc, error>>
         \/ Raise("transformer") /\ UNCHANGED <<gen, left>>
  BY Unpacked DEF Expand, Advancing
<1>2. Quiet
  <2>1. CASE left' = types /\ UNCHANGED <<pc, error>>
    BY <1>1, <2>1, StaysQuiet, Unpacked DEF LInv, Types
  <2>2. CASE Raise("transformer") /\ UNCHANGED <<gen, left>>
    BY <1>1, <2>2, RaiseQuiet, Unpacked DEF LInv, Types
  <2> QED
    BY <1>1, <2>1, <2>2
<1>3. CountInv'
  BY <1>1 DEF LInv, CountInv
<1> QED
  BY <1>2, <1>3, QuietKeeps DEF LInv

\* The transformers of the phase expanded_cleanup, after the last runner.
LEMMA ExpandedCleanupStep ==
  ASSUME LInv, ExpandedCleanup
  PROVE  LInv'
<1>1. /\ UNCHANGED <<kind, types, concurrency, runners, active, fetched, messages, left>>
      /\ pc = "advance" /\ gen = "runners" /\ left = <<>>
      /\ \/ NoMoreRunners
         \/ gen' = "fetch" /\ UNCHANGED <<pc, error, remaining, scan, more, reapable>>
         \/ Raise("transformer") /\ UNCHANGED <<gen, remaining, scan, more, reapable>>
  BY Unpacked DEF ExpandedCleanup, Advancing
<1>2. Quiet
  <2>1. CASE NoMoreRunners
    BY <1>1, <2>1, LoopQuiet, Unpacked DEF LInv, Types, NoMoreRunners
  <2>2. CASE UNCHANGED <<pc, error, remaining, scan, more, reapable>>
    BY <1>1, <2>2, StaysQuiet, Unpacked DEF LInv, Types
  <2>3. CASE Raise("transformer") /\ UNCHANGED <<gen, remaining, scan, more, reapable>>
    BY <1>1, <2>3, RaiseQuiet, Unpacked DEF LInv, Types
  <2> QED
    BY <1>1, <2>1, <2>2, <2>3
<1>3. CountInv'
  <2>1. Len(left) = 0
    BY <1>1, SeqFact DEF LInv, Types
  <2>2. Len(runners) = Len(fetched) * Len(types)
    BY <1>1, <2>1, Lengths DEF LInv, CountInv
  <2> QED
    BY <1>1, <2>2 DEF LInv, CountInv, NoMoreRunners
<1> QED
  BY <1>2, <1>3, QuietKeeps DEF LInv

-----------------------------------------------------------------------------
(* Steps of the runners *)

\* A runner that is not done is active.
LEMMA NotDoneIsActive ==
  ASSUME LInv, NEW r \in DOMAIN runners, ~IsDone(r)
  PROVE  r \in active
  BY DEF LInv, CloseInv

\* The close of one runner returns, or raises.
LEMMA CloseOne ==
  ASSUME NEW x \in Runner
  PROVE  LET y == [x EXCEPT !.closed = @ + 1]
             z == [x EXCEPT !.raised = @ + 1]
         IN  /\ y \in Runner /\ y.combination = x.combination /\ y.fetch = x.fetch
             /\ y.running = x.running /\ y.crashed = x.crashed
             /\ y.closed = x.closed + 1 /\ y.raised = x.raised
             /\ z \in Runner /\ z.combination = x.combination /\ z.fetch = x.fetch
             /\ z.running = x.running /\ z.crashed = x.crashed
             /\ z.closed = x.closed /\ z.raised = x.raised + 1
  BY DEF Runner

\* What is left of a runner when some are closed.
SameTasks(rs, raising, r) ==
  /\ Closed(rs, raising)[r].combination = runners[r].combination
  /\ Closed(rs, raising)[r].fetch = runners[r].fetch
  /\ Closed(rs, raising)[r].running = runners[r].running
  /\ Closed(rs, raising)[r].crashed = runners[r].crashed
  /\ Closed(rs, raising)[r].closed = IF r \in rs THEN runners[r].closed + 1 ELSE runners[r].closed
  /\ Closed(rs, raising)[r].raised
       = IF r \notin rs /\ r \in raising THEN runners[r].raised + 1 ELSE runners[r].raised

\* What the runners become when some are closed.
LEMMA ClosedFact ==
  ASSUME Types, NEW rs, NEW raising
  PROVE  /\ Closed(rs, raising) \in Seq(Runner) /\ Len(Closed(rs, raising)) = Len(runners)
         /\ DOMAIN Closed(rs, raising) = DOMAIN runners
         /\ \A r \in DOMAIN runners : SameTasks(rs, raising, r)
<1>1. runners \in Seq(Runner) /\ Len(runners) \in Nat /\ DOMAIN runners = 1..Len(runners)
      /\ \A r \in 1..Len(runners) : runners[r] \in Runner
  BY SeqFact DEF Types
<1> DEFINE w == Closed(rs, raising)
<1>2. \A r \in DOMAIN runners :
        w[r] = IF r \in rs THEN [runners[r] EXCEPT !.closed = @ + 1]
               ELSE IF r \in raising THEN [runners[r] EXCEPT !.raised = @ + 1]
               ELSE runners[r]
  BY DEF Closed
<1>3. ASSUME NEW r \in DOMAIN runners
      PROVE  w[r] \in Runner /\ SameTasks(rs, raising, r)
  <2>0. runners[r] \in Runner
    BY <1>1
  <2>1. CASE r \in rs
    <3>1. w[r] = [runners[r] EXCEPT !.closed = @ + 1]
      BY <1>2, <2>1
    <3> QED
      BY <2>0, <2>1, <3>1, CloseOne DEF SameTasks
  <2>2. CASE r \notin rs /\ r \in raising
    <3>1. w[r] = [runners[r] EXCEPT !.raised = @ + 1]
      BY <1>2, <2>2
    <3> QED
      BY <2>0, <2>2, <3>1, CloseOne DEF SameTasks
  <2>3. CASE r \notin rs /\ r \notin raising
    <3>1. w[r] = runners[r]
      BY <1>2, <2>3
    <3> QED
      BY <2>0, <2>3, <3>1 DEF SameTasks
  <2> QED
    BY <2>1, <2>2, <2>3
<1>4. w \in [1..Len(runners) -> Runner]
  BY <1>1, <1>3 DEF Closed
<1>5. w \in Seq(Runner) /\ Len(w) = Len(runners) /\ DOMAIN w = DOMAIN runners
  BY <1>1, <1>4
<1> QED
  BY <1>3, <1>5

\* Closing starts and ends no task.
LEMMA ClosedRuns ==
  ASSUME Types, NEW rs, NEW raising, runners' = Closed(rs, raising)
  PROVE  /\ Running' = Running /\ DOMAIN runners' = DOMAIN runners /\ Len(runners') = Len(runners)
         /\ \A r \in DOMAIN runners : IsDone(r)' <=> IsDone(r)
<1>1. /\ DOMAIN runners' = DOMAIN runners /\ Len(runners') = Len(runners)
      /\ \A r \in DOMAIN runners : /\ runners'[r].fetch = runners[r].fetch
                                  /\ runners'[r].running = runners[r].running
                                  /\ runners'[r].crashed = runners[r].crashed
  BY ClosedFact DEF SameTasks
<1>2. Running' = Running
  BY <1>1 DEF Running
<1> QED
  BY <1>1, <1>2 DEF IsDone

\* The close of a runner raises out of the loop.
LEMMA LeaveRaises ==
  ASSUME LInv, LeaveRunner, CloseRaises(Head(scan)), UNCHANGED <<active, remaining, scan>>
  PROVE  LInv'
<1> DEFINE r == Head(scan)
<1>1. /\ UNCHANGED <<kind, types, concurrency, more, gen, fetched, left, messages>>
      /\ UNCHANGED <<active, remaining, scan>>
      /\ pc = "submit" /\ scan # <<>> /\ reapable' = FALSE
      /\ pc' = "cleanup" /\ error' = "closing" /\ runners' = Closed({}, {r})
  BY Unpacked DEF LeaveRunner, CloseRaises, Raise
<1>3. /\ runners' \in Seq(Runner) /\ Running' = Running /\ DOMAIN runners' = DOMAIN runners
      /\ Len(runners') = Len(runners)
      /\ \A x \in DOMAIN runners : IsDone(x)' <=> IsDone(x)
      /\ \A x \in DOMAIN runners : runners'[x].closed = runners[x].closed
  BY <1>1, ClosedFact, ClosedRuns DEF LInv, SameTasks
<1>4. Types'
  BY <1>1, <1>3 DEF LInv, Types
<1>5. LoopInv'
  BY <1>1, <1>3 DEF LInv, LoopInv
<1>6. CloseInv'
  BY <1>1, <1>3 DEF LInv, CloseInv
<1>7. EndInv' /\ CountInv'
  BY <1>1, <1>3 DEF LInv, EndInv, CountInv
<1>8. WorkInv'
  BY <1>1, <1>3 DEF LInv, WorkInv
<1> QED
  BY <1>4, <1>5, <1>6, <1>7, <1>8 DEF LInv

\* The loop closes a runner that is done, and forgets it.
LEMMA LeaveCloses ==
  ASSUME LInv, LeaveRunner, CloseIfDone(Head(scan)), scan' = Tail(scan), UNCHANGED <<pc, error>>
  PROVE  LInv'
<1> DEFINE r == Head(scan)
<1>1. /\ UNCHANGED <<kind, types, concurrency, more, error, gen, fetched, left, messages, pc>>
      /\ pc = "submit" /\ scan # <<>> /\ scan' = Tail(scan) /\ reapable' = FALSE
      /\ CloseIfDone(r)
  BY Unpacked DEF LeaveRunner
<1>2. /\ scan \in Seq(Nat) /\ scan' \in Seq(Nat) /\ Len(scan') = Len(scan) - 1 /\ Len(scan) > 0
      /\ r = scan[1] /\ \A i \in 1..(Len(scan) - 1) : scan'[i] = scan[i + 1]
      /\ Len(scan) \in Nat /\ DOMAIN scan = 1..Len(scan) /\ DOMAIN scan' = 1..(Len(scan) - 1)
  BY <1>1, TailFact, SeqFact DEF LInv, Types
<1> HIDE DEF r
<1>3. /\ r \in active /\ r \in DOMAIN runners
      /\ \A i, j \in DOMAIN scan' : scan'[i] = scan'[j] => i = j
      /\ \A i \in DOMAIN scan' : scan'[i] \in active /\ scan'[i] # r
  <2>1. /\ \A i, j \in 1..Len(scan) : scan[i] = scan[j] => i = j
        /\ \A i \in 1..Len(scan) : scan[i] \in active
        /\ active \subseteq DOMAIN runners
    BY <1>1, <1>2 DEF LInv, LoopInv
  <2>2. 1 \in 1..Len(scan) /\ \A i \in 1..(Len(scan) - 1) : i + 1 \in 1..Len(scan) /\ i + 1 # 1
    BY <1>2
  <2>3. \A i, j \in 1..(Len(scan) - 1) : i + 1 = j + 1 => i = j
    BY <1>2
  <2>4. r \in active /\ r \in DOMAIN runners
    BY <1>2, <2>1, <2>2
  <2>5. ASSUME NEW i \in 1..(Len(scan) - 1) PROVE scan'[i] \in active /\ scan'[i] # r
    BY <1>2, <2>1, <2>2
  <2>6. ASSUME NEW i \in 1..(Len(scan) - 1), NEW j \in 1..(Len(scan) - 1), scan'[i] = scan'[j]
        PROVE  i = j
    <3>1. scan[i + 1] = scan[j + 1]
      BY <1>2, <2>6
    <3>2. i + 1 = j + 1
      BY <2>1, <2>2, <3>1
    <3> QED
      BY <2>3, <3>2
  <2> QED
    BY <1>2, <2>4, <2>5, <2>6
<1>4. CASE ~IsDone(r)
  <2>1. UNCHANGED <<runners, active, remaining>>
    BY <1>1, <1>4 DEF CloseIfDone
  <2>2. Types' /\ CloseInv' /\ EndInv' /\ WorkInv'
    <3>1. Running' = Running /\ \A x \in DOMAIN runners : IsDone(x)' <=> IsDone(x)
      BY <2>1 DEF Running, IsDone
    <3> QED
      BY <1>1, <1>2, <2>1, <3>1 DEF LInv, Types, CloseInv, EndInv, WorkInv
  <2>3. LoopInv'
    BY <1>1, <1>3, <2>1 DEF LInv, LoopInv
  <2>4. CountInv'
    BY <1>1, <2>1 DEF LInv, CountInv
  <2> QED
    BY <2>2, <2>3, <2>4 DEF LInv
<1>5. CASE IsDone(r)
  <2>1. /\ runners' = Closed({r}, {}) /\ active' = active \ {r} /\ remaining' = Without(remaining, r)
    BY <1>1, <1>5 DEF CloseIfDone
  <2>2. /\ runners' \in Seq(Runner) /\ Running' = Running /\ DOMAIN runners' = DOMAIN runners
        /\ Len(runners') = Len(runners)
        /\ \A x \in DOMAIN runners : IsDone(x)' <=> IsDone(x)
        /\ \A x \in DOMAIN runners :
             /\ runners'[x].closed = IF x = r THEN runners[x].closed + 1 ELSE runners[x].closed
             /\ runners'[x].raised = runners[x].raised
    BY <2>1, ClosedFact, ClosedRuns DEF LInv, SameTasks
  <2>3. /\ remaining' \in Seq(Nat)
        /\ \A i, j \in DOMAIN remaining' : remaining'[i] = remaining'[j] => i = j
        /\ \A x : (\E i \in DOMAIN remaining' : remaining'[i] = x)
                  <=> x # r /\ \E i \in DOMAIN remaining : remaining[i] = x
    <3>1. /\ remaining \in Seq(Nat)
          /\ \A i, j \in DOMAIN remaining : remaining[i] = remaining[j] => i = j
          /\ \E i \in DOMAIN remaining : remaining[i] = r
      BY <1>3 DEF LInv, Types, LoopInv
    <3> DEFINE w == Without(remaining, r)
    <3>2. /\ w \in Seq(Nat)
          /\ \A i, j \in DOMAIN w : w[i] = w[j] => i = j
          /\ \A x : (\E i \in DOMAIN w : w[i] = x) <=> x # r /\ \E i \in DOMAIN remaining : remaining[i] = x
      BY <3>1, WithoutFact
    <3>3. remaining' = w
      BY <2>1
    <3> HIDE DEF w
    <3> QED
      BY <3>2, <3>3
  <2>4. Types'
    BY <1>1, <1>2, <2>2, <2>3 DEF LInv, Types
  <2>5. LoopInv'
    <3>1. /\ active \subseteq DOMAIN runners /\ \A i \in DOMAIN remaining : remaining[i] \in active
          /\ \A x \in active : \E i \in DOMAIN remaining : remaining[i] = x
      BY DEF LInv, LoopInv
    <3>2. active' \subseteq DOMAIN runners' /\ \A x \in active' : x \in active /\ x # r
      BY <2>1, <2>2, <3>1
    <3>3. ASSUME NEW i \in DOMAIN remaining' PROVE remaining'[i] \in active'
      <4>1. remaining'[i] # r /\ \E j \in DOMAIN remaining : remaining[j] = remaining'[i]
        BY <2>3, <3>3
      <4> QED
        BY <2>1, <3>1, <4>1
    <3>4. \A x \in active' : \E i \in DOMAIN remaining' : remaining'[i] = x
      BY <2>3, <3>1, <3>2
    <3>5. \A i \in DOMAIN scan' : scan'[i] \in active'
      BY <1>3, <2>1
    <3> QED
      BY <1>3, <2>3, <3>2, <3>3, <3>4, <3>5 DEF LoopInv
  <2>6. CloseInv'
    <3>1. runners[r].closed = 0
      BY <1>1, <1>3 DEF LInv, CloseInv
    <3>2. ASSUME NEW x \in DOMAIN runners
          PROVE  /\ x \notin active' => IsDone(x)
                 /\ runners'[x].closed = IF x \in active' THEN 0 ELSE 1
      <4>1. /\ x \notin active => IsDone(x)
            /\ runners[x].closed = IF x \in active THEN 0 ELSE 1
        BY <1>1 DEF LInv, CloseInv
      <4>2. CASE x = r
        <5>1. runners'[x].closed = 0 + 1 /\ x \notin active'
          BY <2>1, <2>2, <3>1, <4>2
        <5> QED
          BY <1>5, <4>2, <5>1
      <4>3. CASE x # r
        <5>1. runners'[x].closed = runners[x].closed /\ (x \in active' <=> x \in active)
          BY <2>1, <2>2, <4>3
        <5> QED
          BY <4>1, <5>1
      <4> QED
        BY <4>2, <4>3
    <3>3. \A x \in DOMAIN runners : runners'[x].raised = 0
      BY <1>1, <2>2 DEF LInv, CloseInv
    <3> QED
      BY <1>1, <2>2, <3>2, <3>3 DEF CloseInv
  <2>7. EndInv' /\ WorkInv'
    BY <1>1, <2>1, <2>2 DEF LInv, EndInv, WorkInv
  <2>8. CountInv'
    BY <1>1, <2>2 DEF LInv, CountInv
  <2> QED
    BY <2>4, <2>5, <2>6, <2>7, <2>8 DEF LInv
<1> QED
  BY <1>4, <1>5

\* The end of the loop's turn for a runner.
LEMMA LeaveStep ==
  ASSUME LInv, LeaveRunner
  PROVE  LInv'
<1>1. \/ CloseIfDone(Head(scan)) /\ scan' = Tail(scan) /\ UNCHANGED <<pc, error>>
      \/ CloseRaises(Head(scan)) /\ UNCHANGED <<active, remaining, scan>>
  BY DEF LeaveRunner
<1> QED
  BY <1>1, LeaveRaises, LeaveCloses

\* _cleanup closes what the loop has left, up to the first that fails.
LEMMA CleanupStep ==
  ASSUME LInv, Cleanup
  PROVE  LInv'
<1>1. /\ UNCHANGED <<kind, types, concurrency, remaining, scan, more, reapable>>
      /\ UNCHANGED <<gen, fetched, left, messages, active>> /\ pc = "cleanup" /\ pc' = "flush"
      /\ CloseActive
  BY Unpacked DEF Cleanup
<1>2. PICK rs, raising : /\ runners' = Closed(rs, raising) /\ rs \subseteq active
                         /\ \/ rs = active /\ raising = {} /\ UNCHANGED error
                            \/ error' = "close"
  <2>1. CASE runners' = Closed(active, {}) /\ UNCHANGED error
    BY <2>1
  <2>2. ASSUME NEW r \in active, runners' = Closed({x \in active : x < r}, {r}), error' = "close"
        PROVE  \E rs, raising : /\ runners' = Closed(rs, raising) /\ rs \subseteq active
                                /\ \/ rs = active /\ raising = {} /\ UNCHANGED error
                                   \/ error' = "close"
    <3>1. {x \in active : x < r} \subseteq active
      OBVIOUS
    <3> QED
      BY <2>2, <3>1
  <2> QED
    BY <1>1, <2>1, <2>2 DEF CloseActive
<1>3. /\ runners' \in Seq(Runner) /\ Running' = Running /\ DOMAIN runners' = DOMAIN runners
      /\ Len(runners') = Len(runners)
      /\ \A x \in DOMAIN runners : IsDone(x)' <=> IsDone(x)
      /\ \A x \in DOMAIN runners :
           /\ runners'[x].closed = IF x \in rs THEN runners[x].closed + 1 ELSE runners[x].closed
           /\ raising = {} => runners'[x].raised = runners[x].raised
  BY <1>2, ClosedFact, ClosedRuns DEF LInv, SameTasks
<1>4. Types'
  BY <1>1, <1>3 DEF LInv, Types
<1>5. LoopInv'
  BY <1>1, <1>3 DEF LInv, LoopInv
<1>6. CloseInv'
  BY <1>1, <1>2, <1>3 DEF LInv, CloseInv
<1>e. EndInv'
  BY <1>1, <1>2 DEF LInv, EndInv
<1>7. WorkInv'
  BY <1>1, <1>3, Zenon DEF LInv, WorkInv
<1>8. CountInv'
  BY <1>1, <1>3 DEF LInv, CountInv
<1> QED
  BY <1>4, <1>5, <1>6, <1>e, <1>7, <1>8 DEF LInv

\* One runner changes.
LEMMA RunnerUpdate ==
  ASSUME Types, NEW r \in DOMAIN runners, NEW y \in Runner, runners' = [runners EXCEPT ![r] = y]
  PROVE  /\ runners' \in Seq(Runner) /\ Len(runners') = Len(runners) /\ DOMAIN runners' = DOMAIN runners
         /\ runners'[r] = y /\ \A x \in DOMAIN runners : x # r => runners'[x] = runners[x]
<1>1. runners \in [1..Len(runners) -> Runner] /\ Len(runners) \in Nat /\ DOMAIN runners = 1..Len(runners)
  BY DEF Types
<1>2. runners' \in [1..Len(runners) -> Runner]
  BY <1>1
<1> QED
  BY <1>1, <1>2

\* The tasks that run, seen through the runners.
LEMMA RunningFact ==
  \A p : p \in Running <=> \E x \in DOMAIN runners : \E t \in runners[x].running : p = <<x, t>>
  BY DEF Running

\* One runner starts a task.
LEMMA RunningGrows ==
  ASSUME NEW r \in DOMAIN runners, NEW f, DOMAIN runners' = DOMAIN runners,
         \A x \in DOMAIN runners :
           runners'[x].running = IF x = r THEN runners[x].running \cup {f} ELSE runners[x].running
  PROVE  Running' = Running \cup {<<r, f>>}
<1>1. \A p : p \in Running' <=> \E x \in DOMAIN runners' : \E t \in runners'[x].running : p = <<x, t>>
  BY DEF Running
<1>2. ASSUME NEW p \in Running' PROVE p \in Running \cup {<<r, f>>}
  BY <1>1, <1>2, RunningFact
<1>3. ASSUME NEW p \in Running \cup {<<r, f>>} PROVE p \in Running'
  BY <1>1, <1>3, RunningFact
<1> QED
  BY <1>2, <1>3

\* One runner ends a task.
LEMMA RunningShrinks ==
  ASSUME NEW r \in DOMAIN runners, NEW f \in runners[r].running, DOMAIN runners' = DOMAIN runners,
         \A x \in DOMAIN runners :
           runners'[x].running = IF x = r THEN runners[x].running \ {f} ELSE runners[x].running
  PROVE  Running' = Running \ {<<r, f>>} /\ <<r, f>> \in Running
<1>1. \A p : p \in Running' <=> \E x \in DOMAIN runners' : \E t \in runners'[x].running : p = <<x, t>>
  BY DEF Running
<1>2. ASSUME NEW p \in Running' PROVE p \in Running \ {<<r, f>>}
  BY <1>1, <1>2, RunningFact
<1>3. ASSUME NEW p \in Running \ {<<r, f>>} PROVE p \in Running'
  <2>1. PICK x \in DOMAIN runners : \E t \in runners[x].running : p = <<x, t>>
    BY <1>3, RunningFact
  <2>2. PICK t \in runners[x].running : p = <<x, t>>
    BY <2>1
  <2>3. x \in DOMAIN runners' /\ t \in runners'[x].running
    BY <1>3, <2>2
  <2> QED
    BY <1>1, <2>2, <2>3
<1>4. <<r, f>> \in Running
  BY RunningFact
<1> QED
  BY <1>2, <1>3, <1>4

\* The loop starts a task of an active runner on an idle worker.
SubmitEffect(r) ==
  /\ r \in active /\ r \in DOMAIN runners /\ runners[r].fetch > 0 /\ HasIdleWorker
  /\ runners' \in Seq(Runner) /\ Len(runners') = Len(runners) /\ DOMAIN runners' = DOMAIN runners
  /\ runners'[r] = [runners[r] EXCEPT !.fetch = @ - 1, !.running = @ \cup {runners[r].fetch}]
  /\ runners'[r].combination = runners[r].combination
  /\ runners'[r].fetch = runners[r].fetch - 1
  /\ runners'[r].running = runners[r].running \cup {runners[r].fetch}
  /\ runners'[r].crashed = runners[r].crashed /\ runners'[r].closed = runners[r].closed
  /\ runners'[r].raised = runners[r].raised
  /\ \A x \in DOMAIN runners : x # r => runners'[x] = runners[x]
  /\ UNCHANGED <<kind, types, concurrency, more, error, gen, fetched, left, messages, pc>>
  /\ UNCHANGED <<remaining, scan, active, result, index, good, bad, early>>
  /\ reapable' = FALSE

\* _submit_runner_tasks does that to the runner the loop visits.
LEMMA SubmitEffects ==
  ASSUME LInv, SubmitTask
  PROVE  \E r : SubmitEffect(r)
<1> DEFINE r == Head(scan)
           y == [runners[r] EXCEPT !.fetch = @ - 1, !.running = @ \cup {runners[r].fetch}]
<1>1. /\ pc = "submit" /\ scan # <<>> /\ runners[r].fetch > 0 /\ HasIdleWorker
      /\ runners' = [runners EXCEPT ![r].fetch = @ - 1, ![r].running = @ \cup {runners[r].fetch}]
      /\ UNCHANGED <<kind, types, concurrency, more, error, gen, fetched, left, messages, pc>>
      /\ UNCHANGED <<remaining, scan, active, result, index, good, bad, early>>
      /\ reapable' = FALSE
  BY Unpacked DEF SubmitTask
<1>2. r \in active /\ r \in DOMAIN runners
  <2>1. Len(scan) > 0 /\ r = scan[1] /\ DOMAIN scan = 1..Len(scan) /\ Len(scan) \in Nat
    BY <1>1, TailFact, SeqFact DEF LInv, Types
  <2>2. 1 \in DOMAIN scan
    BY <2>1
  <2> QED
    BY <1>1, <2>1, <2>2 DEF LInv, LoopInv
<1>3. runners[r] \in Runner
  BY <1>2, SeqFact DEF LInv, Types
<1> DEFINE f == runners[r].fetch
<1>4. f \in Nat /\ f > 0 /\ f - 1 \in Nat
  BY <1>1, <1>3 DEF Runner
<1>5. /\ y \in Runner /\ y.fetch = f - 1 /\ y.running = runners[r].running \cup {f}
      /\ y.combination = runners[r].combination /\ y.crashed = runners[r].crashed
      /\ y.closed = runners[r].closed /\ y.raised = runners[r].raised
  BY <1>3, <1>4 DEF Runner
<1>6. runners' = [runners EXCEPT ![r] = y]
  BY <1>1, <1>2, <1>3 DEF Runner
<1> HIDE DEF y, r
<1>7. /\ runners' \in Seq(Runner) /\ Len(runners') = Len(runners) /\ DOMAIN runners' = DOMAIN runners
      /\ runners'[r] = y /\ \A x \in DOMAIN runners : x # r => runners'[x] = runners[x]
  BY <1>2, <1>5, <1>6, RunnerUpdate DEF LInv
<1> QED
  BY <1>1, <1>2, <1>5, <1>7 DEF SubmitEffect, y, r

\* A task more runs, where a worker was idle.
LEMMA SubmitStep ==
  ASSUME LInv, SubmitTask
  PROVE  LInv'
<1>1. PICK r : SubmitEffect(r)
  BY SubmitEffects
<1> DEFINE f == runners[r].fetch
<1>2. Running' = Running \cup {<<r, f>>}
  <2>1. ASSUME NEW x \in DOMAIN runners
        PROVE  runners'[x].running = IF x = r THEN runners[x].running \cup {f} ELSE runners[x].running
    BY <1>1, <2>1 DEF SubmitEffect
  <2>2. r \in DOMAIN runners /\ DOMAIN runners' = DOMAIN runners
    BY <1>1 DEF SubmitEffect
  <2> QED
    BY <2>1, <2>2, RunningGrows
<1>3. \A x \in DOMAIN runners : x # r => /\ IsDone(x)' <=> IsDone(x)
                                       /\ runners'[x].closed = runners[x].closed
                                       /\ runners'[x].raised = runners[x].raised
  BY <1>1 DEF SubmitEffect, IsDone
<1>4. Types'
  BY <1>1 DEF LInv, Types, SubmitEffect
<1>5. LoopInv'
  BY <1>1 DEF LInv, LoopInv, SubmitEffect
<1>6. CloseInv'
  BY <1>1, <1>3 DEF LInv, CloseInv, SubmitEffect
<1>7. EndInv' /\ CountInv'
  BY <1>1 DEF LInv, EndInv, CountInv, SubmitEffect
<1>8. WorkInv'
  <2>1. IsFiniteSet(Running) /\ Cardinality(Running) < concurrency /\ concurrency \in Nat
        /\ Cardinality(Running) \in Nat
    BY <1>1, FS_CardinalityType DEF LInv, WorkInv, Types, SubmitEffect, HasIdleWorker
  <2>2. /\ IsFiniteSet(Running \cup {<<r, f>>})
        /\ Cardinality(Running \cup {<<r, f>>})
             = IF <<r, f>> \in Running THEN Cardinality(Running) ELSE Cardinality(Running) + 1
    BY <2>1, FS_AddElement
  <2>3. Cardinality(Running') <= concurrency
    BY <1>2, <2>1, <2>2
  <2>4. concurrency' = concurrency /\ reapable' = FALSE
    BY <1>1 DEF SubmitEffect
  <2> QED
    BY <1>2, <2>2, <2>3, <2>4 DEF WorkInv
<1> QED
  BY <1>4, <1>5, <1>6, <1>7, <1>8 DEF LInv

\* A task of a runner ends with a result, or raises.
EndEffect(r, t) ==
  /\ r \in DOMAIN runners /\ t \in runners[r].running
  /\ runners' \in Seq(Runner) /\ Len(runners') = Len(runners) /\ DOMAIN runners' = DOMAIN runners
  /\ runners'[r].combination = runners[r].combination /\ runners'[r].fetch = runners[r].fetch
  /\ runners'[r].running = runners[r].running \ {t} /\ runners'[r].closed = runners[r].closed
  /\ runners'[r].raised = runners[r].raised
  /\ \/ /\ runners'[r].crashed = runners[r].crashed
        /\ messages' = Append(messages, [runner |-> r, passed |-> Passes(r, t)])
     \/ runners'[r].crashed = TRUE /\ UNCHANGED messages
  /\ \A x \in DOMAIN runners : x # r => runners'[x] = runners[x]
  /\ UNCHANGED <<kind, types, concurrency, more, error, gen, fetched, left, pc>>
  /\ UNCHANGED <<remaining, scan, active, result, index, good, bad, early>>

\* That is what a worker does.
LEMMA EndEffects ==
  ASSUME LInv, TaskEnds
  PROVE  \E r, t : EndEffect(r, t)
<1>a. PICK r \in DOMAIN runners : \E t \in runners[r].running :
        /\ \/ /\ runners' = [runners EXCEPT ![r].running = @ \ {t}]
              /\ messages' = Append(messages, [runner |-> r, passed |-> Passes(r, t)])
           \/ /\ runners' = [runners EXCEPT ![r].running = @ \ {t}, ![r].crashed = TRUE]
              /\ UNCHANGED messages
        /\ UNCHANGED <<kind, types, concurrency, more, error, gen, fetched, left, pc>>
        /\ UNCHANGED <<remaining, scan, active, result, index, good, bad, early>>
  BY Unpacked DEF TaskEnds
<1>1. PICK t \in runners[r].running :
        /\ \/ /\ runners' = [runners EXCEPT ![r].running = @ \ {t}]
              /\ messages' = Append(messages, [runner |-> r, passed |-> Passes(r, t)])
           \/ /\ runners' = [runners EXCEPT ![r].running = @ \ {t}, ![r].crashed = TRUE]
              /\ UNCHANGED messages
        /\ UNCHANGED <<kind, types, concurrency, more, error, gen, fetched, left, pc>>
        /\ UNCHANGED <<remaining, scan, active, result, index, good, bad, early>>
  BY <1>a
<1>2. runners[r] \in Runner
  BY SeqFact DEF LInv, Types
<1> DEFINE y == [runners[r] EXCEPT !.running = @ \ {t}]
           z == [runners[r] EXCEPT !.running = @ \ {t}, !.crashed = TRUE]
<1>3. /\ y \in Runner /\ y.fetch = runners[r].fetch /\ y.running = runners[r].running \ {t}
      /\ y.combination = runners[r].combination /\ y.crashed = runners[r].crashed
      /\ y.closed = runners[r].closed /\ y.raised = runners[r].raised
  BY <1>2 DEF Runner
<1>4. /\ z \in Runner /\ z.fetch = runners[r].fetch /\ z.running = runners[r].running \ {t}
      /\ z.combination = runners[r].combination /\ z.crashed = TRUE
      /\ z.closed = runners[r].closed /\ z.raised = runners[r].raised
  BY <1>2 DEF Runner
<1>5. CASE /\ runners' = [runners EXCEPT ![r].running = @ \ {t}]
           /\ messages' = Append(messages, [runner |-> r, passed |-> Passes(r, t)])
  <2>1. runners' = [runners EXCEPT ![r] = y]
    BY <1>2, <1>5 DEF Runner
  <2> HIDE DEF y
  <2>2. /\ runners' \in Seq(Runner) /\ Len(runners') = Len(runners) /\ DOMAIN runners' = DOMAIN runners
        /\ runners'[r] = y /\ \A x \in DOMAIN runners : x # r => runners'[x] = runners[x]
    BY <1>3, <2>1, RunnerUpdate DEF LInv
  <2> QED
    BY <1>1, <1>3, <1>5, <2>2 DEF EndEffect
<1>6. CASE /\ runners' = [runners EXCEPT ![r].running = @ \ {t}, ![r].crashed = TRUE]
           /\ UNCHANGED messages
  <2>1. runners' = [runners EXCEPT ![r] = z]
    BY <1>2, <1>6 DEF Runner
  <2> HIDE DEF z
  <2>2. /\ runners' \in Seq(Runner) /\ Len(runners') = Len(runners) /\ DOMAIN runners' = DOMAIN runners
        /\ runners'[r] = z /\ \A x \in DOMAIN runners : x # r => runners'[x] = runners[x]
    BY <1>4, <2>1, RunnerUpdate DEF LInv
  <2> QED
    BY <1>1, <1>4, <1>6, <2>2 DEF EndEffect
<1> QED
  BY <1>1, <1>5, <1>6

\* A worker becomes idle.
LEMMA TaskEndsStep ==
  ASSUME LInv, TaskEnds
  PROVE  LInv'
<1>1. PICK r, t : EndEffect(r, t)
  BY EndEffects
<1>2. Running' = Running \ {<<r, t>>} /\ <<r, t>> \in Running
  <2>1. ASSUME NEW x \in DOMAIN runners
        PROVE  runners'[x].running = IF x = r THEN runners[x].running \ {t} ELSE runners[x].running
    BY <1>1, <2>1 DEF EndEffect
  <2>2. r \in DOMAIN runners /\ t \in runners[r].running /\ DOMAIN runners' = DOMAIN runners
    BY <1>1 DEF EndEffect
  <2> QED
    BY <2>1, <2>2, RunningShrinks
<1>3. \A x \in DOMAIN runners : x # r => /\ IsDone(x)' <=> IsDone(x)
                                       /\ runners'[x].closed = runners[x].closed
                                       /\ runners'[x].raised = runners[x].raised
  BY <1>1 DEF EndEffect, IsDone
<1>a. r \in active
  <2>1. ~IsDone(r)
    BY <1>1 DEF IsDone, EndEffect
  <2> QED
    BY <1>1, <2>1, NotDoneIsActive DEF EndEffect
<1>m. IsSeq(messages')
  <2>1. IsSeq(messages) /\ (messages' = messages \/ messages' = Append(messages, [runner |-> r, passed |-> Passes(r, t)]))
    BY <1>1 DEF EndEffect, LInv, Types
  <2>2. IsSeq(Append(messages, [runner |-> r, passed |-> Passes(r, t)]))
    BY <2>1, AppendAny
  <2> QED
    BY <2>1, <2>2
<1>4. Types'
  BY <1>1, <1>m DEF LInv, Types, EndEffect
<1>5. LoopInv'
  BY <1>1 DEF LInv, LoopInv, EndEffect
<1>6. CloseInv'
  <2>1. /\ DOMAIN runners' = DOMAIN runners /\ UNCHANGED <<active, pc, error>>
        /\ runners'[r].closed = runners[r].closed /\ r \in DOMAIN runners
        /\ runners'[r].raised = runners[r].raised
    BY <1>1 DEF EndEffect
  <2>2. \A x \in DOMAIN runners : /\ runners'[x].closed = runners[x].closed
                                  /\ runners'[x].raised = runners[x].raised
                                  /\ x \notin active => IsDone(x)'
    BY <1>3, <1>a, <2>1 DEF LInv, CloseInv
  <2> QED
    BY <2>1, <2>2, Zenon DEF LInv, CloseInv
<1>7. EndInv' /\ CountInv'
  BY <1>1, <1>a DEF LInv, EndInv, CountInv, EndEffect
<1>8. WorkInv'
  <2>1. IsFiniteSet(Running) /\ Cardinality(Running) <= concurrency /\ concurrency \in Nat
        /\ Cardinality(Running) \in Nat
    BY FS_CardinalityType DEF LInv, WorkInv, Types
  <2>2. /\ IsFiniteSet(Running \ {<<r, t>>})
        /\ Cardinality(Running \ {<<r, t>>})
             = IF <<r, t>> \in Running THEN Cardinality(Running) - 1 ELSE Cardinality(Running)
    BY <2>1, FS_RemoveElement
  <2>3. Cardinality(Running') < concurrency /\ Cardinality(Running') <= concurrency
    BY <1>2, <2>1, <2>2
  <2>4. concurrency' = concurrency
    BY <1>1 DEF EndEffect
  <2> QED
    BY <1>2, <2>2, <2>3, <2>4 DEF WorkInv
<1> QED
  BY <1>4, <1>5, <1>6, <1>7, <1>8 DEF LInv

\* _generate_runners creates a runner, active and to be visited by the loop.
NewRunner == [combination |-> Current, fetch |-> TaskCount[Head(left)], running |-> {},
              crashed |-> FALSE, closed |-> 0, raised |-> 0]

CreateEffect(n) ==
  /\ n = Len(runners) + 1 /\ n \in Nat /\ DOMAIN runners = 1..Len(runners) /\ DOMAIN runners' = 1..n
  /\ runners' \in Seq(Runner) /\ Len(runners') = n
  /\ runners'[n] = NewRunner /\ \A x \in DOMAIN runners : runners'[x] = runners[x]
  /\ active' = active \cup {n}
  /\ remaining' = Append(remaining, n)
  /\ left # <<>> /\ left' = Tail(left) /\ gen = "runners" /\ pc = "advance"
  /\ UNCHANGED <<kind, types, concurrency, more, error, gen, fetched, messages, pc, reapable, scan>>
  /\ UNCHANGED <<result, index, good, bad, early>>

\* That is what it does, or the runner raises.
LEMMA CreateEffects ==
  ASSUME LInv, CreateRunner
  PROVE  \/ \E n : CreateEffect(n)
         \/ /\ Raise("runner") /\ pc = "advance"
            /\ UNCHANGED <<kind, types, concurrency, more, gen, fetched, left, messages, reapable, scan>>
            /\ UNCHANGED <<runners, active, remaining, result, index, good, bad, early>>
<1>1. /\ left # <<>> /\ gen = "runners" /\ pc = "advance"
      /\ UNCHANGED <<kind, types, concurrency, more, gen, fetched, messages, reapable, scan>>
      /\ UNCHANGED <<result, index, good, bad, early>>
      /\ \/ /\ runners' = Append(runners, NewRunner)
            /\ active' = active \cup {Len(runners')}
            /\ remaining' = Append(remaining, Len(runners'))
            /\ left' = Tail(left)
            /\ UNCHANGED <<pc, error>>
         \/ Raise("runner") /\ UNCHANGED <<left, runners, active, remaining>>
  BY Unpacked DEF CreateRunner, Advancing, NewRunner
<1>2. NewRunner \in Runner
  <2>1. Current \in Nat
    BY AppendAny DEF Current, LInv, Types
  <2>2. Head(left) \in DOMAIN TaskCount
    BY <1>1, TailFact DEF LInv, Types
  <2>3. TaskCount[Head(left)] \in Nat
    BY <2>2, RunnerAssumption
  <2> QED
    BY <2>1, <2>3 DEF NewRunner, Runner
<1>3. runners \in Seq(Runner) /\ Len(runners) \in Nat /\ DOMAIN runners = 1..Len(runners)
  BY SeqFact DEF LInv, Types
<1> DEFINE w == Append(runners, NewRunner)
<1>4. /\ w \in Seq(Runner) /\ Len(w) = Len(runners) + 1 /\ w[Len(runners) + 1] = NewRunner
      /\ \A i \in 1..Len(runners) : w[i] = runners[i]
  BY <1>2, <1>3, AppendFact
<1>5. DOMAIN w = 1..Len(w) /\ Len(w) \in Nat
  BY <1>4, SeqFact
<1> HIDE DEF w
<1>6. CASE /\ runners' = w
           /\ active' = active \cup {Len(runners')}
           /\ remaining' = Append(remaining, Len(runners'))
           /\ left' = Tail(left)
           /\ UNCHANGED <<pc, error>>
  <2>1. CreateEffect(Len(runners) + 1)
    BY <1>1, <1>3, <1>4, <1>5, <1>6 DEF CreateEffect
  <2> QED
    BY <2>1
<1> QED
  BY <1>1, <1>6 DEF w

\* The new runner is open, has nothing running and is in the loop.
LEMMA CreateStep ==
  ASSUME LInv, CreateRunner
  PROVE  LInv'
<1>1. CASE /\ Raise("runner") /\ pc = "advance"
           /\ UNCHANGED <<kind, types, concurrency, more, gen, fetched, left, messages, reapable, scan>>
           /\ UNCHANGED <<runners, active, remaining, result, index, good, bad, early>>
  <2>1. Quiet
    BY <1>1, RaiseQuiet, Unpacked DEF LInv, Types
  <2>2. CountInv'
    BY <1>1, CountKept, Unpacked DEF LInv
  <2> QED
    BY <2>1, <2>2, QuietKeeps DEF LInv
<1>2. CASE \E n : CreateEffect(n)
  <2>1. PICK n : CreateEffect(n)
    BY <1>2
  <2>a. n \notin DOMAIN runners /\ DOMAIN runners' = DOMAIN runners \cup {n} /\ n \in Nat
    BY <2>1 DEF CreateEffect
  <2>b. /\ runners'[n].running = {} /\ runners'[n].closed = 0 /\ runners'[n].raised = 0
    BY <2>1 DEF CreateEffect, NewRunner
  <2>c. /\ remaining' \in Seq(Nat) /\ Len(remaining') = Len(remaining) + 1 /\ Len(remaining) \in Nat
        /\ remaining'[Len(remaining) + 1] = n /\ \A i \in 1..Len(remaining) : remaining'[i] = remaining[i]
        /\ DOMAIN remaining = 1..Len(remaining) /\ DOMAIN remaining' = 1..(Len(remaining) + 1)
    <3>1. remaining \in Seq(Nat) /\ remaining' = Append(remaining, n) /\ n \in Nat
      BY <2>1 DEF CreateEffect, LInv, Types
    <3>2. /\ remaining' \in Seq(Nat) /\ Len(remaining') = Len(remaining) + 1
          /\ remaining'[Len(remaining) + 1] = n
          /\ \A i \in 1..Len(remaining) : remaining'[i] = remaining[i]
      BY <3>1, AppendFact
    <3> QED
      BY <3>1, <3>2, SeqFact
  <2>d. left' \in Seq(DOMAIN TaskCount) /\ Len(left') = Len(left) - 1 /\ Len(left) \in Nat
    BY <2>1, TailFact, SeqFact DEF CreateEffect, LInv, Types
  <2>2. Types'
    BY <2>1, <2>c, <2>d DEF LInv, Types, CreateEffect
  <2>3. LoopInv'
    <3>1. active' \subseteq DOMAIN runners'
      BY <2>1, <2>a DEF LInv, LoopInv, CreateEffect
    <3>2. \A i \in 1..Len(remaining) : remaining'[i] \in active /\ remaining'[i] # n
      BY <2>a, <2>c DEF LInv, LoopInv
    <3>3. ASSUME NEW i \in DOMAIN remaining', NEW j \in DOMAIN remaining', remaining'[i] = remaining'[j]
          PROVE  i = j
      BY <2>c, <3>2, <3>3 DEF LInv, LoopInv
    <3>4. \A i \in DOMAIN remaining' : remaining'[i] \in active'
      BY <2>1, <2>c, <3>2 DEF CreateEffect
    <3>5. ASSUME NEW r \in active' PROVE \E i \in DOMAIN remaining' : remaining'[i] = r
      <4>1. CASE r = n
        BY <2>c, <4>1
      <4>2. CASE r \in active
        <5>1. PICK i \in DOMAIN remaining : remaining[i] = r
          BY <4>2 DEF LInv, LoopInv
        <5>2. i \in DOMAIN remaining' /\ remaining'[i] = r
          BY <2>c, <5>1
        <5> QED
          BY <5>2
      <4> QED
        BY <2>1, <4>1, <4>2 DEF CreateEffect
    <3>6. pc' # "submit"
      BY <2>1 DEF CreateEffect
    <3> QED
      BY <3>1, <3>3, <3>4, <3>5, <3>6 DEF LoopInv
  <2>4. CloseInv'
    <3>1. ASSUME NEW x \in DOMAIN runners
          PROVE  /\ IsDone(x)' <=> IsDone(x)
                 /\ runners'[x].closed = runners[x].closed /\ runners'[x].raised = runners[x].raised
                 /\ x \in active' <=> x \in active
      BY <2>1, <2>a, <3>1 DEF CreateEffect, IsDone
    <3>2. n \in active' /\ pc' = "advance" /\ pc = "advance"
      BY <2>1 DEF CreateEffect
    <3> QED
      BY <2>a, <2>b, <3>1, <3>2 DEF LInv, CloseInv
  <2>5. EndInv'
    BY <2>1 DEF EndInv, CreateEffect
  <2>6. CountInv'
    <3>1. Len(runners) \in Nat /\ Len(runners') = Len(runners) + 1
      BY <2>1, SeqFact DEF CreateEffect, LInv, Types
    <3>2. gen' = "runners" /\ gen = "runners" /\ UNCHANGED <<fetched, types, more>>
      BY <2>1 DEF CreateEffect
    <3>3. Len(fetched) > 0 /\ Len(runners) + Len(left) = Len(fetched) * Len(types) /\ more
      BY <3>2 DEF LInv, CountInv
    <3>4. Len(runners') + Len(left') = Len(fetched) * Len(types)
      BY <2>d, <3>1, <3>3
    <3> QED
      BY <3>2, <3>3, <3>4 DEF CountInv
  <2>7. WorkInv'
    <3>1. ASSUME NEW p \in Running' PROVE p \in Running
      <4>1. PICK x \in DOMAIN runners' : \E t \in runners'[x].running : p = <<x, t>>
        BY <3>1 DEF Running
      <4>2. x # n /\ x \in DOMAIN runners /\ runners'[x] = runners[x]
        BY <2>1, <2>a, <2>b, <4>1 DEF CreateEffect
      <4> QED
        BY <4>1, <4>2, RunningFact
    <3>2. ASSUME NEW p \in Running PROVE p \in Running'
      <4>1. PICK x \in DOMAIN runners : \E t \in runners[x].running : p = <<x, t>>
        BY <3>2, RunningFact
      <4>2. x \in DOMAIN runners' /\ runners'[x] = runners[x]
        BY <2>1, <2>a, <4>1 DEF CreateEffect
      <4> QED
        BY <4>1, <4>2 DEF Running
    <3>3. Running' = Running
      BY <3>1, <3>2
    <3> QED
      BY <2>1, <3>3 DEF LInv, WorkInv, CreateEffect
  <2> QED
    BY <2>2, <2>3, <2>4, <2>5, <2>6, <2>7 DEF LInv
<1> QED
  BY <1>1, <1>2, CreateEffects

-----------------------------------------------------------------------------
(* The loop *)

\* Nothing has been fetched yet.
LEMMA InitLInv == Init => LInv
<1> SUFFICES ASSUME Init PROVE LInv
  OBVIOUS
<1>1. /\ runners = <<>> /\ remaining = <<>> /\ scan = <<>> /\ left = <<>> /\ fetched = <<>> /\ messages = <<>>
      /\ active = {} /\ pc = "start" /\ gen = "begin" /\ more = TRUE /\ reapable = FALSE
  BY DEF Init
<1>2. kind \in Kinds /\ types \in Seq(DOMAIN TaskCount) /\ concurrency \in Nat \ {0}
  BY ConcurrencyAssumption, RunnerAssumption DEF Init
<1>3. \A S : <<>> \in Seq(S)
  OBVIOUS
<1>4. Len(<<>>) = 0 /\ DOMAIN <<>> = {}
  OBVIOUS
<1>5. Types
  BY <1>1, <1>2, <1>3 DEF Types, IsSeq
<1>6. LoopInv /\ CloseInv /\ EndInv
  BY <1>1, <1>4 DEF LoopInv, CloseInv, EndInv
<1>7. CountInv
  <2>1. Len(types) \in Nat
    BY <1>2, SeqFact
  <2> QED
    BY <1>1, <1>4, <2>1 DEF CountInv
<1>8. WorkInv
  <2>1. Running = {}
    BY <1>1, <1>4 DEF Running
  <2> QED
    BY <1>1, <1>2, <2>1, FS_EmptySet DEF WorkInv
<1> QED
  BY <1>5, <1>6, <1>7, <1>8 DEF LInv

\* Every step of the main thread, of a worker and of the notifier keeps it.
LEMMA NextLInv == LInv /\ [Next]_vars => LInv'
<1> SUFFICES ASSUME LInv, [Next]_vars PROVE LInv'
  OBVIOUS
<1>1. CASE Start BY <1>1, StartStep
<1>2. CASE WaitWorker BY <1>2, WaitStep
<1>3. CASE SubmitTask BY <1>3, SubmitStep
<1>4. CASE LeaveRunner BY <1>4, LeaveStep
<1>5. CASE LeaveScan \/ EnoughRunners BY <1>5, ScanStep
<1>6. CASE BeginFetch BY <1>6, BeginStep
<1>7. CASE Fetch BY <1>7, FetchStep
<1>8. CASE Expand BY <1>8, ExpandStep
<1>9. CASE CreateRunner BY <1>9, CreateStep
<1>10. CASE ExpandedCleanup BY <1>10, ExpandedCleanupStep
<1>11. CASE Cleanup BY <1>11, CleanupStep
<1>12. CASE Flush \/ FlushRaises BY <1>12, FlushStep
<1>16. CASE ProcessResult BY <1>16, ProcessStep
<1>13. CASE TaskEnds BY <1>13, TaskEndsStep
<1>14. CASE Notify BY <1>14, NotifyStep
<1>15. CASE Done \/ UNCHANGED vars BY <1>15, StutterStep DEF Done
<1> QED
  BY <1>1, <1>2, <1>3, <1>4, <1>5, <1>6, <1>7, <1>8, <1>9, <1>10, <1>11, <1>12, <1>13, <1>14, <1>15,
     <1>16 DEF Next, Main

\* The invariant of the loop holds in every state of a run.
THEOREM LoopInvariance == Spec => []LInv
  BY InitLInv, NextLInv, PTL DEF Spec

\* "assert task_manager.has_idle_worker()": whenever wait_worker may return, a worker is
\* idle, for every number of workers, runners and tasks.
THEOREM IdleWorker == Spec => []WorkerIsIdle
<1>1. LInv => WorkerIsIdle
  <2> SUFFICES ASSUME LInv, Running = {} \/ reapable PROVE Cardinality(Running) < concurrency
    BY DEF WorkerIsIdle
  <2>1. CASE reapable
    BY <2>1 DEF LInv, WorkInv
  <2>2. CASE Running = {}
    <3>1. Cardinality(Running) = 0
      BY <2>2, FS_EmptySet
    <3>2. concurrency > 0
      BY DEF LInv, Types
    <3> QED
      BY <3>1, <3>2
  <2> QED
    BY <2>1, <2>2
<1> QED
  BY <1>1, LoopInvariance, PTL

\* Every runner is closed, and closed once, by the loop or by _cleanup, unless closing one
\* of them raises in _cleanup; close is called twice for a runner only when it has raised.
THEOREM RunnersClosedOnce == Spec => []ClosedOnce
<1>1. LInv => ClosedOnce
  BY DEF LInv, CloseInv, ClosedOnce
<1> QED
  BY <1>1, LoopInvariance, PTL

\* A run that ends without an error has created all runners of all combinations and run
\* all their tasks.
THEOREM RunIsWhole == Spec => []EverythingRan
<1>1. LInv => EverythingRan
  <2> SUFFICES ASSUME LInv, pc = "done", error = "None"
               PROVE  /\ \A r \in DOMAIN runners : runners[r].fetch = 0 /\ runners[r].running = {}
                      /\ Len(runners) = Len(fetched) * Len(types)
    BY DEF EverythingRan
  <2>1. active = {} /\ ~more
    BY DEF LInv, EndInv
  <2>2. \A r \in DOMAIN runners : IsDone(r)
    BY <2>1 DEF LInv, CloseInv
  <2>3. gen = "ended"
    BY <2>1 DEF LInv, CountInv
  <2> QED
    BY <2>1, <2>2, <2>3 DEF LInv, CountInv, IsDone
<1> QED
  BY <1>1, LoopInvariance, PTL

-----------------------------------------------------------------------------
(* The combinators *)

\* A runner may still tell that its commit is bad.
Owes(r) == runners[r].fetch > 0 \/ 1 \in runners[r].running \/ runners[r].crashed

\* A verdict is there, on its way, or to come from a task that runs.
Known == result # NoResult \/ messages # <<>> \/ \E r \in DOMAIN runners : runners[r].running # {}

Commit == fetched[Len(fetched)]

\* The runners of earlier commits are done, so all that is known is about the last one; on
\* a bad one a failure has been seen, is on its way or is still to come.  When git has been
\* told a verdict, nothing more can come about that commit.
BisectInv ==
  kind = "git_bisect" /\ ~early =>
    /\ good \in Int /\ bad \in Int /\ good < FirstBad /\ FirstBad <= bad
    /\ gen # "ended" => index = Len(fetched)
    /\ gen = "told" => messages = <<>> /\ \A r \in DOMAIN runners : IsDone(r)
    /\ Len(fetched) = 0 => result = NoResult /\ messages = <<>> /\ Len(runners) = 0
    /\ \A r \in DOMAIN runners : /\ runners[r].combination <= Len(fetched)
                                 /\ runners[r].combination < Len(fetched) => IsDone(r)
    /\ Len(fetched) # 0 =>
         /\ Commit \in Int
         /\ Commit < FirstBad => result # "failed" /\ \A i \in DOMAIN messages : messages[i].passed
         /\ Commit >= FirstBad /\ Known =>
              \/ result = "failed" \/ \E i \in DOMAIN messages : ~messages[i].passed
              \/ \E r \in DOMAIN runners : Owes(r)

\* The batch has yielded its first items, none of them empty.
BatchInv ==
  kind = "batch" =>
    /\ gen # "ended" => index = Len(fetched)
    /\ index \in 0..Len(BatchItems) /\ Len(fetched) <= Len(BatchItems)
    /\ \A i \in 1..Len(fetched) : fetched[i] = BatchItems[i]
    /\ gen = "ended" /\ Len(fetched) < Len(BatchItems) => BatchItems[Len(fetched) + 1] = <<>>

\* A step that asks the combinator for nothing.
NoFetch ==
  /\ UNCHANGED <<kind, early, good, bad, indexes, index>>
  /\ kind # "none" => fetched' = fetched /\ (gen' = "ended" <=> gen = "ended")
  /\ gen' = "told" => gen = "told"

\* Every step but those of fetch is one.
LEMMA OtherSteps ==
  ASSUME LInv, [Next]_vars
  PROVE  NoFetch \/ ProcessResult \/ Fetch
<1>1. CASE Start \/ WaitWorker \/ SubmitTask \/ LeaveRunner \/ LeaveScan \/ EnoughRunners \/ CreateRunner
  BY <1>1, Unpacked DEF Start, WaitWorker, SubmitTask, LeaveRunner, LeaveScan, EnoughRunners, CreateRunner, NoFetch
<1>2. CASE BeginFetch
  BY <1>2, Unpacked DEF BeginFetch, NoFetch
<1>3. CASE Expand
  BY <1>3, Unpacked DEF Expand, NoFetch
<1>4. CASE ExpandedCleanup
  BY <1>4, Unpacked DEF ExpandedCleanup, NoFetch, NoMoreRunners
<1>5. CASE Cleanup \/ Flush \/ FlushRaises \/ TaskEnds
  BY <1>5, Unpacked DEF Cleanup, Flush, FlushRaises, TaskEnds, NoFetch
<1>6. CASE Notify
  <2>1. UNCHANGED <<kind, types, concurrency>>
    BY <1>6, Unpacked DEF Notify
  <2> QED
    BY <1>6, <2>1 DEF Notify, NoFetch
<1>7. CASE Done \/ UNCHANGED vars
  BY <1>7 DEF Done, vars, NoFetch
<1> QED
  BY <1>1, <1>2, <1>3, <1>4, <1>5, <1>6, <1>7 DEF Next, Main

\* Every step keeps the invariant of the batch.
LEMMA BatchStep ==
  ASSUME LInv, BatchInv, [Next]_vars
  PROVE  BatchInv'
<1>1. CASE NoFetch
  BY <1>1 DEF NoFetch, BatchInv, LInv, Types
<1>3. CASE ProcessResult
  BY <1>3, ProcessCases DEF BatchInv
<1>2. CASE Fetch
  <2>1. CASE FetchGrid \/ (gen = "told" /\ FetchBisect)
    BY <2>1, Unpacked DEF FetchGrid, FetchBisect, BatchInv, LInv, CountInv
  <2>2. CASE FetchBatch
    <3>a. kind = "batch" /\ kind' = kind
      BY <2>2, Unpacked DEF FetchBatch
    <3>b. gen # "told" /\ gen \in {"fetch", "told"}
      BY <1>2, <3>a, FetchCases DEF LInv, CountInv
    <3>0. gen = "fetch" /\ kind = "batch" /\ kind' = kind /\ index = Len(fetched)
      BY <3>a, <3>b DEF BatchInv
    <3>1. Len(BatchItems) \in Nat /\ Len(fetched) \in Nat /\ DOMAIN fetched = 1..Len(fetched)
      BY BatchAssumption, SeqFact, AppendAny DEF LInv, Types
    <3>2. CASE fetched' = Append(fetched, BatchItems[index']) /\ gen' = "expanded" /\ index # Len(BatchItems)
      <4>1. index' = index + 1 /\ index' \in 0..Len(BatchItems)
        BY <2>2, <3>0, <3>1, <3>2 DEF FetchBatch, BatchInv
      <4>2. /\ Len(fetched') = Len(fetched) + 1 /\ fetched'[Len(fetched) + 1] = BatchItems[index']
            /\ \A i \in 1..Len(fetched) : fetched'[i] = fetched[i]
        BY <3>2, AppendAny DEF LInv, Types
      <4>3. \A i \in 1..Len(fetched') : fetched'[i] = BatchItems[i]
        BY <3>0, <3>1, <4>1, <4>2 DEF BatchInv
      <4> QED
        BY <3>0, <3>1, <3>2, <4>1, <4>2, <4>3 DEF BatchInv
    <3>3. CASE /\ fetched' = fetched /\ gen' = "ended"
               /\ index = Len(BatchItems) \/ BatchItems[index'] = <<>>
      <4>1. index' \in 0..Len(BatchItems)
        BY <2>2, <3>0, <3>1 DEF FetchBatch, BatchInv
      <4>2. Len(fetched) < Len(BatchItems) => BatchItems[Len(fetched) + 1] = <<>>
        BY <2>2, <3>0, <3>1, <3>3 DEF FetchBatch
      <4> QED
        BY <3>0, <3>3, <4>1, <4>2 DEF BatchInv
    <3> QED
      BY <2>2, <3>2, <3>3 DEF FetchBatch, NoMoreRunners, Combination
  <2> QED
    BY <1>2, <2>1, <2>2 DEF Fetch
<1> QED
  BY <1>1, <1>2, <1>3, OtherSteps

\* The verdicts stay, and what each runner owes.
SameVerdict ==
  /\ UNCHANGED <<result, messages>> /\ Len(runners') = Len(runners) /\ DOMAIN runners' = DOMAIN runners
  /\ \A r \in DOMAIN runners :
       /\ runners'[r].combination = runners[r].combination /\ runners'[r].fetch = runners[r].fetch
       /\ runners'[r].running = runners[r].running /\ runners'[r].crashed = runners[r].crashed

\* Such a step keeps the invariant.
LEMMA SameVerdictStep ==
  ASSUME LInv, BisectInv, NoFetch, SameVerdict, kind = "git_bisect"
  PROVE  BisectInv'
<1>1. \A r \in DOMAIN runners : (Owes(r)' <=> Owes(r)) /\ (IsDone(r)' <=> IsDone(r))
  BY DEF SameVerdict, Owes, IsDone
<1>2. Known' <=> Known
  BY DEF SameVerdict, Known
<1>3. Commit' = Commit /\ UNCHANGED <<kind, early, good, bad, index, fetched, result, messages>>
  BY DEF Commit, NoFetch, SameVerdict
<1> QED
  BY <1>1, <1>2, <1>3 DEF BisectInv, NoFetch, SameVerdict

\* The main loop, without its tasks and runners, is made of such steps.
LEMMA SameVerdictSteps ==
  ASSUME LInv, kind = "git_bisect",
         \/ Start \/ WaitWorker \/ LeaveRunner \/ LeaveScan \/ EnoughRunners \/ BeginFetch
         \/ Expand \/ ExpandedCleanup \/ Cleanup \/ Flush \/ FlushRaises \/ Done \/ UNCHANGED vars
  PROVE  SameVerdict
<1>1. CASE UNCHANGED <<result, messages, runners>>
  BY <1>1 DEF SameVerdict
<1>2. CASE Start \/ WaitWorker \/ LeaveScan \/ EnoughRunners \/ BeginFetch
  BY <1>1, <1>2, Unpacked DEF Start, WaitWorker, LeaveScan, EnoughRunners, BeginFetch
<1>3. CASE Expand \/ ExpandedCleanup \/ Flush \/ FlushRaises
  BY <1>1, <1>3, Unpacked DEF Expand, ExpandedCleanup, Flush, FlushRaises
<1>4. CASE Done \/ UNCHANGED vars
  BY <1>1, <1>4 DEF Done, vars
<1>5. ASSUME NEW rs, NEW raising, runners' = Closed(rs, raising), UNCHANGED <<result, messages>>
      PROVE  SameVerdict
  BY <1>5, ClosedFact DEF SameVerdict, LInv, SameTasks
<1>6. CASE LeaveRunner
  <2>1. UNCHANGED <<result, messages>> /\ (CloseIfDone(Head(scan)) \/ CloseRaises(Head(scan)))
    BY <1>6, Unpacked DEF LeaveRunner
  <2> QED
    BY <1>1, <1>5, <2>1 DEF CloseIfDone, CloseRaises
<1>7. CASE Cleanup
  <2>1. UNCHANGED <<result, messages>> /\ CloseActive
    BY <1>7, Unpacked DEF Cleanup
  <2> QED
    BY <1>5, <2>1 DEF CloseActive
<1> QED
  BY <1>2, <1>3, <1>4, <1>6, <1>7

\* A task that starts can still tell.
LEMMA BisectSubmit ==
  ASSUME LInv, BisectInv, NoFetch, kind = "git_bisect", SubmitTask
  PROVE  BisectInv'
<1>1. PICK r : SubmitEffect(r)
  BY SubmitEffects
<1>2. r \in DOMAIN runners /\ DOMAIN runners' = DOMAIN runners /\ Len(runners') = Len(runners)
  BY <1>1 DEF SubmitEffect
<1>3. Owes(r)'
  <2>0. runners[r] \in Runner
    BY <1>2, SeqFact DEF LInv, Types
  <2>1. runners[r].fetch \in Nat /\ runners[r].fetch > 0
    BY <1>1, <2>0 DEF SubmitEffect, Runner
  <2>2. runners'[r].fetch > 0 \/ 1 \in runners'[r].running
    BY <1>1, <2>1 DEF SubmitEffect
  <2> QED
    BY <2>2 DEF Owes
<1>4. ~IsDone(r)
  BY <1>1 DEF SubmitEffect, IsDone
<1>5. \A x \in DOMAIN runners : /\ runners'[x].combination = runners[x].combination
                                /\ x # r => (IsDone(x)' <=> IsDone(x))
  BY <1>1 DEF SubmitEffect, IsDone
<1>6. Commit' = Commit /\ UNCHANGED <<kind, early, good, bad, index, fetched, result, messages>>
  BY <1>1 DEF Commit, NoFetch, SubmitEffect
<1> QED
  BY <1>2, <1>3, <1>4, <1>5, <1>6 DEF BisectInv, NoFetch

\* The end of a task reports on the last commit; the last task of a runner tells, and one
\* that raises never will.
LEMMA BisectEnd ==
  ASSUME LInv, BisectInv, NoFetch, kind = "git_bisect", ~early, TaskEnds
  PROVE  BisectInv'
<1>1. PICK r, t : EndEffect(r, t)
  BY EndEffects
<1>2. /\ r \in DOMAIN runners /\ DOMAIN runners' = DOMAIN runners /\ Len(runners') = Len(runners)
      /\ t \in runners[r].running
  BY <1>1 DEF EndEffect
<1>3. ~IsDone(r) /\ Known
  BY <1>2 DEF IsDone, Known
<1>4. Len(fetched) \in Nat /\ runners[r].combination \in Nat /\ Len(runners) > 0
  <2>1. runners[r] \in Runner /\ Len(runners) \in Nat /\ r \in 1..Len(runners)
    BY <1>2, SeqFact DEF LInv, Types
  <2>2. Len(fetched) \in Nat
    BY Lengths DEF LInv
  <2>3. Len(runners) > 0
    BY <2>1
  <2> QED
    BY <2>1, <2>2, <2>3 DEF Runner
<1>5. runners[r].combination = Len(fetched) /\ Len(fetched) # 0
  BY <1>2, <1>3, <1>4 DEF BisectInv
<1>6. Passes(r, t) <=> (t = 1 => Commit < FirstBad)
  BY <1>5 DEF Passes, Commit
<1>7. \A x \in DOMAIN runners : /\ runners'[x].combination = runners[x].combination
                                /\ x # r => (IsDone(x)' <=> IsDone(x)) /\ (Owes(x)' <=> Owes(x))
  BY <1>1 DEF EndEffect, IsDone, Owes
<1>8. Commit' = Commit /\ UNCHANGED <<kind, early, good, bad, index, fetched, result>>
  BY <1>1 DEF Commit, NoFetch, EndEffect
<1>9. Commit \in Int /\ FirstBad \in Int
  BY <1>5, CommitAssumption DEF BisectInv
<1> DEFINE m == [runner |-> r, passed |-> Passes(r, t)]
<1>10. CASE runners'[r].crashed = runners[r].crashed /\ messages' = Append(messages, m)
  <2>1. /\ DOMAIN messages' = 1..(Len(messages) + 1) /\ DOMAIN messages = 1..Len(messages)
        /\ Len(messages) \in Nat /\ messages'[Len(messages) + 1] = m
        /\ \A i \in 1..Len(messages) : messages'[i] = messages[i]
    BY <1>10, AppendAny DEF LInv, Types
  <2>2. m.passed = Passes(r, t)
    OBVIOUS
  <2> HIDE DEF m
  <2>3. ASSUME Commit < FirstBad PROVE \A i \in DOMAIN messages' : messages'[i].passed
    <3>1. m.passed
      BY <1>6, <2>2, <2>3
    <3>2. \A i \in 1..Len(messages) : messages[i].passed
      BY <1>5, <2>1, <2>3 DEF BisectInv
    <3> QED
      BY <2>1, <3>1, <3>2
  <2>4. ASSUME Commit >= FirstBad
        PROVE  \/ result = "failed" \/ \E i \in DOMAIN messages' : ~messages'[i].passed
               \/ \E x \in DOMAIN runners : Owes(x)'
    <3>0. \A i \in DOMAIN messages : i \in DOMAIN messages' /\ messages'[i] = messages[i]
      BY <2>1
    <3>1. CASE t = 1
      <4>1. ~m.passed
        BY <1>6, <1>9, <2>2, <2>4, <3>1
      <4>2. Len(messages) + 1 \in DOMAIN messages'
        BY <2>1
      <4> QED
        BY <2>1, <4>1, <4>2
    <3>2. CASE t # 1
      <4>1. Owes(r) => Owes(r)'
        BY <1>1, <1>10, <3>2 DEF EndEffect, Owes
      <4>2. \/ result = "failed" \/ \E i \in DOMAIN messages : ~messages[i].passed
            \/ \E x \in DOMAIN runners : Owes(x)
        BY <1>3, <1>5, <2>4 DEF BisectInv
      <4> QED
        BY <1>2, <1>7, <3>0, <4>1, <4>2
    <3> QED
      BY <3>1, <3>2
  <2> QED
    BY <1>2, <1>3, <1>5, <1>7, <1>8, <2>3, <2>4 DEF BisectInv, NoFetch
<1>11. CASE runners'[r].crashed = TRUE /\ UNCHANGED messages
  <2>1. Owes(r)'
    BY <1>11 DEF Owes
  <2> QED
    BY <1>2, <1>3, <1>5, <1>7, <1>8, <1>11, <2>1 DEF BisectInv, NoFetch
<1> QED
  BY <1>1, <1>10, <1>11 DEF EndEffect

\* The notifier takes the failure of a bad commit over into the verdict.
LEMMA BisectNotify ==
  ASSUME LInv, BisectInv, NoFetch, kind = "git_bisect", ~early, Notify
  PROVE  BisectInv'
<1>1. /\ messages # <<>> /\ messages' = Tail(messages) /\ result' = Combined(result, Head(messages).passed)
      /\ UNCHANGED <<runners, fetched>>
  BY DEF Notify
<1>2. PICK S : messages \in Seq(S)
  BY DEF LInv, Types, IsSeq
<1>3. /\ Len(messages) \in Nat /\ Len(messages) > 0 /\ DOMAIN messages = 1..Len(messages)
      /\ Head(messages) = messages[1] /\ DOMAIN messages' = 1..(Len(messages) - 1)
      /\ \A i \in 1..(Len(messages) - 1) : messages'[i] = messages[i + 1]
  <2>1. /\ Tail(messages) \in Seq(S) /\ Len(Tail(messages)) = Len(messages) - 1 /\ Len(messages) > 0
        /\ Head(messages) = messages[1]
        /\ \A i \in 1..(Len(messages) - 1) : Tail(messages)[i] = messages[i + 1]
    BY <1>1, <1>2, TailFact
  <2>2. DOMAIN Tail(messages) = 1..Len(Tail(messages)) /\ Len(messages) \in Nat /\ DOMAIN messages = 1..Len(messages)
    BY <1>2, <2>1, SeqFact
  <2> QED
    BY <1>1, <2>1, <2>2
<1>4. Known /\ Len(fetched) # 0 /\ Commit' = Commit
  BY <1>1 DEF Known, BisectInv, Commit
<1>5. \A r \in DOMAIN runners : (Owes(r)' <=> Owes(r)) /\ (IsDone(r)' <=> IsDone(r))
  BY <1>1 DEF Owes, IsDone
<1>6. ASSUME Commit < FirstBad PROVE result' # "failed" /\ \A i \in DOMAIN messages' : messages'[i].passed
  <2>1. result # "failed" /\ \A i \in DOMAIN messages : messages[i].passed
    BY <1>4, <1>6 DEF BisectInv
  <2>2. 1 \in DOMAIN messages /\ \A i \in 1..(Len(messages) - 1) : i + 1 \in DOMAIN messages
    BY <1>3
  <2> QED
    BY <1>1, <1>3, <2>1, <2>2 DEF Combined
<1>7. ASSUME Commit >= FirstBad
      PROVE  \/ result' = "failed" \/ \E i \in DOMAIN messages' : ~messages'[i].passed
             \/ \E r \in DOMAIN runners : Owes(r)
  <2>1. \/ result = "failed" \/ \E i \in DOMAIN messages : ~messages[i].passed
        \/ \E r \in DOMAIN runners : Owes(r)
    BY <1>4, <1>7 DEF BisectInv
  <2>2. CASE result = "failed"
    BY <1>1, <2>2 DEF Combined
  <2>3. CASE \E i \in DOMAIN messages : ~messages[i].passed
    <3>1. PICK i \in DOMAIN messages : ~messages[i].passed
      BY <2>3
    <3>2. CASE i = 1
      BY <1>1, <1>3, <3>1, <3>2 DEF Combined
    <3>3. CASE i # 1
      <4>1. i - 1 \in 1..(Len(messages) - 1) /\ (i - 1) + 1 = i
        BY <1>3, <3>3
      <4>2. i - 1 \in DOMAIN messages' /\ ~messages'[i - 1].passed
        BY <1>3, <3>1, <4>1
      <4> QED
        BY <4>2
    <3> QED
      BY <3>2, <3>3
  <2> QED
    BY <2>1, <2>2, <2>3
<1> QED
  BY <1>1, <1>4, <1>5, <1>6, <1>7 DEF BisectInv, NoFetch

\* A new runner is one of the last commit.
LEMMA BisectCreate ==
  ASSUME LInv, BisectInv, NoFetch, kind = "git_bisect", ~early, CreateRunner
  PROVE  BisectInv'
<1>1. CASE UNCHANGED <<runners, result, messages>>
  BY <1>1, SameVerdictStep DEF SameVerdict
<1>2. CASE \E n : CreateEffect(n)
  <2>1. PICK n : CreateEffect(n)
    BY <1>2
  <2>2. /\ n \notin DOMAIN runners /\ DOMAIN runners' = DOMAIN runners \cup {n}
        /\ Len(fetched) > 0 /\ UNCHANGED <<result, messages>> /\ gen' = gen /\ gen = "runners"
    BY <2>1 DEF CreateEffect, LInv, CountInv
  <2>3. runners'[n].combination = Len(fetched) /\ runners'[n].running = {} /\ Len(fetched) \in Nat
    BY <2>1, AppendAny DEF CreateEffect, NewRunner, Current, LInv, Types
  <2>4. \A x \in DOMAIN runners : /\ runners'[x] = runners[x]
                                  /\ (Owes(x)' <=> Owes(x)) /\ (IsDone(x)' <=> IsDone(x))
    BY <2>1 DEF CreateEffect, Owes, IsDone
  <2>5. Commit' = Commit /\ UNCHANGED <<kind, early, good, bad, index, fetched>>
    BY DEF Commit, NoFetch
  <2>6. Known' => Known
    BY <2>2, <2>3, <2>4 DEF Known
  <2> QED
    BY <2>2, <2>3, <2>4, <2>5, <2>6 DEF BisectInv, NoFetch
<1> QED
  BY <1>1, <1>2, CreateEffects

\* A verdict taken when all runners are done and no result is on its way is right.
LEMMA BisectProcess ==
  ASSUME LInv, BisectInv, kind = "git_bisect", ProcessResult
  PROVE  BisectInv'
<1>1. /\ gen = "fetch" /\ UNCHANGED <<kind, runners, messages, fetched, index, result>>
      /\ Commit' = Commit
  BY ProcessCases DEF Commit
<1>2. CASE UNCHANGED <<gen, good, bad, early>>
  <2>1. NoFetch /\ SameVerdict
    BY <1>1, <1>2, ProcessCases DEF NoFetch, SameVerdict
  <2> QED
    BY <2>1, SameVerdictStep
<1>3. CASE ~(index > 0 /\ result = NoResult)
  <2> SUFFICES ASSUME ~early' PROVE BisectInv'
    BY DEF BisectInv
  <2>1. /\ good' = IF index > 0 /\ result = "passed" THEN Commit ELSE good
        /\ bad' = IF index > 0 /\ result = "failed" THEN Commit ELSE bad
        /\ ~early /\ messages = <<>> /\ \A r \in DOMAIN runners : IsDone(r)
        /\ gen' = "told"
    BY <1>3 DEF ProcessResult, Commit
  <2>2. index = Len(fetched) /\ Len(fetched) \in Nat
    BY <1>1, <2>1, AppendAny DEF BisectInv, LInv, Types
  <2>3. \A r \in DOMAIN runners : ~Owes(r) /\ (IsDone(r)' <=> IsDone(r)) /\ (Owes(r)' <=> Owes(r))
    BY <1>1, <2>1 DEF IsDone, Owes
  <2>4. ASSUME index > 0, result = "passed" PROVE Commit \in Int /\ Commit < FirstBad
    <3>1. Known /\ Len(fetched) # 0
      BY <2>2, <2>4 DEF Known, NoResult
    <3>2. Commit \in Int /\ FirstBad \in Int
      BY <2>1, <3>1, CommitAssumption DEF BisectInv
    <3>3. ~(Commit >= FirstBad)
      <4>1. DOMAIN messages = {}
        BY <2>1
      <4> QED
        BY <2>1, <2>3, <2>4, <3>1, <4>1 DEF BisectInv
    <3> QED
      BY <3>2, <3>3
  <2>5. ASSUME index > 0, result = "failed" PROVE Commit \in Int /\ FirstBad <= Commit
    <3>1. Len(fetched) # 0
      BY <2>2, <2>5
    <3>2. Commit \in Int /\ FirstBad \in Int
      BY <2>1, <3>1, CommitAssumption DEF BisectInv
    <3>3. ~(Commit < FirstBad)
      BY <2>1, <2>5, <3>1 DEF BisectInv
    <3> QED
      BY <3>2, <3>3
  <2>6. good' \in Int /\ bad' \in Int /\ good' < FirstBad /\ FirstBad <= bad'
    BY <2>1, <2>4, <2>5 DEF BisectInv
  <2>7. Known' <=> Known
    BY <1>1 DEF Known
  <2> QED
    BY <1>1, <2>1, <2>3, <2>6, <2>7 DEF BisectInv
<1> QED
  BY <1>2, <1>3 DEF ProcessResult

\* The verdict is forgotten with the next commit, about which nothing is known yet.
LEMMA BisectFetch ==
  ASSUME LInv, BisectInv, kind = "git_bisect", Fetch
  PROVE  BisectInv'
<1>1. /\ gen = "told" /\ FetchBisect /\ UNCHANGED <<runners, messages>>
      /\ UNCHANGED <<kind, early, good, bad>>
  BY Unpacked DEF Fetch, FetchGrid, FetchBatch, FetchBisect
<1> SUFFICES ASSUME ~early PROVE BisectInv'
  BY <1>1 DEF BisectInv
<1>2. /\ result' = NoResult /\ index' = index + 1
      /\ \/ fetched' = fetched /\ gen' = "ended"
         \/ fetched' = Append(fetched, (good + bad) \div 2) /\ gen' = "expanded"
  BY <1>1 DEF FetchBisect, NoMoreRunners, Combination
<1>3. /\ messages = <<>> /\ \A r \in DOMAIN runners : IsDone(r)
      /\ index = Len(fetched) /\ Len(fetched) \in Nat
      /\ good \in Int /\ bad \in Int /\ good < FirstBad /\ FirstBad <= bad
  BY <1>1, AppendAny DEF BisectInv, LInv, Types
<1>4. \A r \in DOMAIN runners : IsDone(r)' /\ runners'[r].running = {}
  BY <1>1, <1>3 DEF IsDone
<1>7. ~Known'
  BY <1>1, <1>2, <1>3, <1>4 DEF Known
<1>8. result' # "failed" /\ DOMAIN messages' = {} /\ messages' = <<>>
  BY <1>1, <1>2, <1>3 DEF NoResult
<1>9. \A r \in DOMAIN runners : runners'[r].combination <= Len(fetched) /\ runners[r].combination \in Nat
  <2>1. \A r \in DOMAIN runners : runners[r] \in Runner
    BY SeqFact DEF LInv, Types
  <2> QED
    BY <1>1, <2>1 DEF BisectInv, Runner
<1>10. CASE fetched' = fetched /\ gen' = "ended"
  <2>1. Commit' = Commit
    BY <1>10 DEF Commit
  <2> QED
    BY <1>1, <1>2, <1>3, <1>4, <1>7, <1>8, <1>9, <1>10, <2>1 DEF BisectInv
<1>11. CASE fetched' = Append(fetched, (good + bad) \div 2) /\ gen' = "expanded"
  <2>1. Len(fetched') = Len(fetched) + 1 /\ fetched'[Len(fetched) + 1] = (good + bad) \div 2
    BY <1>11, AppendAny DEF LInv, Types
  <2>2. Commit' \in Int
    BY <1>3, <2>1 DEF Commit
  <2>3. \A r \in DOMAIN runners : runners'[r].combination <= Len(fetched')
    BY <1>1, <1>3, <1>9, <2>1
  <2> QED
    BY <1>1, <1>2, <1>3, <1>4, <1>7, <1>8, <1>11, <2>1, <2>2, <2>3 DEF BisectInv
<1> QED
  BY <1>2, <1>10, <1>11

\* Every step keeps what git bisect knows.
LEMMA BisectStep ==
  ASSUME LInv, BisectInv, [Next]_vars
  PROVE  BisectInv'
<1>k. UNCHANGED kind
  BY OtherSteps, ProcessCases, FetchCases DEF NoFetch
<1> SUFFICES ASSUME kind = "git_bisect", ~early' PROVE BisectInv'
  BY <1>k DEF BisectInv
<1>1. CASE Fetch
  BY <1>1, BisectFetch
<1>3. CASE ProcessResult
  BY <1>3, BisectProcess
<1>2. CASE NoFetch
  <2>1. ~early
    BY <1>2 DEF NoFetch
  <2>2. CASE \/ Start \/ WaitWorker \/ LeaveRunner \/ LeaveScan \/ EnoughRunners \/ BeginFetch
             \/ Expand \/ ExpandedCleanup \/ Cleanup \/ Flush \/ FlushRaises \/ Done \/ UNCHANGED vars
    BY <1>2, <2>2, SameVerdictSteps, SameVerdictStep
  <2>3. CASE SubmitTask BY <1>2, <2>3, BisectSubmit
  <2>4. CASE TaskEnds BY <1>2, <2>1, <2>4, BisectEnd
  <2>5. CASE Notify BY <1>2, <2>1, <2>5, BisectNotify
  <2>6. CASE CreateRunner BY <1>2, <2>1, <2>6, BisectCreate
  <2> QED
    BY <1>1, <1>3, <2>2, <2>3, <2>4, <2>5, <2>6 DEF Next, Main
<1> QED
  BY <1>1, <1>2, <1>3, OtherSteps

\* Init knows one good commit, the first, and one bad, the last.
LEMMA InitCombinator == Init => BisectInv /\ BatchInv
<1> SUFFICES ASSUME Init PROVE BisectInv /\ BatchInv
  OBVIOUS
<1>1. Len(<<>>) = 0 /\ DOMAIN <<>> = {} /\ Len(BatchItems) \in Nat
  BY BatchAssumption, SeqFact
<1>2. BisectInv
  BY <1>1, CommitAssumption DEF Init, BisectInv
<1>3. BatchInv
  BY <1>1 DEF Init, BatchInv
<1> QED
  BY <1>2, <1>3

\* Only the bisect combinator moves the bounds.
LEMMA BoundsStep ==
  ASSUME LInv, BisectInv, BisectInv', BisectKeepsCulprit, [Next]_vars
  PROVE  BisectKeepsCulprit'
<1>1. CASE NoFetch
  BY <1>1 DEF NoFetch, BisectKeepsCulprit
<1>2. CASE Fetch
  <2>1. CASE FetchGrid \/ FetchBatch
    BY <2>1 DEF FetchGrid, FetchBatch, bisect, BisectKeepsCulprit
  <2>2. CASE FetchBisect
    BY <2>2 DEF FetchBisect, BisectKeepsCulprit
  <2> QED
    BY <1>2, <2>1, <2>2 DEF Fetch
<1>3. CASE ProcessResult
  <2>1. kind' = "git_bisect"
    BY <1>3, ProcessCases
  <2> QED
    BY <2>1 DEF BisectInv, BisectKeepsCulprit
<1> QED
  BY <1>1, <1>2, <1>3, OtherSteps

CInv == LInv /\ BisectInv /\ BatchInv /\ BisectKeepsCulprit

\* They hold in every state of a run.
THEOREM CombinatorInvariance == Spec => []CInv
<1>1. Init => CInv
  BY InitLInv, InitCombinator, CommitAssumption DEF Init, BisectKeepsCulprit, CInv
<1>2. CInv /\ [Next]_vars => CInv'
  BY NextLInv, BisectStep, BatchStep, BoundsStep DEF CInv
<1> QED
  BY <1>1, <1>2, PTL DEF Spec

\* git bisect never loses the first bad commit, whatever the repository, the number of
\* runners and tasks and their order, as long as each verdict is taken when the results
\* of its commit are in.
THEOREM CulpritKept == Spec => []BisectKeepsCulprit
  BY CombinatorInvariance, PTL DEF CInv

-----------------------------------------------------------------------------
(* The combinations of a grid *)

\* Numbers have a least one.
LEMMA LeastNatural ==
  ASSUME NEW T \in SUBSET Nat, T # {}
  PROVE  \E x \in T : \A y \in T : x <= y
<1> DEFINE R == {ss \in Nat \X Nat : ss[1] < ss[2]}
<1>1. IsWellFoundedOn(R, Nat)
  BY NatLessThanWellFounded, Zenon DEF OpToRel
<1>2. PICK x \in T : \A y \in T : ~(<<y, x>> \in R)
  <2> HIDE DEF R
  <2> QED
    BY <1>1, WFMin
<1>3. ASSUME NEW y \in T, ~(x <= y) PROVE FALSE
  <2>1. x \in Nat /\ y \in Nat /\ y < x
    BY <1>3
  <2>2. <<y, x>> \in R
    BY <2>1
  <2> QED
    BY <1>2, <2>2
<1> QED
  BY <1>3

\* Quotient and remainder
LEMMA DivMod ==
  ASSUME NEW a \in Int, NEW s \in Nat \ {0}
  PROVE  a \div s \in Int /\ a % s \in 0..(s - 1) /\ a = s * (a \div s) + (a % s)
OBVIOUS

\* There is only one.
LEMMA DivUnique ==
  ASSUME NEW s \in Nat \ {0}, NEW q \in Int, NEW r \in 0..(s - 1)
  PROVE  (s * q + r) \div s = q /\ (s * q + r) % s = r
OBVIOUS

\* Dividing twice
LEMMA DivDiv ==
  ASSUME NEW n \in Nat, NEW w \in Nat \ {0}, NEW s \in Nat \ {0}
  PROVE  w * s \in Nat \ {0} /\ n \div (w * s) = (n \div w) \div s
<1> DEFINE q == n \div w
           r == n % w
           p == q \div s
           t == q % s
           m == w * s
<1>1. q \in Int /\ r \in 0..(w - 1) /\ n = w * q + r
  BY DivMod
<1>2. p \in Int /\ t \in 0..(s - 1) /\ q = s * p + t
  BY <1>1, DivMod
<1> HIDE DEF q, r, p, t
<1>3. m \in Nat \ {0}
  OBVIOUS
<1>4. w * (s * p) = m * p
  BY <1>2
<1>5. w * q = w * (s * p) + w * t
  BY <1>2
<1>6. w * t >= 0 /\ w * t <= w * (s - 1) /\ w * (s - 1) = m - w /\ w * t \in Int
  BY <1>2
<1> HIDE DEF m
<1>7. m * p \in Int
  BY <1>2, <1>3
<1>8. n = m * p + (w * t + r) /\ w * t + r \in 0..(m - 1)
  BY <1>1, <1>3, <1>4, <1>5, <1>6, <1>7
<1>9. n \div m = p
  BY <1>2, <1>3, <1>8, DivUnique
<1> QED
  BY <1>3, <1>9 DEF m, p, q

\* A multiple of the divisor less
LEMMA DivLess ==
  ASSUME NEW b \in Int, NEW k \in Int, NEW s \in Nat \ {0}
  PROVE  (b - s * k) \div s = b \div s - k /\ (b - s * k) % s = b % s
<1> DEFINE q == b \div s
           r == b % s
<1>1. q \in Int /\ r \in 0..(s - 1) /\ b = s * q + r
  BY DivMod
<1> HIDE DEF q, r
<1>2. s * (q - k) = s * q - s * k /\ s * q \in Int /\ s * k \in Int /\ q - k \in Int
  BY <1>1
<1>3. b - s * k = s * (q - k) + r
  BY <1>1, <1>2
<1>4. (s * (q - k) + r) \div s = q - k /\ (s * (q - k) + r) % s = r
  BY <1>1, <1>2, DivUnique
<1> QED
  BY <1>3, <1>4 DEF q, r

\* One after the other, all numbers up to N + 1 are in T.
LEMMA OneByOne ==
  ASSUME NEW N \in Nat, NEW T, 1 \in T, \A i \in 1..N : i \in T => i + 1 \in T
  PROVE  \A i \in 1..(N + 1) : i \in T
<1> DEFINE Bad == {i \in Nat : i \in 1..(N + 1) /\ i \notin T}
<1> SUFFICES ASSUME Bad # {} PROVE FALSE
  OBVIOUS
<1>1. Bad \in SUBSET Nat
  OBVIOUS
<1>2. PICK i \in Bad : \A j \in Bad : i <= j
  <2> HIDE DEF Bad
  <2> QED
    BY <1>1, LeastNatural
<1>3. i \in 1..(N + 1) /\ i \notin T /\ i # 1
  BY <1>2
<1>4. i - 1 \in 1..N /\ (i - 1) + 1 = i /\ i - 1 \in Nat /\ i - 1 \in 1..(N + 1) /\ ~(i <= i - 1)
  BY <1>3
<1>5. i - 1 \notin Bad
  <2> HIDE DEF Bad
  <2> QED
    BY <1>2, <1>4
<1>6. i - 1 \in T
  BY <1>4, <1>5
<1> QED
  BY <1>3, <1>4, <1>6

\* f goes from one value to the next by G.
Iterates(f, N, V, v, G) == f \in [1..(N + 1) -> V] /\ f[1] = v /\ \A i \in 1..N : f[i + 1] = G[<<i, f[i]>>]

\* There is such a function.
LEMMA Recursion ==
  ASSUME NEW N \in Nat, NEW V, NEW v \in V, NEW G \in [(1..N) \X V -> V]
  PROVE  \E f : Iterates(f, N, V, v, G)
<1> DEFINE Upto(n) == \E f \in [1..(n + 1) -> V] : f[1] = v /\ \A i \in 1..n : f[i + 1] = G[<<i, f[i]>>]
           Bad == {n \in 0..N : ~Upto(n)}
<1>1. SUFFICES ASSUME ~Upto(N) PROVE FALSE
  BY DEF Iterates
<1>2. Bad \in SUBSET Nat /\ N \in Bad
  BY <1>1
<1>3. PICK n \in Bad : \A m \in Bad : n <= m
  BY <1>2, LeastNatural
<1>4. n # 0
  <2> SUFFICES Upto(0)
    BY <1>3
  <2> DEFINE f == [i \in 1..(0 + 1) |-> v]
  <2>1. f \in [1..(0 + 1) -> V] /\ f[1] = v /\ \A i \in 1..0 : f[i + 1] = G[<<i, f[i]>>]
    OBVIOUS
  <2> QED
    BY <2>1
<1>5. n \in 1..N /\ n - 1 \in 0..N /\ n - 1 \notin Bad /\ (n - 1) + 1 = n
  <2>1. n \in 0..N
    BY <1>3
  <2>2. n \in 1..N /\ n - 1 \in 0..N /\ n - 1 < n /\ (n - 1) + 1 = n
    BY <1>4, <2>1
  <2> HIDE DEF Bad
  <2> QED
    BY <1>3, <2>2
<1>6. PICK f \in [1..n -> V] : f[1] = v /\ \A i \in 1..(n - 1) : f[i + 1] = G[<<i, f[i]>>]
  BY <1>5
<1> DEFINE g == [i \in 1..(n + 1) |-> IF i = n + 1 THEN G[<<n, f[n]>>] ELSE f[i]]
<1>7. f[n] \in V /\ G[<<n, f[n]>>] \in V
  <2>1. n \in 1..n
    BY <1>5
  <2>2. f[n] \in V
    BY <2>1
  <2>3. <<n, f[n]>> \in (1..N) \X V
    BY <1>5, <2>2
  <2> QED
    BY <2>2, <2>3
<1>8. g \in [1..(n + 1) -> V] /\ g[1] = v
  BY <1>5, <1>6, <1>7
<1>9. ASSUME NEW i \in 1..n PROVE g[i + 1] = G[<<i, g[i]>>]
  <2>1. CASE i = n
    <3>1. n + 1 \in 1..(n + 1) /\ n \in 1..(n + 1) /\ n # n + 1
      BY <1>5
    <3>2. g[n + 1] = G[<<n, f[n]>>] /\ g[n] = f[n]
      BY <3>1
    <3> QED
      BY <2>1, <3>2
  <2>2. CASE i # n
    <3>1. i \in 1..(n - 1) /\ i + 1 \in 1..n /\ i + 1 # n + 1 /\ i # n + 1
      BY <1>5, <2>2
    <3>2. g[i + 1] = f[i + 1] /\ g[i] = f[i]
      BY <1>5, <3>1
    <3> QED
      BY <1>6, <3>1, <3>2
  <2> QED
    BY <2>1, <2>2
<1>10. Upto(n)
  BY <1>8, <1>9
<1> QED
  BY <1>3, <1>10

\* The weights of the digits
LEMMA WeightsFact ==
  /\ Len(GridSizes) \in Nat /\ DOMAIN GridSizes = 1..Len(GridSizes)
  /\ \A i \in 1..Len(GridSizes) : GridSizes[i] \in Nat \ {0}
  /\ \A i \in 1..(Len(GridSizes) + 1) : Weights[i] \in Nat \ {0}
  /\ Weights[1] = 1
  /\ \A i \in 1..Len(GridSizes) : Weights[i + 1] = Weights[i] * GridSizes[i]
<1> DEFINE N == Len(GridSizes)
           V == Nat \ {0}
           G == [x \in (1..N) \X V |-> x[2] * GridSizes[x[1]]]
<1>1. N \in Nat /\ DOMAIN GridSizes = 1..N /\ \A i \in 1..N : GridSizes[i] \in V
  BY GridAssumption
<1> HIDE DEF N
<1>2. G \in [(1..N) \X V -> V]
  <2>1. \A a, b \in V : a * b \in V
    OBVIOUS
  <2> QED
    BY <1>1, <2>1
<1>3. PICK f : Iterates(f, N, V, 1, G)
  <2>1. 1 \in V
    OBVIOUS
  <2> HIDE DEF V, G
  <2> QED
    BY <1>1, <1>2, <2>1, Recursion
<1>4. \A i \in 1..N : i \in 1..(N + 1) /\ f[i] \in V /\ G[<<i, f[i]>>] = f[i] * GridSizes[i]
  BY <1>1, <1>3 DEF Iterates
<1>5. f = [i \in 1..(N + 1) |-> IF i = 1 THEN 1 ELSE f[i - 1] * GridSizes[i - 1]]
  <2>1. \A i \in 1..(N + 1) : i # 1 => i - 1 \in 1..N /\ (i - 1) + 1 = i
    BY <1>1
  <2> HIDE DEF V, G
  <2>2. \A i \in 1..(N + 1) : f[i] = IF i = 1 THEN 1 ELSE f[i - 1] * GridSizes[i - 1]
    BY <1>3, <1>4, <2>1 DEF Iterates
  <2> QED
    BY <1>3, <2>2 DEF Iterates
<1> DEFINE W == CHOOSE w : w = [i \in 1..(N + 1) |-> IF i = 1 THEN 1 ELSE w[i - 1] * GridSizes[i - 1]]
<1>6. Weights = W
  BY DEF Weights, N
<1>7. W = [i \in 1..(N + 1) |-> IF i = 1 THEN 1 ELSE W[i - 1] * GridSizes[i - 1]]
  BY <1>5
<1> HIDE DEF W
<1>8. /\ \A i \in 1..N : /\ i \in 1..(N + 1) /\ i + 1 \in 1..(N + 1) /\ i + 1 # 1 /\ (i + 1) - 1 = i
                         /\ W[i + 1] = W[i] * GridSizes[i]
      /\ W[1] = 1
  BY <1>1, <1>7
<1>9. \A i \in 1..(N + 1) : W[i] \in V
  <2> DEFINE T == {i \in 1..(N + 1) : W[i] \in V}
  <2>1. 1 \in T
    BY <1>1, <1>8
  <2>2. \A i \in 1..N : i \in T => i + 1 \in T
    BY <1>1, <1>8
  <2> HIDE DEF T
  <2>3. \A i \in 1..(N + 1) : i \in T
    BY <1>1, <2>1, <2>2, OneByOne
  <2> QED
    BY <2>3 DEF T
<1> QED
  BY <1>1, <1>6, <1>8, <1>9 DEF N

\* What is carried into each variable, as GridCombinator._next computes it.
LEMMA CarriesFact ==
  ASSUME NEW ixs, \A i \in 1..Len(GridSizes) : ixs[i] \in Int
  PROVE  /\ \A i \in 1..(Len(GridSizes) + 1) : Carries(ixs)[i] \in Int
         /\ Carries(ixs)[1] = 1
         /\ \A i \in 1..Len(GridSizes) : Carries(ixs)[i + 1] = (Carries(ixs)[i] + ixs[i]) \div GridSizes[i]
<1> DEFINE N == Len(GridSizes)
           V == Int
           G == [x \in (1..N) \X V |-> (x[2] + ixs[x[1]]) \div GridSizes[x[1]]]
           C == CHOOSE c : c = [i \in 1..(N + 1) |-> IF i = 1 THEN 1 ELSE (c[i - 1] + ixs[i - 1]) \div GridSizes[i - 1]]
<1>1. N \in Nat /\ \A i \in 1..N : GridSizes[i] \in Nat \ {0} /\ ixs[i] \in Int
  BY WeightsFact
<1>2. Carries(ixs) = C
  BY DEF Carries
<1> HIDE DEF N
<1>3. G \in [(1..N) \X V -> V]
  BY <1>1
<1>4. PICK f : Iterates(f, N, V, 1, G)
  <2>1. 1 \in V
    OBVIOUS
  <2> HIDE DEF V, G
  <2> QED
    BY <1>1, <1>3, <2>1, Recursion
<1>5. \A i \in 1..N : f[i + 1] = (f[i] + ixs[i]) \div GridSizes[i]
  <2> TAKE i \in 1..N
  <2>1. f[i] \in V /\ f[i + 1] = G[<<i, f[i]>>]
    <3> HIDE DEF V, G
    <3>1. i \in 1..(N + 1)
      BY <1>1
    <3> QED
      BY <1>4, <3>1 DEF Iterates
  <2>2. <<i, f[i]>> \in (1..N) \X V
    BY <2>1
  <2> QED
    BY <2>1, <2>2
<1>6. f = [i \in 1..(N + 1) |-> IF i = 1 THEN 1 ELSE (f[i - 1] + ixs[i - 1]) \div GridSizes[i - 1]]
  <2>1. \A i \in 1..(N + 1) : i # 1 => i - 1 \in 1..N /\ (i - 1) + 1 = i
    BY <1>1
  <2> HIDE DEF G
  <2>2. \A i \in 1..(N + 1) : f[i] = IF i = 1 THEN 1 ELSE (f[i - 1] + ixs[i - 1]) \div GridSizes[i - 1]
    BY <1>4, <1>5, <2>1 DEF Iterates
  <2> QED
    BY <1>4, <2>2 DEF Iterates
<1>7. C = [i \in 1..(N + 1) |-> IF i = 1 THEN 1 ELSE (C[i - 1] + ixs[i - 1]) \div GridSizes[i - 1]]
  BY <1>6
<1> HIDE DEF C
<1>8. /\ \A i \in 1..N : C[i + 1] = (C[i] + ixs[i]) \div GridSizes[i]
      /\ C[1] = 1
  <2>1. \A i \in 1..N : i + 1 \in 1..(N + 1) /\ i + 1 # 1 /\ (i + 1) - 1 = i
    BY <1>1
  <2> QED
    BY <1>1, <1>7, <2>1
<1>9. \A i \in 1..(N + 1) : C[i] \in Int
  <2> DEFINE T == {i \in 1..(N + 1) : C[i] \in Int}
  <2>1. 1 \in T
    BY <1>1, <1>8
  <2>2. ASSUME NEW i \in 1..N, i \in T PROVE i + 1 \in T
    <3>1. C[i] + ixs[i] \in Int /\ GridSizes[i] \in Nat \ {0} /\ i + 1 \in 1..(N + 1)
      BY <1>1, <2>2
    <3>2. C[i + 1] \in Int
      BY <1>8, <3>1
    <3> QED
      BY <3>1, <3>2
  <2> HIDE DEF T
  <2>3. \A i \in 1..(N + 1) : i \in T
    BY <1>1, <2>1, <2>2, OneByOne
  <2> QED
    BY <2>3 DEF T
<1> QED
  BY <1>2, <1>8, <1>9 DEF N

\* The number n by its digits
Digits(n) == [i \in DOMAIN GridSizes |-> Digit(n, i)]

\* Adding one to the digits of n carries what the quotients of n + 1 have more.
LEMMA CarriesCount ==
  ASSUME NEW n \in Nat, NEW i \in 1..(Len(GridSizes) + 1)
  PROVE  Carries(Digits(n))[i] = (n + 1) \div Weights[i] - n \div Weights[i]
<1> DEFINE N == Len(GridSizes)
           C == Carries(Digits(n))
           added(j) == (n + 1) \div Weights[j] - n \div Weights[j]
<1>1. /\ N \in Nat /\ DOMAIN GridSizes = 1..N /\ \A j \in 1..N : GridSizes[j] \in Nat \ {0}
      /\ \A j \in 1..(N + 1) : Weights[j] \in Nat \ {0}
      /\ Weights[1] = 1 /\ \A j \in 1..N : Weights[j + 1] = Weights[j] * GridSizes[j]
  BY WeightsFact
<1>2. \A j \in 1..N : Digits(n)[j] = (n \div Weights[j]) % GridSizes[j]
  BY <1>1 DEF Digits, Digit
<1>3. \A j \in 1..N : Digits(n)[j] \in Int
  <2> TAKE j \in 1..N
  <2>1. Weights[j] \in Nat \ {0} /\ GridSizes[j] \in Nat \ {0}
    BY <1>1
  <2> QED
    BY <1>2, <2>1
<1>4. C[1] = 1 /\ \A j \in 1..N : C[j + 1] = (C[j] + Digits(n)[j]) \div GridSizes[j]
  BY <1>3, CarriesFact
<1> HIDE DEF N, C
<1>5. ASSUME NEW j \in 1..N, C[j] = added(j) PROVE C[j + 1] = added(j + 1)
  <2> DEFINE w == Weights[j]
             s == GridSizes[j]
             a == n \div w
             b == (n + 1) \div w
  <2>1. w \in Nat \ {0} /\ s \in Nat \ {0} /\ Weights[j + 1] = w * s
    BY <1>1
  <2>2. C[j + 1] = (b - a + (a % s)) \div s
    BY <1>2, <1>4, <1>5
  <2> HIDE DEF w, s
  <2>3. a \in Int /\ b \in Int
    BY <2>1
  <2>4. n \div (w * s) = a \div s /\ (n + 1) \div (w * s) = b \div s
    BY <2>1, DivDiv
  <2> HIDE DEF a, b
  <2>5. a \div s \in Int /\ a % s \in Int /\ a = s * (a \div s) + (a % s) /\ s * (a \div s) \in Int
    <3>1. a \div s \in Int /\ a % s \in 0..(s - 1) /\ a = s * (a \div s) + (a % s)
      BY <2>1, <2>3, DivMod
    <3>2. a % s \in Int
      BY <2>1, <3>1
    <3>3. \A k \in Int : s * k \in Int
      BY <2>1
    <3> QED
      BY <3>1, <3>2, <3>3, Zenon
  <2>6. b - a + (a % s) = b - s * (a \div s)
    BY <2>3, <2>5
  <2>7. (b - s * (a \div s)) \div s = b \div s - a \div s
    BY <2>1, <2>3, <2>5, DivLess
  <2> QED
    BY <2>1, <2>2, <2>4, <2>6, <2>7
<1> DEFINE T == {j \in 1..(N + 1) : C[j] = added(j)}
<1>6. 1 \in T
  BY <1>1, <1>4
<1>7. \A j \in 1..N : j \in T => j + 1 \in T
  <2> TAKE j \in 1..N
  <2>1. j + 1 \in 1..(N + 1)
    BY <1>1
  <2> HIDE DEF added
  <2> QED
    BY <1>5, <2>1
<1> HIDE DEF T
<1>8. \A j \in 1..(N + 1) : j \in T
  BY <1>1, <1>6, <1>7, OneByOne
<1> QED
  BY <1>8 DEF T, C, N

\* _next counts: from the digits of n to those of n + 1, and over at the last number.
LEMMA NextDigits ==
  ASSUME NEW n \in Nat
  PROVE  /\ NextIndexes(Digits(n)) = Digits(n + 1)
         /\ n < Weights[Len(GridSizes) + 1] => (Overflow(Digits(n)) <=> n + 1 = Weights[Len(GridSizes) + 1])
<1> DEFINE N == Len(GridSizes)
           C == Carries(Digits(n))
<1>1. /\ N \in Nat /\ DOMAIN GridSizes = 1..N /\ \A j \in 1..N : GridSizes[j] \in Nat \ {0}
      /\ \A j \in 1..(N + 1) : Weights[j] \in Nat \ {0}
  BY WeightsFact
<1>2. ASSUME NEW j \in 1..N PROVE (C[j] + Digits(n)[j]) % GridSizes[j] = Digit(n + 1, j)
  <2> DEFINE w == Weights[j]
             s == GridSizes[j]
             a == n \div w
             b == (n + 1) \div w
  <2>1. w \in Nat \ {0} /\ s \in Nat \ {0}
    BY <1>1
  <2>2. C[j] = b - a
    BY <1>1, CarriesCount
  <2>3. Digits(n)[j] = a % s /\ Digit(n + 1, j) = b % s
    BY <1>1 DEF Digits, Digit
  <2> HIDE DEF w, s, C
  <2>4. a \in Int /\ b \in Int
    BY <2>1
  <2> HIDE DEF a, b
  <2>5. a \div s \in Int /\ a % s \in Int /\ a = s * (a \div s) + (a % s) /\ s * (a \div s) \in Int
    <3>1. a \div s \in Int /\ a % s \in 0..(s - 1) /\ a = s * (a \div s) + (a % s)
      BY <2>1, <2>4, DivMod
    <3>2. a % s \in Int
      BY <2>1, <3>1
    <3>3. \A k \in Int : s * k \in Int
      BY <2>1
    <3> QED
      BY <3>1, <3>2, <3>3, Zenon
  <2>6. b - a + (a % s) = b - s * (a \div s)
    BY <2>4, <2>5
  <2>7. (b - s * (a \div s)) % s = b % s
    BY <2>1, <2>4, <2>5, DivLess
  <2>8. (C[j] + Digits(n)[j]) % s = b % s
    BY <2>2, <2>3, <2>6, <2>7
  <2> QED
    BY <2>3, <2>8 DEF s
<1>3. NextIndexes(Digits(n)) = Digits(n + 1)
  <2>1. DOMAIN Digits(n) = 1..N /\ DOMAIN Digits(n + 1) = 1..N /\ \A j \in 1..N : Digits(n + 1)[j] = Digit(n + 1, j)
    BY <1>1 DEF Digits
  <2>2. NextIndexes(Digits(n)) = [j \in 1..N |-> (C[j] + Digits(n)[j]) % GridSizes[j]]
    BY <2>1 DEF NextIndexes
  <2>3. Digits(n + 1) = [j \in 1..N |-> Digit(n + 1, j)]
    BY <1>1 DEF Digits
  <2> HIDE DEF N, C
  <2> QED
    BY <1>2, <2>2, <2>3
<1>4. ASSUME n < Weights[N + 1] PROVE Overflow(Digits(n)) <=> n + 1 = Weights[N + 1]
  <2> DEFINE t == Weights[N + 1]
  <2>1. t \in Nat \ {0} /\ C[N + 1] = (n + 1) \div t - n \div t
    BY <1>1, CarriesCount
  <2>2. Overflow(Digits(n)) <=> C[N + 1] # 0
    BY DEF Overflow
  <2> HIDE DEF t, C
  <2>3. n < t
    BY <1>4 DEF t
  <2>4. n \div t = 0
    BY <2>1, <2>3
  <2>5. n + 1 = t => (n + 1) \div t = 1
    BY <2>1, <2>3
  <2>6. n + 1 # t => (n + 1) \div t = 0
    BY <2>1, <2>3
  <2> QED
    BY <2>1, <2>2, <2>4, <2>5, <2>6 DEF t
<1> QED
  BY <1>3, <1>4

\* The first combination is all zeros.
LEMMA FirstDigits ==
  /\ NextIndexes(FirstIndexes) = Digits(0)
  /\ GridSizes # <<>> => ~Overflow(FirstIndexes)
  /\ GridSizes # <<>> => Len(GridSizes) >= 1
<1> DEFINE N == Len(GridSizes)
           C == Carries(FirstIndexes)
           T == {j \in 1..(N + 1) : C[j] = IF j = 1 THEN 1 ELSE 0}
<1>1. /\ N \in Nat /\ DOMAIN GridSizes = 1..N /\ \A j \in 1..N : GridSizes[j] \in Nat \ {0}
      /\ \A j \in 1..(N + 1) : Weights[j] \in Nat \ {0}
  BY WeightsFact
<1>2. \A j \in 1..N : FirstIndexes[j] = IF j = 1 THEN -1 ELSE 0
  BY <1>1 DEF FirstIndexes
<1>3. C[1] = 1 /\ \A j \in 1..N : C[j + 1] = (C[j] + FirstIndexes[j]) \div GridSizes[j]
  BY <1>2, CarriesFact
<1> HIDE DEF N, C
<1>4. \A j \in 2..(N + 1) : C[j] = 0
  <2>1. 1 \in T
    BY <1>1, <1>3
  <2>2. ASSUME NEW j \in 1..N, j \in T PROVE j + 1 \in T
    <3>1. C[j] + FirstIndexes[j] = 0
      BY <1>2, <2>2
    <3>2. C[j + 1] = 0 \div GridSizes[j] /\ GridSizes[j] \in Nat \ {0}
      BY <1>1, <1>3, <3>1
    <3>3. C[j + 1] = 0 /\ j + 1 \in 1..(N + 1) /\ j + 1 # 1
      BY <1>1, <3>2
    <3> QED
      BY <3>3
  <2> HIDE DEF T
  <2>3. \A j \in 1..(N + 1) : j \in T
    BY <1>1, <2>1, <2>2, OneByOne
  <2> QED
    BY <2>3 DEF T
<1>5. \A j \in 1..N : (C[j] + FirstIndexes[j]) % GridSizes[j] = 0
  <2> TAKE j \in 1..N
  <2>1. C[j] + FirstIndexes[j] = 0
    <3>1. CASE j = 1
      BY <1>2, <1>3, <3>1
    <3>2. CASE j # 1
      <4>1. j \in 2..(N + 1)
        BY <1>1, <3>2
      <4> QED
        BY <1>2, <1>4, <3>2, <4>1
    <3> QED
      BY <3>1, <3>2
  <2> QED
    BY <1>1, <2>1
<1>6. \A j \in 1..N : Digit(0, j) = 0
  <2> TAKE j \in 1..N
  <2>1. Weights[j] \in Nat \ {0} /\ GridSizes[j] \in Nat \ {0}
    BY <1>1
  <2>2. 0 \div Weights[j] = 0
    BY <2>1
  <2> QED
    BY <2>1, <2>2 DEF Digit
<1>7. NextIndexes(FirstIndexes) = Digits(0)
  <2>1. NextIndexes(FirstIndexes) = [j \in 1..N |-> (C[j] + FirstIndexes[j]) % GridSizes[j]]
    BY <1>1 DEF NextIndexes, FirstIndexes, C
  <2>2. Digits(0) = [j \in 1..N |-> Digit(0, j)]
    BY <1>1 DEF Digits
  <2> QED
    BY <1>5, <1>6, <2>1, <2>2
<1>8. ASSUME GridSizes # <<>> PROVE N >= 1 /\ ~Overflow(FirstIndexes)
  <2>1. N # 0
    BY <1>8, GridAssumption DEF N
  <2>2. N + 1 \in 2..(N + 1)
    BY <1>1, <2>1
  <2> QED
    BY <1>1, <1>4, <2>1, <2>2 DEF Overflow, N, C
<1> QED
  BY <1>7, <1>8 DEF N

\* The grid has yielded the numbers from zero on, by their digits, and stands at the last.
GridInv ==
  kind = "grid" =>
    /\ \A i \in 1..Len(fetched) : fetched[i] = Digits(i - 1)
    /\ Len(fetched) <= GridTotal
    /\ gen # "ended" => indexes = IF Len(fetched) = 0 THEN FirstIndexes ELSE Digits(Len(fetched) - 1)
    /\ gen = "ended" => Len(fetched) = GridTotal

\* The next indexes are the next number, or the last one was reached.
LEMMA GridFetch ==
  ASSUME NEW n \in Nat, n <= GridTotal,
         indexes = IF n = 0 THEN FirstIndexes ELSE Digits(n - 1)
  PROVE  /\ NextIndexes(indexes) = Digits(n)
         /\ GridTotal \in Nat
         /\ Overflow(indexes) \/ GridSizes = <<>> => n = GridTotal
         /\ ~(Overflow(indexes) \/ GridSizes = <<>>) => n + 1 <= GridTotal
<1> DEFINE W == Weights[Len(GridSizes) + 1]
<1>1. W \in Nat \ {0} /\ (GridSizes # <<>> => GridTotal = W) /\ (GridSizes = <<>> => GridTotal = 0)
  <2>1. Len(GridSizes) + 1 \in 1..(Len(GridSizes) + 1)
    BY WeightsFact
  <2> QED
    BY <2>1, WeightsFact DEF GridTotal
<1>2. CASE n = 0
  BY <1>1, <1>2, FirstDigits
<1>3. CASE n # 0
  <2>1. n - 1 \in Nat /\ (n - 1) + 1 = n /\ GridSizes # <<>> /\ GridTotal = W /\ n - 1 < W
    BY <1>1, <1>3
  <2>2. NextIndexes(Digits(n - 1)) = Digits(n) /\ (Overflow(Digits(n - 1)) <=> n = W)
    BY <2>1, NextDigits
  <2> HIDE DEF W
  <2> QED
    BY <1>1, <1>3, <2>1, <2>2
<1> QED
  BY <1>2, <1>3

\* Every step keeps the invariant of the grid.
LEMMA GridStep ==
  ASSUME LInv, GridInv, [Next]_vars
  PROVE  GridInv'
<1>1. CASE NoFetch
  BY <1>1 DEF NoFetch, GridInv, LInv, Types
<1>3. CASE ProcessResult
  BY <1>3, ProcessCases DEF GridInv
<1>2. CASE Fetch
  <2>1. CASE FetchBatch \/ (gen = "told" /\ FetchBisect)
    BY <2>1, Unpacked DEF FetchBatch, FetchBisect, GridInv, LInv, CountInv
  <2>2. CASE FetchGrid
    <3> DEFINE n == Len(fetched)
    <3>1. kind = "grid" /\ kind' = kind /\ gen # "ended" /\ indexes' = NextIndexes(indexes)
      BY <1>2, <2>2, FetchCases DEF FetchGrid
    <3>2. n \in Nat /\ n <= GridTotal /\ indexes = IF n = 0 THEN FirstIndexes ELSE Digits(n - 1)
      BY <3>1, Lengths DEF LInv, GridInv
    <3>3. /\ indexes' = Digits(n) /\ GridTotal \in Nat
          /\ Overflow(indexes) \/ GridSizes = <<>> => n = GridTotal
          /\ ~(Overflow(indexes) \/ GridSizes = <<>>) => n + 1 <= GridTotal
      BY <3>1, <3>2, GridFetch
    <3>4. CASE Overflow(indexes) \/ GridSizes = <<>>
      <4>1. fetched' = fetched /\ gen' = "ended" /\ n = GridTotal
        BY <2>2, <3>3, <3>4 DEF FetchGrid, NoMoreRunners
      <4> QED
        BY <3>1, <3>2, <4>1 DEF GridInv
    <3>5. CASE ~(Overflow(indexes) \/ GridSizes = <<>>)
      <4>1. fetched' = Append(fetched, Digits(n)) /\ gen' = "expanded" /\ n + 1 <= GridTotal
        BY <2>2, <3>3, <3>5 DEF FetchGrid, Combination
      <4>2. /\ Len(fetched') = n + 1 /\ fetched'[n + 1] = Digits(n)
            /\ \A i \in 1..n : fetched'[i] = fetched[i]
        BY <4>1, AppendAny DEF LInv, Types
      <4>3. \A i \in 1..(n + 1) : fetched'[i] = Digits(i - 1)
        <5> TAKE i \in 1..(n + 1)
        <5>1. CASE i = n + 1
          <6>1. i - 1 = n
            BY <3>2, <5>1
          <6> QED
            BY <4>2, <5>1, <6>1
        <5>2. CASE i \in 1..n
          BY <3>1, <4>2, <5>2 DEF GridInv
        <5> QED
          BY <3>2, <5>1, <5>2
      <4>4. n + 1 # 0 /\ (n + 1) - 1 = n
        BY <3>2
      <4> QED
        BY <3>1, <3>3, <4>1, <4>2, <4>3, <4>4 DEF GridInv
    <3> QED
      BY <3>4, <3>5
  <2> QED
    BY <1>2, <2>1, <2>2 DEF Fetch
<1> QED
  BY <1>1, <1>2, <1>3, OtherSteps

\* A grid yields every combination of its variables once, counting with the first variable
\* fastest; a batch its items in order, and all of them if none is empty.
THEOREM CombinationsYielded == Spec => []CombinationsInOrder
<1>1. Init => GridInv
  <2> SUFFICES ASSUME Init PROVE GridInv
    OBVIOUS
  <2>1. fetched = <<>> /\ Len(fetched) = 0 /\ gen = "begin" /\ indexes = FirstIndexes
    BY DEF Init
  <2>2. 0 <= GridTotal
    <3>1. Len(GridSizes) + 1 \in 1..(Len(GridSizes) + 1)
      BY WeightsFact
    <3> QED
      BY <3>1, WeightsFact DEF GridTotal
  <2> QED
    BY <2>1, <2>2 DEF GridInv
<1>2. CInv /\ GridInv /\ [Next]_vars => GridInv'
  BY GridStep DEF CInv
<1>3. CInv /\ GridInv => CombinationsInOrder
  <2> SUFFICES ASSUME LInv, BatchInv, GridInv PROVE CombinationsInOrder
    BY DEF CInv
  <2>1. DOMAIN fetched = 1..Len(fetched)
    BY AppendAny DEF LInv, Types
  <2>2. ASSUME kind = "grid", NEW i \in DOMAIN fetched, NEW v \in DOMAIN GridSizes
        PROVE  fetched[i][v] = Digit(i - 1, v)
    BY <2>1, <2>2 DEF GridInv, Digits
  <2>3. ASSUME kind = "batch", gen = "ended", <<>> \notin Range(BatchItems)
        PROVE  Len(fetched) = Len(BatchItems)
    <3>1. Len(BatchItems) \in Nat /\ DOMAIN BatchItems = 1..Len(BatchItems) /\ Len(fetched) \in Nat
      BY BatchAssumption, SeqFact, Lengths DEF LInv
    <3>2. CASE Len(fetched) < Len(BatchItems)
      <4>1. Len(fetched) + 1 \in DOMAIN BatchItems
        BY <3>1, <3>2
      <4>2. BatchItems[Len(fetched) + 1] # <<>>
        BY <2>3, <4>1 DEF Range
      <4> QED
        BY <2>3, <3>2, <4>2 DEF BatchInv
    <3>3. Len(fetched) <= Len(BatchItems)
      BY <2>3 DEF BatchInv
    <3> QED
      BY <3>1, <3>2, <3>3
  <2> QED
    BY <2>1, <2>2, <2>3 DEF BatchInv, GridInv, CombinationsInOrder
<1> QED
  BY <1>1, <1>2, <1>3, CombinatorInvariance, PTL DEF Spec

-----------------------------------------------------------------------------
(* A list without some of its items *)

\* How many of the first n items of a list are in a set.
Among(s, S, n) == Cardinality({j \in 1..n : s[j] \in S})

\* Each item in the set counts one.
LEMMA AmongFact ==
  ASSUME NEW s, NEW S, NEW i \in Nat
  PROVE  /\ Among(s, S, i) \in Nat /\ Among(s, S, 0) = 0
         /\ s[i + 1] \in S => Among(s, S, i + 1) = Among(s, S, i) + 1
         /\ s[i + 1] \notin S => Among(s, S, i + 1) = Among(s, S, i)
         /\ \A k \in 0..i : Among(s, S, k) <= Among(s, S, i)
<1> DEFINE C(n) == {j \in 1..n : s[j] \in S}
<1>1. \A n \in Nat : IsFiniteSet(C(n)) /\ Cardinality(C(n)) \in Nat
  <2> TAKE n \in Nat
  <2>1. IsFiniteSet(1..n)
    BY FS_Interval
  <2>2. C(n) \subseteq 1..n
    OBVIOUS
  <2> QED
    BY <2>1, <2>2, FS_Subset, FS_CardinalityType
<1>2. C(0) = {}
  OBVIOUS
<1>3. i + 1 \notin C(i) /\ (s[i + 1] \in S => C(i + 1) = C(i) \cup {i + 1}) /\ (s[i + 1] \notin S => C(i + 1) = C(i))
  OBVIOUS
<1>4. \A k \in 0..i : C(k) \subseteq C(i)
  OBVIOUS
<1>5. \A k \in 0..i : Cardinality(C(k)) <= Cardinality(C(i))
  BY <1>1, <1>4, FS_Subset
<1>6. s[i + 1] \in S => Cardinality(C(i + 1)) = Cardinality(C(i)) + 1
  BY <1>1, <1>3, FS_AddElement
<1>7. Cardinality(C(0)) = 0
  BY <1>2, FS_EmptySet
<1> QED
  BY <1>1, <1>3, <1>5, <1>6, <1>7 DEF Among

\* o has the items of s that are in S, all of them and in their order.
Filters(o, s, S) ==
  \E pos \in [1..Len(o) -> 1..Len(s)] :
    /\ \A k \in 1..Len(o) : o[k] = s[pos[k]]
    /\ \A k, l \in 1..Len(o) : pos[k] < pos[l] => k < l
    /\ \A i \in 1..Len(s) : s[i] \in S => \E k \in 1..Len(o) : pos[k] = i

\* That is what Only gives.
LEMMA OnlyFact ==
  ASSUME NEW T, NEW s \in Seq(T), NEW S
  PROVE  Only(s, S) \in Seq(T \cap S) /\ Filters(Only(s, S), s, S)
<1> DEFINE count(n) == Among(s, S, n)
           N == Len(s)
           c == [n \in 0..N |-> count(n)]
           at(k, i) == s[i] \in S /\ c[i] = k
<1>0. N \in Nat /\ \A i \in 1..N : s[i] \in T /\ i \in Nat /\ i - 1 \in 0..N
  OBVIOUS
<1> HIDE DEF N
<1>1. /\ c[0] = 0 /\ \A n \in 0..N : c[n] \in Nat
      /\ \A n \in 0..N : \A k \in 0..n : c[k] <= c[n]
      /\ \A n \in 1..N : c[n] = IF s[n] \in S THEN c[n - 1] + 1 ELSE c[n - 1]
  <2>1. /\ count(0) = 0 /\ \A n \in Nat : count(n) \in Nat
        /\ \A n \in Nat : \A k \in 0..n : count(k) <= count(n)
        /\ \A n \in Nat : /\ s[n + 1] \in S => count(n + 1) = count(n) + 1
                          /\ s[n + 1] \notin S => count(n + 1) = count(n)
    BY AmongFact
  <2> HIDE DEF count
  <2>2. \A n \in 1..N : n - 1 \in Nat /\ n - 1 \in 0..N /\ n \in 0..N /\ (n - 1) + 1 = n
    BY <1>0
  <2>3. \A n \in 1..N : count(n) = IF s[n] \in S THEN count(n - 1) + 1 ELSE count(n - 1)
    BY <2>1, <2>2
  <2>4. 0 \in 0..N /\ N \in 0..N /\ \A n \in 0..N : n \in Nat /\ \A k \in 0..n : k \in 0..N
    BY <1>0
  <2> QED
    BY <2>1, <2>2, <2>3, <2>4
<1>2. Only(s, S) = [k \in 1..c[N] |-> s[CHOOSE i \in 1..N : at(k, i)]]
  <2>1. c[N] = count(N) /\ \A i \in 1..N : c[i] = count(i)
    BY <1>0
  <2>2. \A k \in 1..c[N] : (CHOOSE i \in 1..N : s[i] \in S /\ count(i) = k) = (CHOOSE i \in 1..N : at(k, i))
    BY <2>1
  <2> HIDE DEF count, c, at
  <2>3. Only(s, S) = [k \in 1..count(N) |-> s[CHOOSE i \in 1..N : s[i] \in S /\ count(i) = k]]
    BY Zenon DEF Only, Among, count, N
  <2> QED
    BY <2>1, <2>2, <2>3
<1> HIDE DEF c
<1>3. ASSUME NEW k \in 1..c[N] PROVE \E i \in 1..N : at(k, i)
  <2> DEFINE U == {n \in 0..N : k <= c[n]}
  <2>1. N \in U /\ U \in SUBSET Nat
    BY <1>0, <1>1
  <2>2. PICK i \in U : \A y \in U : i <= y
    BY <2>1, LeastNatural
  <2>3. i # 0 /\ i \in 1..N /\ i - 1 \in 0..N /\ i - 1 \notin U
    BY <1>0, <1>1, <2>2
  <2>4. c[i - 1] < k /\ k <= c[i] /\ c[i] \in Nat /\ c[i - 1] \in Nat /\ k \in Nat
    BY <1>1, <2>2, <2>3, <1>0
  <2>5. at(k, i)
    BY <1>1, <2>3, <2>4
  <2> QED
    BY <2>3, <2>5
<1>4. \A i, j \in 1..N : s[j] \in S /\ i < j => c[i] < c[j]
  <2> TAKE i, j \in 1..N
  <2> HAVE s[j] \in S /\ i < j
  <2>1. j - 1 \in 0..N /\ i \in 0..(j - 1) /\ i \in 0..N
    BY <1>0
  <2>2. c[i] <= c[j - 1] /\ c[j] = c[j - 1] + 1
    BY <1>1, <2>1
  <2> QED
    BY <1>1, <2>1, <2>2
<1> DEFINE pos == [k \in 1..c[N] |-> CHOOSE i \in 1..N : at(k, i)]
<1>5. \A k \in 1..c[N] : pos[k] \in 1..N /\ at(k, pos[k])
  <2> HIDE DEF at
  <2> QED
    BY <1>3
<1>6. /\ DOMAIN pos = 1..c[N] /\ pos \in [1..c[N] -> 1..N]
  BY <1>5
<1>7. Only(s, S) = [k \in 1..c[N] |-> s[pos[k]]]
  <2> HIDE DEF at
  <2> QED
    BY <1>2
<1> HIDE DEF pos
<1>8. c[N] \in Nat /\ \A k \in 1..c[N] : s[pos[k]] \in T \cap S
  BY <1>0, <1>1, <1>5
<1>9. Only(s, S) \in Seq(T \cap S) /\ Len(Only(s, S)) = c[N] /\ \A k \in 1..c[N] : Only(s, S)[k] = s[pos[k]]
  BY <1>7, <1>8
<1>10. \A k, l \in 1..c[N] : pos[k] < pos[l] => k < l
  BY <1>4, <1>5
<1>11. ASSUME NEW i \in 1..N, s[i] \in S PROVE \E k \in 1..c[N] : pos[k] = i
  <2>1. c[i] \in 1..c[N]
    <3>1. c[i] = c[i - 1] + 1 /\ c[i - 1] \in Nat /\ c[i] <= c[N] /\ c[N] \in Nat
      BY <1>0, <1>1, <1>11
    <3> QED
      BY <3>1
  <2>2. pos[c[i]] \in 1..N /\ s[pos[c[i]]] \in S /\ c[pos[c[i]]] = c[i]
    BY <1>5, <2>1
  <2>3. c[i] \in Int
    BY <2>1
  <2>4. pos[c[i]] = i
    BY <1>0, <1>4, <1>11, <2>2, <2>3
  <2> QED
    BY <2>1, <2>4
<1> QED
  BY <1>6, <1>9, <1>10, <1>11 DEF N, Filters

-----------------------------------------------------------------------------
(* The order of the transformers *)

PhaseBy(name) == ByName(Loaded, name).phase

\* The order of the phases, by name
Rank == [init |-> 1, expanded |-> 2, environment_connected |-> 3, expanded_cleanup |-> 4, cleanup |-> 5]

\* The phases and their ranks
LEMMA RankFact ==
  /\ DOMAIN Rank = {"init", "expanded", "environment_connected", "expanded_cleanup", "cleanup"}
  /\ Rank["init"] = 1 /\ Rank["expanded"] = 2 /\ Rank["environment_connected"] = 3
  /\ Rank["expanded_cleanup"] = 4 /\ Rank["cleanup"] = 5
  BY DEF Rank

\* A list of transformers of the phases lo to hi, in their order.
ByRank(s, lo, hi) ==
  /\ s \in Seq(NamesOf(Loaded))
  /\ \A i \in 1..Len(s) : PhaseBy(s[i]) \in DOMAIN Rank /\ Rank[PhaseBy(s[i])] \in lo..hi
  /\ \A i, j \in 1..Len(s) : i < j => Rank[PhaseBy(s[i])] <= Rank[PhaseBy(s[j])]

\* Later phases follow.
LEMMA RankJoin ==
  ASSUME NEW s, NEW t, NEW lo \in Nat, NEW mid \in Nat, NEW hi \in Nat, lo <= mid, mid < hi,
         ByRank(s, lo, mid), ByRank(t, mid + 1, hi)
  PROVE  ByRank(s \o t, lo, hi)
<1> DEFINE u == s \o t
           rank(n) == Rank[PhaseBy(n)]
<1>1. /\ u \in Seq(NamesOf(Loaded)) /\ Len(u) = Len(s) + Len(t) /\ Len(s) \in Nat /\ Len(t) \in Nat
      /\ \A i \in 1..Len(s) : u[i] = s[i]
      /\ \A i \in (Len(s) + 1)..(Len(s) + Len(t)) : u[i] = t[i - Len(s)]
  BY DEF ByRank
<1>2. /\ \A i \in 1..Len(s) : PhaseBy(s[i]) \in DOMAIN Rank /\ rank(s[i]) \in lo..mid
      /\ \A i \in 1..Len(t) : PhaseBy(t[i]) \in DOMAIN Rank /\ rank(t[i]) \in (mid + 1)..hi
      /\ \A i, j \in 1..Len(s) : i < j => rank(s[i]) <= rank(s[j])
      /\ \A i, j \in 1..Len(t) : i < j => rank(t[i]) <= rank(t[j])
  BY DEF ByRank
<1> HIDE DEF u, rank
<1>3. \A i \in 1..Len(u) : \/ i \in 1..Len(s) /\ u[i] = s[i]
                           \/ i > Len(s) /\ i - Len(s) \in 1..Len(t) /\ u[i] = t[i - Len(s)]
  BY <1>1
<1>4. \A i \in 1..Len(u) : PhaseBy(u[i]) \in DOMAIN Rank /\ rank(u[i]) \in lo..hi
  BY <1>2, <1>3
<1>5. ASSUME NEW i \in 1..Len(u), NEW j \in 1..Len(u), i < j PROVE rank(u[i]) <= rank(u[j])
  <2>1. CASE j \in 1..Len(s)
    <3>1. i \in 1..Len(s) /\ u[i] = s[i] /\ u[j] = s[j]
      BY <1>1, <1>5, <2>1
    <3> QED
      BY <1>2, <1>5, <2>1, <3>1
  <2>2. CASE i \in 1..Len(s) /\ j - Len(s) \in 1..Len(t) /\ u[j] = t[j - Len(s)]
    <3>1. rank(u[i]) \in lo..mid /\ rank(u[j]) \in (mid + 1)..hi
      BY <1>1, <1>2, <2>2
    <3> QED
      BY <3>1
  <2>3. CASE i > Len(s)
    <3>1. /\ i - Len(s) \in 1..Len(t) /\ u[i] = t[i - Len(s)] /\ j - Len(s) \in 1..Len(t) /\ u[j] = t[j - Len(s)]
          /\ i - Len(s) < j - Len(s)
      BY <1>1, <1>5, <2>3
    <3> QED
      BY <1>2, <3>1
  <2> QED
    BY <1>3, <2>1, <2>2, <2>3
<1> QED
  BY <1>1, <1>4, <1>5 DEF ByRank, u, rank

\* "sort by phase" sorts by phase.
LEMMA RankSorted == ByRank(ByPhase(Loaded, SortDfs(Loaded).sorted), 1, 5)
<1> DEFINE names == SortDfs(Loaded).sorted
           part(p) == Only(names, {n \in NamesOf(Loaded) : ByName(Loaded, n).phase = p})
<1>1. names \in Seq(NamesOf(Loaded))
  BY SortAssumption
<1>2. ByPhase(Loaded, names) = part("init") \o part("expanded") \o part("environment_connected")
                                 \o part("expanded_cleanup") \o part("cleanup")
  BY Zenon DEF ByPhase
<1> HIDE DEF names
<1>3. ASSUME NEW p \in DOMAIN Rank PROVE ByRank(part(p), Rank[p], Rank[p])
  <2> DEFINE S == {n \in NamesOf(Loaded) : ByName(Loaded, n).phase = p}
  <2>1. part(p) \in Seq(NamesOf(Loaded) \cap S)
    BY <1>1, OnlyFact
  <2>2. Rank[p] \in Nat
    BY <1>3 DEF Rank
  <2> HIDE DEF part
  <2>3. \A i \in 1..Len(part(p)) : part(p)[i] \in S
    BY <2>1
  <2>4. \A i \in 1..Len(part(p)) : PhaseBy(part(p)[i]) = p
    BY <2>3 DEF PhaseBy
  <2>5. part(p) \in Seq(NamesOf(Loaded))
    BY <2>1
  <2> HIDE DEF S
  <2> QED
    BY <1>3, <2>2, <2>4, <2>5 DEF ByRank
<1> HIDE DEF part
<1>5. /\ ByRank(part("init"), 1, 1) /\ ByRank(part("expanded"), 2, 2) /\ ByRank(part("environment_connected"), 3, 3)
      /\ ByRank(part("expanded_cleanup"), 4, 4) /\ ByRank(part("cleanup"), 5, 5)
  BY <1>3, RankFact
<1>6. ByRank(part("init") \o part("expanded"), 1, 2)
  BY <1>5, RankJoin
<1>7. ByRank(part("init") \o part("expanded") \o part("environment_connected"), 1, 3)
  BY <1>5, <1>6, RankJoin
<1>8. ByRank(part("init") \o part("expanded") \o part("environment_connected") \o part("expanded_cleanup"), 1, 4)
  BY <1>5, <1>7, RankJoin
<1>9. ByRank(ByPhase(Loaded, names), 1, 5)
  BY <1>2, <1>5, <1>8, RankJoin
<1> QED
  BY <1>9 DEF names

\* What _sort returns, if it does not raise.
LEMMA SortFact ==
  ASSUME ~Unsorted
  PROVE  ByRank(Sort(Loaded), 1, 5) /\ References(Loaded, Sort(Loaded))
<1>1. /\ Sort(Loaded) = ByPhase(Loaded, SortDfs(Loaded).sorted)
      /\ References(Loaded, ByPhase(Loaded, SortDfs(Loaded).sorted))
  BY DEF Unsorted, Sort
<1> QED
  BY <1>1, RankSorted

\* The phases
LEMMA PhasesFact == DOMAIN Rank \subseteq ToSet(Phases)
<1>1. /\ DOMAIN Phases = 1..Len(Phases) /\ Len(Phases) = 5 /\ Phases[1] = "init" /\ Phases[2] = "expanded"
      /\ Phases[3] = "environment_connected" /\ Phases[4] = "expanded_cleanup" /\ Phases[5] = "cleanup"
  BY DEF Phases
<1>2. 1 \in 1..5 /\ 2 \in 1..5 /\ 3 \in 1..5 /\ 4 \in 1..5 /\ 5 \in 1..5
  OBVIOUS
<1> QED
  BY <1>1, <1>2, RankFact DEF ToSet

\* The transformers of a phase that are enabled, in the order of _sort.
LEMMA PhaseList ==
  ASSUME NEW p \in DOMAIN Rank
  PROVE  /\ PhaseNames[p] \in Seq(NamesOf(Loaded))
         /\ \A k \in 1..Len(PhaseNames[p]) : PhaseBy(PhaseNames[p][k]) = p
         /\ Unsorted => PhaseNames[p] = <<>>
<1> DEFINE S == {n \in NamesOf(Loaded) : ByName(Loaded, n).phase = p /\ ByName(Loaded, n).enabled}
<1>1. p \in ToSet(Phases)
  BY PhasesFact
<1>2. PhaseNames[p] = IF Unsorted THEN <<>> ELSE Only(Sort(Loaded), S)
  BY <1>1 DEF PhaseNames, PhaseRun, Loaded
<1>3. CASE Unsorted
  BY <1>2, <1>3
<1>4. CASE ~Unsorted
  <2>1. Sort(Loaded) \in Seq(NamesOf(Loaded))
    BY <1>4, SortFact DEF ByRank
  <2>2. PhaseNames[p] \in Seq(NamesOf(Loaded) \cap S)
    BY <1>2, <1>4, <2>1, OnlyFact
  <2>3. \A k \in 1..Len(PhaseNames[p]) : PhaseNames[p][k] \in S
    BY <2>2
  <2> QED
    BY <1>4, <2>2, <2>3 DEF PhaseBy
<1> QED
  BY <1>3, <1>4

\* The transformers of a phase that are enabled
InPhase(p) == {n \in NamesOf(Loaded) : ByName(Loaded, n).phase = p /\ ByName(Loaded, n).enabled}

\* They are in the order that _sort gives them.
LEMMA InOrder ==
  ASSUME ~Unsorted, NEW p \in DOMAIN Rank
  PROVE  Filters(PhaseNames[p], Sort(Loaded), InPhase(p))
<1>1. p \in ToSet(Phases)
  BY PhasesFact
<1>2. PhaseNames[p] = Only(Sort(Loaded), InPhase(p))
  BY <1>1 DEF PhaseNames, PhaseRun, Loaded, InPhase
<1>3. Sort(Loaded) \in Seq(NamesOf(Loaded))
  BY SortFact DEF ByRank
<1> QED
  BY <1>2, <1>3, OnlyFact

\* What a transformer depends on comes before it in its phase, or in an earlier one.
LEMMA Depends ==
  ASSUME NEW p \in DOMAIN Rank, NEW k \in 1..Len(PhaseNames[p]),
         NEW d \in ToSet(ByName(Loaded, PhaseNames[p][k]).depends_on), ByName(Loaded, d).enabled
  PROVE  /\ PhaseBy(d) \in DOMAIN Rank
         /\ \/ PhaseBy(d) = p /\ \E l \in 1..(k - 1) : PhaseNames[p][l] = d
            \/ /\ Rank[PhaseBy(d)] < Rank[p]
               /\ \E l \in 1..Len(PhaseNames[PhaseBy(d)]) : PhaseNames[PhaseBy(d)][l] = d
<1> DEFINE names == Sort(Loaded)
<1>1. ~Unsorted
  BY PhaseList
<1>2. ByRank(names, 1, 5) /\ References(Loaded, names) /\ names \in Seq(NamesOf(Loaded)) /\ Len(names) \in Nat
  BY <1>1, SortFact DEF ByRank
<1>4. PICK pos \in [1..Len(PhaseNames[p]) -> 1..Len(names)] :
        /\ \A x \in 1..Len(PhaseNames[p]) : PhaseNames[p][x] = names[pos[x]]
        /\ \A x, y \in 1..Len(PhaseNames[p]) : pos[x] < pos[y] => x < y
        /\ \A i \in 1..Len(names) : names[i] \in InPhase(p) => \E x \in 1..Len(PhaseNames[p]) : pos[x] = i
  BY <1>1, InOrder DEF Filters
<1> HIDE DEF names
<1>5. pos[k] \in 1..Len(names) /\ names[pos[k]] = PhaseNames[p][k] /\ PhaseBy(names[pos[k]]) = p
  BY <1>4, PhaseList
<1>6. PICK j \in 1..(pos[k] - 1) : names[j] = d
  <2>1. d \in ToSet(ByName(Loaded, names[pos[k]]).depends_on)
    BY <1>5
  <2>2. pos[k] \in DOMAIN names
    BY <1>2, <1>5
  <2> QED
    BY <1>2, <2>1, <2>2 DEF References
<1>7. j \in 1..Len(names) /\ j < pos[k] /\ d \in NamesOf(Loaded)
  BY <1>2, <1>5, <1>6
<1>8. PhaseBy(d) \in DOMAIN Rank /\ Rank[PhaseBy(d)] <= Rank[p] /\ d \in InPhase(PhaseBy(d))
  BY <1>2, <1>5, <1>6, <1>7 DEF ByRank, PhaseBy, InPhase
<1>9. CASE PhaseBy(d) = p
  <2>1. PICK l \in 1..Len(PhaseNames[p]) : pos[l] = j
    BY <1>4, <1>6, <1>7, <1>8, <1>9
  <2>2. l < k /\ PhaseNames[p][l] = d
    BY <1>4, <1>6, <1>7, <2>1
  <2>3. l \in 1..(k - 1)
    BY <2>2
  <2> QED
    BY <1>8, <1>9, <2>2, <2>3
<1>10. CASE PhaseBy(d) # p
  <2> DEFINE q == PhaseBy(d)
  <2>1. Rank[q] < Rank[p]
    <3>1. \A x, y \in DOMAIN Rank : Rank[x] \in Nat /\ (Rank[x] = Rank[y] => x = y)
      BY DEF Rank
    <3> QED
      BY <1>8, <1>10, <3>1
  <2>2. PICK at \in [1..Len(PhaseNames[q]) -> 1..Len(names)] :
          /\ \A x \in 1..Len(PhaseNames[q]) : PhaseNames[q][x] = names[at[x]]
          /\ \A i \in 1..Len(names) : names[i] \in InPhase(q) => \E x \in 1..Len(PhaseNames[q]) : at[x] = i
    BY <1>1, <1>8, InOrder DEF names, Filters
  <2>3. PICK l \in 1..Len(PhaseNames[q]) : at[l] = j
    BY <1>6, <1>7, <1>8, <2>2
  <2>4. PhaseNames[q][l] = d
    BY <1>6, <2>2, <2>3
  <2> QED
    BY <1>8, <2>1, <2>4
<1> QED
  BY <1>9, <1>10

-----------------------------------------------------------------------------
(* expanded_cleanup waits for the runners *)

\* The generator creates no more runners of the current combination.
Closing == gen \in {"fetch", "told", "ended"} \/ pc \in {"cleanup", "flush", "done"}

PhaseOf(t) == ByName(Loaded, t.name).phase

\* With one worker the loop asks for another runner only when the last is done, and the
\* current combination gets no runner after its expanded_cleanup.
CleanInv ==
  /\ IsSeq(ran)
  /\ \A r \in DOMAIN runners : runners[r].combination \in 1..Len(fetched)
  /\ \A i \in DOMAIN ran :
       /\ ran[i].combination \in 0..Len(fetched)
       /\ PhaseOf(ran[i]) = "expanded_cleanup" /\ ran[i].combination = Len(fetched) => Closing
  /\ concurrency = 1 =>
       \A i \in DOMAIN ran : \A r \in DOMAIN runners :
         PhaseOf(ran[i]) = "expanded_cleanup" /\ ran[i].combination = runners[r].combination => IsDone(r)

\* No runner comes, and one that is done stays so.
RunnersKept ==
  /\ DOMAIN runners' = DOMAIN runners
  /\ \A r \in DOMAIN runners : runners'[r].combination = runners[r].combination /\ (IsDone(r) => IsDone(r)')

\* A step in which no transformer runs.
LEMMA CleanFrame ==
  ASSUME CleanInv, RunnersKept, UNCHANGED <<ran, fetched, concurrency>>, Closing => Closing'
  PROVE  CleanInv'
<1>1. \A i \in DOMAIN ran : PhaseOf(ran[i])' = PhaseOf(ran[i])
  BY DEF PhaseOf
<1> QED
  BY <1>1 DEF CleanInv, RunnersKept

\* One more combination: nothing has run for it.
LEMMA CleanGrow ==
  ASSUME CleanInv, UNCHANGED <<ran, runners, concurrency>>, Len(fetched) \in Nat, Len(fetched') = Len(fetched) + 1
  PROVE  CleanInv'
<1>1. \A i \in DOMAIN ran : PhaseOf(ran[i])' = PhaseOf(ran[i])
  BY DEF PhaseOf
<1>2. \A r \in DOMAIN runners : IsDone(r)' <=> IsDone(r)
  BY DEF IsDone
<1> QED
  BY <1>1, <1>2 DEF CleanInv

\* A sequence is continued.
LEMMA JoinFact ==
  ASSUME NEW s, NEW t, IsSeq(s), IsSeq(t)
  PROVE  /\ IsSeq(s \o t) /\ Len(s) \in Nat /\ Len(t) \in Nat /\ Len(s \o t) = Len(s) + Len(t)
         /\ DOMAIN s = 1..Len(s) /\ DOMAIN (s \o t) = 1..(Len(s) + Len(t))
         /\ \A i \in 1..Len(s) : (s \o t)[i] = s[i]
         /\ \A i \in 1..Len(t) : (s \o t)[Len(s) + i] = t[i]
<1>1. PICK S, T : s \in Seq(S) /\ t \in Seq(T)
  BY DEF IsSeq
<1> DEFINE U == S \cup T
<1>2. s \in Seq(U) /\ t \in Seq(U)
  BY <1>1
<1> HIDE DEF U
<1>3. /\ s \o t \in Seq(U) /\ Len(s \o t) = Len(s) + Len(t) /\ Len(s) \in Nat /\ Len(t) \in Nat
      /\ \A i \in 1..Len(s) : (s \o t)[i] = s[i]
      /\ \A i \in (Len(s) + 1)..(Len(s) + Len(t)) : (s \o t)[i] = t[i - Len(s)]
  BY <1>2
<1>4. DOMAIN s = 1..Len(s) /\ DOMAIN (s \o t) = 1..(Len(s) + Len(t))
  BY <1>2, <1>3, SeqFact
<1>5. \A i \in 1..Len(t) : Len(s) + i \in (Len(s) + 1)..(Len(s) + Len(t)) /\ (Len(s) + i) - Len(s) = i
  BY <1>3
<1>6. \A i \in 1..Len(t) : (s \o t)[Len(s) + i] = t[i]
  BY <1>3, <1>5
<1> QED
  BY <1>3, <1>4, <1>6 DEF IsSeq

\* The first n transformers of a phase run.
RunFirst(p, c, n) ==
  /\ IsSeq(ran') /\ Len(ran') = Len(ran) + n /\ DOMAIN ran' = 1..(Len(ran) + n)
  /\ \A i \in 1..Len(ran) : ran'[i] = ran[i]
  /\ \A k \in 1..n : ran'[Len(ran) + k] = [name |-> PhaseNames[p][k], combination |-> c]

\* What runs in a phase, for a combination, whether or not one of them raises.
LEMMA PhaseRuns ==
  ASSUME IsSeq(ran), NEW p \in DOMAIN Rank, NEW c, RunPhase(p, c) \/ PhaseFails(p, c)
  PROVE  \E n \in 0..Len(PhaseNames[p]) : RunFirst(p, c, n) /\ (RunPhase(p, c) => n = Len(PhaseNames[p]))
<1> DEFINE names == PhaseNames[p]
           part(n) == [i \in 1..n |-> [name |-> names[i], combination |-> c]]
<1>1. Len(names) \in Nat /\ DOMAIN names = 1..Len(names)
  BY PhaseList, SeqFact
<1>2. PICK n \in 0..Len(names) : ran' = ran \o part(n) /\ (RunPhase(p, c) => n = Len(names))
  <2>1. CASE RunPhase(p, c)
    <3>1. ran' = ran \o part(Len(names))
      BY <1>1, <2>1, Zenon DEF RunPhase
    <3>2. Len(names) \in 0..Len(names)
      BY <1>1
    <3> QED
      BY <3>1, <3>2, Zenon
  <2>2. CASE PhaseFails(p, c) /\ ~RunPhase(p, c)
    <3>1. PICK n \in IF Unsorted THEN {0} ELSE {k \in 0..(Len(names) - 1) : "transformer" \in MayFail} :
            ran' = ran \o part(n)
      BY <2>2, Zenon DEF PhaseFails
    <3>2. n \in 0..Len(names)
      <4> HIDE DEF names, part
      <4> QED
        BY <1>1
    <3> QED
      BY <2>2, <3>1, <3>2, Zenon
  <2> QED
    BY <2>1, <2>2
<1>3. n \in Nat
  BY <1>1
<1> HIDE DEF names
<1>4. /\ part(n) \in Seq({part(n)[i] : i \in 1..n}) /\ Len(part(n)) = n
      /\ \A k \in 1..n : part(n)[k] = [name |-> names[k], combination |-> c]
  BY <1>3
<1> HIDE DEF part
<1>5. IsSeq(part(n))
  BY <1>4 DEF IsSeq
<1>6. RunFirst(p, c, n)
  <2> DEFINE t == part(n)
  <2>1. IsSeq(t) /\ ran' = ran \o t /\ Len(t) = n
    BY <1>2, <1>4, <1>5
  <2>2. \A k \in 1..n : t[k] = [name |-> names[k], combination |-> c]
    BY <1>4
  <2> HIDE DEF t
  <2>3. /\ IsSeq(ran') /\ Len(ran') = Len(ran) + n /\ DOMAIN ran' = 1..(Len(ran) + n)
        /\ \A i \in 1..Len(ran) : ran'[i] = ran[i]
        /\ \A k \in 1..n : ran'[Len(ran) + k] = t[k]
    BY <2>1, JoinFact
  <2> QED
    BY <2>2, <2>3 DEF RunFirst, names
<1> QED
  BY <1>2, <1>6 DEF names

\* The old entries of ran stay, the new ones are of the phase and the combination.
LEMMA PhaseFact ==
  ASSUME IsSeq(ran), NEW p \in DOMAIN Rank, NEW c, RunPhase(p, c) \/ PhaseFails(p, c)
  PROVE  /\ IsSeq(ran')
         /\ \A i \in DOMAIN ran' : \/ i \in DOMAIN ran /\ ran'[i] = ran[i]
                                   \/ ran'[i].combination = c /\ PhaseOf(ran'[i]) = p
<1>1. PICK n \in 0..Len(PhaseNames[p]) : RunFirst(p, c, n)
  BY PhaseRuns
<1>2. DOMAIN ran = 1..Len(ran) /\ Len(ran) \in Nat /\ Len(PhaseNames[p]) \in Nat
  BY SeqFact, PhaseList DEF IsSeq
<1>3. ASSUME NEW i \in DOMAIN ran', i \notin DOMAIN ran
      PROVE  ran'[i].combination = c /\ PhaseOf(ran'[i]) = p
  <2>1. i - Len(ran) \in 1..n /\ i - Len(ran) \in 1..Len(PhaseNames[p]) /\ Len(ran) + (i - Len(ran)) = i
    BY <1>1, <1>2, <1>3 DEF RunFirst
  <2>2. ran'[i] = [name |-> PhaseNames[p][i - Len(ran)], combination |-> c]
    BY <1>1, <2>1 DEF RunFirst
  <2> QED
    BY <2>1, <2>2, PhaseList DEF PhaseOf, PhaseBy
<1> QED
  BY <1>1, <1>2, <1>3 DEF RunFirst

\* Transformers of another phase run.
LEMMA CleanRan ==
  ASSUME CleanInv, NEW p \in DOMAIN Rank \ {"expanded_cleanup"}, NEW c \in 0..Len(fetched),
         RunPhase(p, c) \/ PhaseFails(p, c), UNCHANGED <<runners, fetched, concurrency>>, Closing => Closing'
  PROVE  CleanInv'
<1>1. /\ IsSeq(ran')
      /\ \A i \in DOMAIN ran' : \/ i \in DOMAIN ran /\ ran'[i] = ran[i]
                                \/ ran'[i].combination = c /\ PhaseOf(ran'[i]) = p
  BY PhaseFact DEF CleanInv
<1>2. \A i \in DOMAIN ran' : PhaseOf(ran[i])' = PhaseOf(ran'[i])
  BY DEF PhaseOf
<1>3. \A r \in DOMAIN runners : IsDone(r)' <=> IsDone(r)
  BY DEF IsDone
<1>4. p # "expanded_cleanup"
  OBVIOUS
<1> QED
  BY <1>1, <1>2, <1>3, <1>4 DEF CleanInv

\* The transformers of the phase expanded_cleanup: with one worker no runner is left.
LEMMA CleanExpandedCleanup ==
  ASSUME LInv, CleanInv, ExpandedCleanup
  PROVE  CleanInv'
<1>1. /\ RunPhase("expanded_cleanup", Current) \/ PhaseFails("expanded_cleanup", Current)
      /\ UNCHANGED <<runners, fetched, concurrency>> /\ Len(remaining) < concurrency
  BY Unpacked DEF ExpandedCleanup, Advancing
<1>2. Closing'
  BY DEF ExpandedCleanup, NoMoreRunners, Raise, Closing
<1>3. /\ IsSeq(ran')
      /\ \A i \in DOMAIN ran' : \/ i \in DOMAIN ran /\ ran'[i] = ran[i]
                                \/ ran'[i].combination = Len(fetched)
  BY <1>1, PhaseFact, RankFact DEF CleanInv, Current
<1>4. \A i \in DOMAIN ran' : PhaseOf(ran[i])' = PhaseOf(ran'[i])
  BY DEF PhaseOf
<1>5. \A r \in DOMAIN runners : IsDone(r)' <=> IsDone(r)
  BY <1>1 DEF IsDone
<1>6. ASSUME concurrency = 1, NEW r \in DOMAIN runners PROVE IsDone(r)
  <2>1. Len(remaining) \in Nat /\ DOMAIN remaining = 1..Len(remaining)
    BY SeqFact DEF LInv, Types
  <2>2. DOMAIN remaining = {}
    BY <1>1, <1>6, <2>1
  <2> QED
    BY <2>2 DEF LInv, LoopInv, CloseInv
<1>7. Len(fetched) \in 0..Len(fetched)
  BY Lengths DEF LInv
<1> QED
  BY <1>1, <1>2, <1>3, <1>4, <1>5, <1>6, <1>7 DEF CleanInv

\* A new runner: the expanded_cleanup of its combination has not run.
LEMMA CleanCreate ==
  ASSUME LInv, CleanInv, CreateRunner
  PROVE  CleanInv'
<1>0. UNCHANGED ran
  BY DEF CreateRunner
<1>1. CASE /\ Raise("runner") /\ UNCHANGED <<concurrency, fetched, runners>>
  <2>1. Closing'
    BY <1>1 DEF Raise, Closing
  <2>2. RunnersKept
    BY <1>1 DEF RunnersKept, IsDone
  <2> QED
    BY <1>0, <1>1, <2>1, <2>2, CleanFrame
<1>2. ASSUME NEW n, CreateEffect(n) PROVE CleanInv'
  <2>1. /\ UNCHANGED <<concurrency, fetched, gen, pc>> /\ gen = "runners" /\ pc = "advance"
        /\ DOMAIN runners' = DOMAIN runners \cup {n} /\ n \notin DOMAIN runners
        /\ runners'[n].combination = Len(fetched)
        /\ \A x \in DOMAIN runners : runners'[x] = runners[x]
    BY <1>2, Lengths DEF CreateEffect, NewRunner, Current
  <2>2. Len(fetched) \in 1..Len(fetched)
    BY <2>1, Lengths DEF LInv, CountInv
  <2>3. ~Closing /\ ~Closing'
    BY <2>1 DEF Closing
  <2>4. \A i \in DOMAIN ran : PhaseOf(ran[i])' = PhaseOf(ran[i])
    BY <1>0 DEF PhaseOf
  <2>5. \A r \in DOMAIN runners : IsDone(r)' <=> IsDone(r)
    BY <2>1 DEF IsDone
  <2> QED
    BY <1>0, <2>1, <2>2, <2>3, <2>4, <2>5 DEF CleanInv
<1> QED
  BY <1>1, <1>2, CreateEffects

\* The next combination, if there is one.
LEMMA CleanFetch ==
  ASSUME LInv, CleanInv, BeginFetch \/ ProcessResult \/ Fetch
  PROVE  CleanInv'
<1>1. UNCHANGED <<ran, runners, concurrency>>
  BY FetchCases, ProcessCases, Unpacked DEF BeginFetch, Fetch
<1>2. Len(fetched) \in Nat
  BY Lengths DEF LInv
<1>3. CASE UNCHANGED fetched /\ Closing'
  <2>1. RunnersKept
    BY <1>1 DEF RunnersKept, IsDone
  <2> QED
    BY <1>1, <1>3, <2>1, CleanFrame
<1>4. CASE Len(fetched') = Len(fetched) + 1
  BY <1>1, <1>2, <1>4, CleanGrow
<1>5. CASE BeginFetch
  <2>1. Len(fetched) = 0 /\ Len(<<"root">>) = 1
    BY <1>5 DEF LInv, CountInv, BeginFetch
  <2> QED
    BY <1>3, <1>4, <1>5, <2>1 DEF BeginFetch, Closing
<1>6. CASE Fetch
  <2>1. ASSUME NEW c, Combination(c) PROVE Len(fetched') = Len(fetched) + 1
    BY <2>1, AppendAny DEF Combination, LInv, Types
  <2> QED
    BY <1>3, <1>4, <1>6, <2>1, FetchCases DEF NoMoreRunners, Closing
<1>7. CASE ProcessResult
  BY <1>3, <1>7, ProcessCases DEF Raise, Closing
<1> QED
  BY <1>5, <1>6, <1>7

\* The steps in which no transformer runs and no runner or combination comes.
LEMMA CleanOther ==
  ASSUME LInv, CleanInv,
         \/ WaitWorker \/ SubmitTask \/ LeaveRunner \/ LeaveScan \/ EnoughRunners \/ Cleanup
         \/ FlushRaises \/ TaskEnds \/ Notify \/ UNCHANGED vars
  PROVE  CleanInv'
<1>1. UNCHANGED <<ran, fetched, concurrency, gen>>
  BY Unpacked DEF WaitWorker, SubmitTask, LeaveRunner, LeaveScan, EnoughRunners, Cleanup, FlushRaises,
                  TaskEnds, Notify, vars, runbook
<1>2. Closing => Closing'
  BY <1>1 DEF WaitWorker, SubmitTask, LeaveRunner, LeaveScan, EnoughRunners, Cleanup, FlushRaises,
              TaskEnds, Notify, vars, Closing
<1>3. RunnersKept
  <2>1. CASE UNCHANGED runners
    BY <2>1 DEF RunnersKept, IsDone
  <2>2. ASSUME NEW rs, NEW raising, runners' = Closed(rs, raising) PROVE RunnersKept
    BY <2>2, ClosedFact, ClosedRuns DEF RunnersKept, LInv, SameTasks
  <2>3. ASSUME NEW r, SubmitEffect(r) PROVE RunnersKept
    <3>1. ~IsDone(r)
      BY <2>3 DEF SubmitEffect, IsDone
    <3>2. \A x \in DOMAIN runners : runners'[x].combination = runners[x].combination
      BY <2>3 DEF SubmitEffect
    <3>3. \A x \in DOMAIN runners : x # r => (IsDone(x)' <=> IsDone(x))
      BY <2>3 DEF SubmitEffect, IsDone
    <3> QED
      BY <2>3, <3>1, <3>2, <3>3 DEF SubmitEffect, RunnersKept
  <2>4. ASSUME NEW r, NEW t, EndEffect(r, t) PROVE RunnersKept
    <3>1. ~IsDone(r)
      BY <2>4 DEF EndEffect, IsDone
    <3> QED
      BY <2>4, <3>1 DEF EndEffect, RunnersKept, IsDone
  <2>5. CASE SubmitTask
    BY <2>3, <2>5, SubmitEffects
  <2>6. CASE TaskEnds
    BY <2>4, <2>6, EndEffects
  <2>7. CASE LeaveRunner
    BY <2>1, <2>2, <2>7 DEF LeaveRunner, CloseIfDone, CloseRaises
  <2>8. CASE Cleanup
    BY <2>2, <2>8 DEF Cleanup, CloseActive
  <2>9. CASE WaitWorker \/ LeaveScan \/ EnoughRunners \/ FlushRaises \/ Notify \/ UNCHANGED vars
    BY <2>1, <2>9 DEF WaitWorker, LeaveScan, EnoughRunners, FlushRaises, Notify, vars
  <2> QED
    BY <2>5, <2>6, <2>7, <2>8, <2>9
<1> QED
  BY <1>1, <1>2, <1>3, CleanFrame

\* Every step keeps the invariant of expanded_cleanup.
LEMMA CleanStep ==
  ASSUME LInv, CleanInv, [Next]_vars
  PROVE  CleanInv'
<1>1. Len(fetched) \in Nat /\ 0 \in 0..Len(fetched) /\ Current \in 0..Len(fetched)
  BY Lengths DEF LInv, Current
<1>2. CASE Start
  <2>1. /\ RunPhase("init", 0) \/ PhaseFails("init", 0)
        /\ UNCHANGED <<runners, fetched, concurrency, gen>> /\ pc = "start"
    BY <1>2, Unpacked DEF Start
  <2> QED
    BY <1>1, <2>1, CleanRan, RankFact DEF Closing
<1>3. CASE Expand
  <2>1. /\ RunPhase("expanded", Current) \/ PhaseFails("expanded", Current)
        /\ UNCHANGED <<runners, fetched, concurrency>> /\ pc = "advance" /\ gen = "expanded"
    BY <1>3, Unpacked DEF Expand, Advancing
  <2> QED
    BY <1>1, <2>1, CleanRan, RankFact DEF Closing
<1>4. CASE Flush
  <2>1. /\ RunPhase("cleanup", 0) \/ PhaseFails("cleanup", 0)
        /\ UNCHANGED <<runners, fetched, concurrency>> /\ pc' = "done"
    BY <1>4, Unpacked DEF Flush
  <2> QED
    BY <1>1, <2>1, CleanRan, RankFact DEF Closing
<1>5. CASE ExpandedCleanup BY <1>5, CleanExpandedCleanup
<1>6. CASE CreateRunner BY <1>6, CleanCreate
<1>7. CASE BeginFetch \/ ProcessResult \/ Fetch BY <1>7, CleanFetch
<1>8. CASE \/ WaitWorker \/ SubmitTask \/ LeaveRunner \/ LeaveScan \/ EnoughRunners \/ Cleanup
           \/ FlushRaises \/ TaskEnds \/ Notify \/ UNCHANGED vars
  BY <1>8, CleanOther
<1> QED
  BY <1>2, <1>3, <1>4, <1>5, <1>6, <1>7, <1>8 DEF Next, Main, Done

\* The runners and combinations of the transformers that ran.
THEOREM CleanInvariance == Spec => [](LInv /\ CleanInv)
<1>1. Init => CleanInv
  <2> SUFFICES ASSUME Init PROVE CleanInv
    OBVIOUS
  <2>1. ran = <<>> /\ runners = <<>> /\ <<>> \in Seq({}) /\ DOMAIN <<>> = {}
    BY DEF Init
  <2> QED
    BY <2>1 DEF CleanInv, IsSeq
<1>2. LInv /\ CleanInv /\ [Next]_vars => CleanInv'
  BY CleanStep
<1> QED
  BY <1>1, <1>2, InitLInv, NextLInv, PTL DEF Spec

\* With one worker, expanded_cleanup of a combination runs when all its runners are done,
\* for any transformers, types of runners, tasks and combinations, whatever raises.
THEOREM CleanupWaits == Spec => []CleanupAfterRunners
<1>1. CleanInv => CleanupAfterRunners
  BY DEF CleanInv, CleanupAfterRunners, PhaseOf
<1> QED
  BY <1>1, CleanInvariance, PTL

-----------------------------------------------------------------------------
(* Transformers run after what they depend on *)

\* All transformers of a phase have run for a combination.
RanAll(p, c) ==
  \A k \in 1..Len(PhaseNames[p]) : \E j \in DOMAIN ran : ran[j] = [name |-> PhaseNames[p][k], combination |-> c]

\* What an entry of ran depends on is before it.
Follows(i) ==
  \A d \in ToSet(ByName(Loaded, ran[i].name).depends_on) :
    ByName(Loaded, d).enabled /\ PhaseBy(d) # "environment_connected" =>
      \A c \in NeededFor(ByName(Loaded, d), i) : \E j \in 1..(i - 1) : ran[j] = [name |-> d, combination |-> c]

\* A phase is over for a combination when the next begins: expanded before its runners,
\* expanded_cleanup before the next combination, all of them before cleanup.
DepInv ==
  /\ pc \notin {"cleanup", "flush", "done"} => error = "None"
  /\ pc # "start" /\ error = "None" => RanAll("init", 0)
  /\ \A c \in 1..Len(fetched) :
       /\ c < Len(fetched) \/ gen \in {"runners", "fetch", "told", "ended"} => RanAll("expanded", c)
       /\ c < Len(fetched) \/ gen \in {"fetch", "told", "ended"} => RanAll("expanded_cleanup", c)
  /\ \A i \in DOMAIN ran :
       /\ PhaseOf(ran[i]) = "cleanup" => pc = "done"
       /\ (PhaseOf(ran[i]) = "cleanup" => error = "None") => Follows(i)

\* A step in which no transformer runs and no combination comes.
LEMMA DepFrame ==
  ASSUME DepInv, UNCHANGED <<ran, fetched>>, pc # "start", pc = "done" => pc' = "done",
         error' = "None" => error = "None", pc' \notin {"cleanup", "flush", "done"} => error' = "None",
         \/ Len(fetched) = 0
         \/ gen' = gen
         \/ gen \in {"fetch", "told", "ended"}
  PROVE  DepInv'
<1>1. \A p, c : RanAll(p, c)' <=> RanAll(p, c)
  BY DEF RanAll
<1>2. \A i \in DOMAIN ran : (Follows(i)' <=> Follows(i)) /\ PhaseOf(ran[i])' = PhaseOf(ran[i])
  BY DEF Follows, NeededFor, PhaseOf
<1> QED
  BY <1>1, <1>2 DEF DepInv

\* One more combination: only cleanup, which is to come, looks at all of them.
LEMMA DepGrow ==
  ASSUME DepInv, UNCHANGED <<pc, ran, error>>, pc = "advance", Len(fetched) \in Nat,
         Len(fetched') = Len(fetched) + 1, gen' = "expanded", Len(fetched) = 0 \/ gen \in {"fetch", "told"}
  PROVE  DepInv'
<1>1. RanAll("init", 0)' <=> RanAll("init", 0)
  BY DEF RanAll
<1>2. \A c : /\ RanAll("expanded", c)' <=> RanAll("expanded", c)
             /\ RanAll("expanded_cleanup", c)' <=> RanAll("expanded_cleanup", c)
  BY DEF RanAll
<1>3. \A i \in DOMAIN ran : PhaseOf(ran[i])' = PhaseOf(ran[i]) /\ PhaseOf(ran[i]) # "cleanup"
  BY DEF DepInv, PhaseOf
<1>4. \A i \in DOMAIN ran : Follows(i)' <=> Follows(i)
  BY <1>3 DEF Follows, NeededFor, PhaseOf
<1>5. ASSUME NEW c \in 1..Len(fetched'), c < Len(fetched')
      PROVE  RanAll("expanded", c) /\ RanAll("expanded_cleanup", c)
  <2>1. c \in 1..Len(fetched) /\ gen \in {"fetch", "told"}
    BY <1>5
  <2> QED
    BY <2>1 DEF DepInv
<1> QED
  BY <1>1, <1>2, <1>3, <1>4, <1>5 DEF DepInv

\* For which combinations a transformer of phase q runs before one of phase p, which
\* depends on it and runs for combination c.
Combinations(q, p, c) ==
  IF q \in {"init", "cleanup"} THEN {0} ELSE IF p = "cleanup" THEN 1..Len(fetched) ELSE {c}

\* A phase, or its beginning, runs after the earlier ones.
LEMMA DepRun ==
  ASSUME IsSeq(ran), NEW p \in DOMAIN Rank, NEW c, p \in {"init", "cleanup"} => c = 0, p # "environment_connected",
         NEW n \in 0..Len(PhaseNames[p]), RunFirst(p, c, n), fetched' = fetched
  PROVE  /\ \A q \in DOMAIN Rank : \A x : RanAll(q, x) => RanAll(q, x)'
         /\ n = Len(PhaseNames[p]) => RanAll(p, c)'
         /\ \A i \in DOMAIN ran' :
              \/ i \in DOMAIN ran /\ PhaseOf(ran[i])' = PhaseOf(ran[i]) /\ (Follows(i) => Follows(i)')
              \/ /\ PhaseOf(ran[i])' = p
                 /\ (\A q \in DOMAIN Rank \ {"environment_connected"} :
                      Rank[q] < Rank[p] => \A x \in Combinations(q, p, c) : RanAll(q, x)) => Follows(i)'
<1>1. DOMAIN ran = 1..Len(ran) /\ Len(ran) \in Nat /\ Len(PhaseNames[p]) \in Nat /\ n \in Nat
  BY SeqFact, PhaseList DEF IsSeq
<1>2. /\ DOMAIN ran' = 1..(Len(ran) + n)
      /\ \A i \in 1..Len(ran) : i \in DOMAIN ran' /\ ran'[i] = ran[i]
      /\ \A k \in 1..n : Len(ran) + k \in DOMAIN ran'
      /\ \A k \in 1..n : ran'[Len(ran) + k] = [name |-> PhaseNames[p][k], combination |-> c]
  BY <1>1 DEF RunFirst
<1>3. ASSUME NEW q \in DOMAIN Rank, NEW x, RanAll(q, x) PROVE RanAll(q, x)'
  BY <1>1, <1>2, <1>3 DEF RanAll
<1>4. ASSUME n = Len(PhaseNames[p]) PROVE RanAll(p, c)'
  BY <1>2, <1>4 DEF RanAll
<1>5. ASSUME NEW i \in DOMAIN ran
      PROVE  PhaseOf(ran[i])' = PhaseOf(ran[i]) /\ (Follows(i) => Follows(i)')
  <2>1. ran'[i] = ran[i] /\ \A j \in 1..(i - 1) : ran'[j] = ran[j]
    BY <1>1, <1>2
  <2> QED
    BY <2>1 DEF PhaseOf, Follows, NeededFor
<1>6. ASSUME NEW i \in DOMAIN ran', i \notin DOMAIN ran
      PROVE  /\ PhaseOf(ran[i])' = p
             /\ (\A q \in DOMAIN Rank \ {"environment_connected"} :
                  Rank[q] < Rank[p] => \A x \in Combinations(q, p, c) : RanAll(q, x)) => Follows(i)'
  <2> DEFINE k == i - Len(ran)
  <2>1. k \in 1..n /\ k \in 1..Len(PhaseNames[p]) /\ Len(ran) + k = i /\ i \in Nat
    BY <1>1, <1>2, <1>6
  <2> HIDE DEF k
  <2>2. ran'[i] = [name |-> PhaseNames[p][k], combination |-> c]
    BY <1>2, <2>1
  <2>3. PhaseBy(PhaseNames[p][k]) = p
    BY <2>1, PhaseList
  <2>4. PhaseOf(ran[i])' = p
    BY <2>2, <2>3 DEF PhaseOf, PhaseBy
  <2>5. ASSUME \A q \in DOMAIN Rank \ {"environment_connected"} :
                 Rank[q] < Rank[p] => \A x \in Combinations(q, p, c) : RanAll(q, x),
               NEW d \in ToSet(ByName(Loaded, PhaseNames[p][k]).depends_on),
               ByName(Loaded, d).enabled, PhaseBy(d) # "environment_connected",
               NEW x \in Combinations(PhaseBy(d), p, c)
        PROVE  \E j \in 1..(i - 1) : ran'[j] = [name |-> d, combination |-> x]
    <3>1. CASE PhaseBy(d) = p /\ \E l \in 1..(k - 1) : PhaseNames[p][l] = d
      <4>1. PICK l \in 1..(k - 1) : PhaseNames[p][l] = d
        BY <3>1
      <4>2. x = c
        BY <2>5, <3>1 DEF Combinations
      <4>3. l \in 1..n /\ Len(ran) + l \in 1..(i - 1)
        BY <1>1, <2>1
      <4>4. ran'[Len(ran) + l] = [name |-> d, combination |-> x]
        BY <1>2, <4>1, <4>2, <4>3
      <4> QED
        BY <4>3, <4>4
    <3>2. CASE /\ PhaseBy(d) \in DOMAIN Rank /\ Rank[PhaseBy(d)] < Rank[p]
               /\ \E l \in 1..Len(PhaseNames[PhaseBy(d)]) : PhaseNames[PhaseBy(d)][l] = d
      <4>1. RanAll(PhaseBy(d), x)
        BY <2>5, <3>2
      <4>2. PICK j \in DOMAIN ran : ran[j] = [name |-> d, combination |-> x]
        BY <3>2, <4>1 DEF RanAll
      <4>3. j \in 1..(i - 1) /\ ran'[j] = ran[j]
        BY <1>1, <1>2, <2>1
      <4> QED
        BY <4>2, <4>3
    <3> QED
      BY <2>1, <2>5, <3>1, <3>2, Depends
  <2>6. ASSUME NEW d PROVE NeededFor(ByName(Loaded, d), i)' = Combinations(PhaseBy(d), p, c)
    BY <2>2, <2>3 DEF NeededFor, Combinations, PhaseBy
  <2> QED
    BY <2>2, <2>4, <2>5, <2>6 DEF Follows
<1> QED
  BY <1>3, <1>4, <1>5, <1>6

\* Before cleanup, everything that ran has what it depends on before it.
LEMMA DepPhase ==
  ASSUME IsSeq(ran), DepInv, pc # "done", NEW p \in DOMAIN Rank, NEW c, p \in {"init", "cleanup"} => c = 0,
         p # "environment_connected", RunPhase(p, c) \/ PhaseFails(p, c), fetched' = fetched
  PROVE  /\ \A q \in DOMAIN Rank : \A x : RanAll(q, x) => RanAll(q, x)'
         /\ RunPhase(p, c) => RanAll(p, c)'
         /\ \A i \in DOMAIN ran' :
              \/ PhaseOf(ran[i])' # "cleanup" /\ Follows(i)'
              \/ /\ PhaseOf(ran[i])' = p
                 /\ (\A q \in DOMAIN Rank \ {"environment_connected"} :
                      Rank[q] < Rank[p] => \A x \in Combinations(q, p, c) : RanAll(q, x)) => Follows(i)'
<1>1. PICK n \in 0..Len(PhaseNames[p]) : RunFirst(p, c, n) /\ (RunPhase(p, c) => n = Len(PhaseNames[p]))
  BY PhaseRuns
<1>2. \A i \in DOMAIN ran : PhaseOf(ran[i]) # "cleanup" /\ Follows(i)
  BY DEF DepInv
<1>3. /\ \A q \in DOMAIN Rank : \A x : RanAll(q, x) => RanAll(q, x)'
      /\ n = Len(PhaseNames[p]) => RanAll(p, c)'
      /\ \A i \in DOMAIN ran' :
           \/ i \in DOMAIN ran /\ PhaseOf(ran[i])' = PhaseOf(ran[i]) /\ (Follows(i) => Follows(i)')
           \/ /\ PhaseOf(ran[i])' = p
              /\ (\A q \in DOMAIN Rank \ {"environment_connected"} :
                   Rank[q] < Rank[p] => \A x \in Combinations(q, p, c) : RanAll(q, x)) => Follows(i)'
  BY <1>1, DepRun
<1> QED
  BY <1>1, <1>2, <1>3

\* The phase init
LEMMA DepStart ==
  ASSUME IsSeq(ran), DepInv, Start
  PROVE  DepInv'
<1>1. /\ pc = "start" /\ UNCHANGED <<gen, fetched>>
      /\ RunPhase("init", 0) \/ PhaseFails("init", 0)
      /\ \/ RunPhase("init", 0) /\ pc' = "wait" /\ error' = error
         \/ pc' = "cleanup" /\ error' = "transformer"
  BY DEF Start, Raise
<1>2. error = "None"
  BY <1>1 DEF DepInv
<1>3. /\ \A q \in DOMAIN Rank : \A x : RanAll(q, x) => RanAll(q, x)'
      /\ RunPhase("init", 0) => RanAll("init", 0)'
      /\ \A i \in DOMAIN ran' :
           \/ PhaseOf(ran[i])' # "cleanup" /\ Follows(i)'
           \/ /\ PhaseOf(ran[i])' = "init"
              /\ (\A q \in DOMAIN Rank \ {"environment_connected"} :
                   Rank[q] < Rank["init"] => \A x \in Combinations(q, "init", 0) : RanAll(q, x)) => Follows(i)'
  BY <1>1, DepPhase, RankFact
<1>4. \A q \in DOMAIN Rank : ~(Rank[q] < Rank["init"])
  BY RankFact
<1>5. \A i \in DOMAIN ran' : PhaseOf(ran[i])' # "cleanup" /\ Follows(i)'
  BY <1>3, <1>4
<1>6. /\ \A c : RanAll("expanded", c) => RanAll("expanded", c)'
      /\ \A c : RanAll("expanded_cleanup", c) => RanAll("expanded_cleanup", c)'
  BY <1>3, RankFact
<1> QED
  BY <1>1, <1>2, <1>3, <1>5, <1>6 DEF DepInv

\* The phases of a combination: expanded after init, expanded_cleanup after both.
LEMMA DepExpand ==
  ASSUME LInv, IsSeq(ran), DepInv, Expand \/ ExpandedCleanup
  PROVE  DepInv'
<1> SUFFICES ASSUME NEW CONSTANT p, NEW CONSTANT n, n = Len(fetched),
                    p = IF gen = "expanded" THEN "expanded" ELSE "expanded_cleanup"
             PROVE  DepInv'
  OBVIOUS
<1>1. /\ pc = "advance" /\ UNCHANGED fetched /\ gen \in {"expanded", "runners"}
      /\ RunPhase(p, n) \/ PhaseFails(p, n)
      /\ \/ /\ RunPhase(p, n) /\ pc' \notin {"start", "cleanup", "flush", "done"} /\ error' = error
            /\ gen = "expanded" => gen' = "runners"
            /\ gen = "runners" => gen' \in {"fetch", "ended"}
         \/ pc' = "cleanup" /\ error' = "transformer" /\ gen' = gen
  BY DEF Expand, ExpandedCleanup, Advancing, Current, Raise, NoMoreRunners, InnerLoop
<1>2. error = "None" /\ RanAll("init", 0) /\ n \in Nat /\ n > 0
  BY <1>1, Lengths DEF DepInv, LInv, CountInv
<1>3. p \in {"expanded", "expanded_cleanup"} /\ p \in DOMAIN Rank
  BY RankFact
<1>4. gen = "runners" => RanAll("expanded", n)
  BY <1>2 DEF DepInv
<1>5. \A q \in DOMAIN Rank \ {"environment_connected"} :
        Rank[q] < Rank[p] => \A x \in Combinations(q, p, n) : RanAll(q, x)
  BY <1>1, <1>2, <1>4, RankFact DEF Combinations
<1>6. \A q \in {"init", "expanded", "expanded_cleanup"} : q \in DOMAIN Rank
  BY RankFact
<1>7. /\ \A q \in DOMAIN Rank : \A x : RanAll(q, x) => RanAll(q, x)'
      /\ RunPhase(p, n) => RanAll(p, n)'
      /\ \A i \in DOMAIN ran' : PhaseOf(ran[i])' # "cleanup" /\ Follows(i)'
  <2>1. /\ \A q \in DOMAIN Rank : \A x : RanAll(q, x) => RanAll(q, x)'
        /\ RunPhase(p, n) => RanAll(p, n)'
        /\ \A i \in DOMAIN ran' :
             \/ PhaseOf(ran[i])' # "cleanup" /\ Follows(i)'
             \/ /\ PhaseOf(ran[i])' = p
                /\ (\A q \in DOMAIN Rank \ {"environment_connected"} :
                     Rank[q] < Rank[p] => \A x \in Combinations(q, p, n) : RanAll(q, x)) => Follows(i)'
    BY <1>1, <1>3, DepPhase
  <2> QED
    BY <1>3, <1>5, <2>1
<1>8. RanAll("init", 0)' /\ \A x : /\ RanAll("expanded", x) => RanAll("expanded", x)'
                                   /\ RanAll("expanded_cleanup", x) => RanAll("expanded_cleanup", x)'
  BY <1>2, <1>6, <1>7
<1>9. ASSUME NEW c \in 1..n
      PROVE  /\ c < n \/ gen' \in {"runners", "fetch", "told", "ended"} => RanAll("expanded", c)'
             /\ c < n \/ gen' \in {"fetch", "told", "ended"} => RanAll("expanded_cleanup", c)'
  <2>1. CASE c < n
    BY <1>8, <1>9, <2>1 DEF DepInv
  <2>2. CASE c = n /\ gen = "expanded"
    BY <1>1, <1>7, <2>2
  <2>3. CASE c = n /\ gen = "runners"
    BY <1>1, <1>4, <1>7, <1>8, <2>3
  <2> QED
    BY <1>1, <1>2, <2>1, <2>2, <2>3
<1> QED
  BY <1>1, <1>2, <1>7, <1>8, <1>9 DEF DepInv

\* The phase cleanup
LEMMA DepFlush ==
  ASSUME LInv, IsSeq(ran), DepInv, Flush
  PROVE  DepInv'
<1>1. /\ pc = "flush" /\ pc' = "done" /\ UNCHANGED <<gen, fetched, error>>
      /\ RunPhase("cleanup", 0) \/ PhaseFails("cleanup", 0)
  BY DEF Flush
<1>2. /\ \A q \in DOMAIN Rank : \A x : RanAll(q, x) => RanAll(q, x)'
      /\ \A i \in DOMAIN ran' :
           \/ PhaseOf(ran[i])' # "cleanup" /\ Follows(i)'
           \/ /\ PhaseOf(ran[i])' = "cleanup"
              /\ (\A q \in DOMAIN Rank \ {"environment_connected"} :
                   Rank[q] < Rank["cleanup"] => \A x \in Combinations(q, "cleanup", 0) : RanAll(q, x)) => Follows(i)'
  BY <1>1, DepPhase, RankFact
<1>3. error = "None" => gen = "ended"
  BY <1>1 DEF LInv, EndInv, CountInv
<1>4. error = "None" => /\ RanAll("init", 0)
                        /\ \A c \in 1..Len(fetched) : RanAll("expanded", c) /\ RanAll("expanded_cleanup", c)
  BY <1>1, <1>3 DEF DepInv
<1>5. error = "None" =>
        \A q \in DOMAIN Rank \ {"environment_connected"} :
          Rank[q] < Rank["cleanup"] => \A x \in Combinations(q, "cleanup", 0) : RanAll(q, x)
  BY <1>4, RankFact DEF Combinations
<1>6. /\ \A x : RanAll("init", x) => RanAll("init", x)'
      /\ \A x : RanAll("expanded", x) => RanAll("expanded", x)'
      /\ \A x : RanAll("expanded_cleanup", x) => RanAll("expanded_cleanup", x)'
  BY <1>2, RankFact
<1> QED
  BY <1>1, <1>2, <1>5, <1>6 DEF DepInv

\* The next combination, if there is one.
LEMMA DepFetch ==
  ASSUME LInv, DepInv, BeginFetch \/ ProcessResult \/ Fetch
  PROVE  DepInv'
<1>1. pc = "advance" /\ UNCHANGED ran
  BY DEF BeginFetch, ProcessResult, Fetch, Advancing
<1>2. Len(fetched) \in Nat /\ error = "None"
  BY <1>1, Lengths DEF LInv, DepInv
<1>3. CASE BeginFetch
  <2>1. Len(fetched) = 0 /\ Len(<<"root">>) = 1 /\ UNCHANGED <<pc, error>>
    BY <1>3 DEF LInv, CountInv, BeginFetch
  <2>2. CASE kind = "none"
    <3>1. gen' = "expanded" /\ Len(fetched') = Len(fetched) + 1
      BY <1>3, <2>1, <2>2 DEF BeginFetch
    <3> QED
      BY <1>1, <1>2, <2>1, <3>1, DepGrow
  <2>3. CASE kind # "none"
    <3>1. fetched' = fetched
      BY <1>3, <2>3 DEF BeginFetch
    <3> QED
      BY <1>1, <1>2, <2>1, <3>1, DepFrame
  <2> QED
    BY <2>2, <2>3
<1>4. CASE Fetch
  <2>1. gen \in {"fetch", "told"}
    BY <1>4 DEF Fetch
  <2>2. ASSUME NEW c, Combination(c) PROVE DepInv'
    <3>1. Len(fetched') = Len(fetched) + 1 /\ gen' = "expanded" /\ UNCHANGED <<pc, error>>
      BY <2>2, AppendAny DEF Combination, LInv, Types
    <3> QED
      BY <1>1, <1>2, <2>1, <3>1, DepGrow
  <2>3. CASE NoMoreRunners /\ UNCHANGED fetched
    <3>1. error' = error /\ pc' \in {"submit", "wait"}
      BY <2>3 DEF NoMoreRunners, InnerLoop
    <3> QED
      BY <1>1, <1>2, <2>1, <2>3, <3>1, DepFrame
  <2> QED
    BY <1>4, <2>2, <2>3, FetchCases
<1>5. CASE ProcessResult
  <2>1. /\ gen = "fetch" /\ UNCHANGED fetched
        /\ \/ error' = "bisect" /\ pc' = "cleanup"
           \/ UNCHANGED <<pc, error>>
    BY <1>5, ProcessCases DEF Raise
  <2> QED
    BY <1>1, <1>2, <2>1, DepFrame
<1> QED
  BY <1>3, <1>4, <1>5

\* The steps in which no transformer runs and no combination comes.
LEMMA DepOther ==
  ASSUME DepInv,
         \/ WaitWorker \/ SubmitTask \/ LeaveRunner \/ LeaveScan \/ EnoughRunners \/ CreateRunner \/ Cleanup
         \/ FlushRaises \/ TaskEnds \/ Notify \/ UNCHANGED vars
  PROVE  DepInv'
<1>1. UNCHANGED <<ran, fetched, gen>>
  BY Unpacked DEF WaitWorker, SubmitTask, LeaveRunner, LeaveScan, EnoughRunners, CreateRunner, Cleanup,
                  FlushRaises, TaskEnds, Notify, vars
<1>2. CASE WaitWorker \/ SubmitTask \/ LeaveRunner \/ LeaveScan \/ EnoughRunners \/ CreateRunner
  <2>1. pc \in {"wait", "submit", "advance"}
    BY <1>2 DEF WaitWorker, SubmitTask, LeaveRunner, LeaveScan, EnoughRunners, CreateRunner, Advancing
  <2>2. error = "None"
    BY <2>1 DEF DepInv
  <2>3. \/ error' = error /\ pc' \in {"wait", "submit", "advance", "cleanup"}
        \/ error' # "None" /\ pc' = "cleanup"
    BY <1>2, <2>1 DEF WaitWorker, SubmitTask, LeaveRunner, LeaveScan, EnoughRunners, CreateRunner, Raise,
                      InnerLoop, Advancing, CloseRaises
  <2> QED
    BY <1>1, <2>1, <2>2, <2>3, DepFrame
<1>3. CASE Cleanup
  <2>1. pc = "cleanup" /\ pc' = "flush" /\ (error' = "None" => error = "None")
    BY <1>3 DEF Cleanup, CloseActive
  <2> QED
    BY <1>1, <2>1, DepFrame
<1>5. CASE FlushRaises
  <2>1. pc = "flush" /\ pc' = "done" /\ error' # "None"
    BY <1>5 DEF FlushRaises
  <2> QED
    BY <1>1, <2>1, DepFrame
<1>4. CASE TaskEnds \/ Notify \/ UNCHANGED vars
  <2>1. UNCHANGED <<pc, error>>
    BY <1>4 DEF TaskEnds, Notify, vars
  <2>2. CASE pc # "start"
    BY <1>1, <2>1, <2>2, DepFrame DEF DepInv
  <2>3. CASE pc = "start"
    <3>1. \A p, c : RanAll(p, c)' <=> RanAll(p, c)
      BY <1>1 DEF RanAll
    <3>2. \A i \in DOMAIN ran : (Follows(i)' <=> Follows(i)) /\ PhaseOf(ran[i])' = PhaseOf(ran[i])
      BY <1>1 DEF Follows, NeededFor, PhaseOf
    <3> QED
      BY <1>1, <2>1, <2>3, <3>1, <3>2 DEF DepInv
  <2> QED
    BY <2>2, <2>3
<1> QED
  BY <1>2, <1>3, <1>4, <1>5

\* Every transformer runs after those it depends on: in its own combination, or before all
\* of them, or, for cleanup, in all of them; for any runbook, combinations and failures.
THEOREM DependenciesRunFirst == Spec => []DependenciesFirst
<1>1. Init => DepInv
  <2> SUFFICES ASSUME Init PROVE DepInv
    OBVIOUS
  <2>1. ran = <<>> /\ fetched = <<>> /\ DOMAIN <<>> = {} /\ Len(<<>>) = 0 /\ pc = "start" /\ error = "None"
    BY DEF Init
  <2> QED
    BY <2>1 DEF DepInv
<1>2. ASSUME LInv, CleanInv, DepInv, [Next]_vars PROVE DepInv'
  <2>1. IsSeq(ran)
    BY <1>2 DEF CleanInv
  <2>2. CASE Start BY <1>2, <2>1, <2>2, DepStart
  <2>3. CASE Expand \/ ExpandedCleanup BY <1>2, <2>1, <2>3, DepExpand
  <2>4. CASE Flush BY <1>2, <2>1, <2>4, DepFlush
  <2>5. CASE BeginFetch \/ ProcessResult \/ Fetch BY <1>2, <2>5, DepFetch
  <2>6. CASE \/ WaitWorker \/ SubmitTask \/ LeaveRunner \/ LeaveScan \/ EnoughRunners \/ CreateRunner
             \/ Cleanup \/ FlushRaises \/ TaskEnds \/ Notify \/ UNCHANGED vars
    BY <1>2, <2>6, DepOther
  <2> QED
    BY <1>2, <2>2, <2>3, <2>4, <2>5, <2>6 DEF Next, Main, Done
<1>3. DepInv => DependenciesFirst
  BY DEF DepInv, DependenciesFirst, Follows, PhaseOf, PhaseBy
<1> QED
  BY <1>1, <1>2, <1>3, CleanInvariance, PTL DEF Spec
=============================================================================
