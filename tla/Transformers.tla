---------------------------- MODULE Transformers ----------------------------
(***************************************************************************)
(* The order in which the transformers of a runbook run (transformer.py):  *)
(* depth first along depends_on, then by phase, then checked.              *)
(***************************************************************************)
EXTENDS Integers, FiniteSets, SequencesExt

\* Their order in _sort
Phases == <<"init", "expanded", "environment_connected", "expanded_cleanup", "cleanup">>

\* _load_transformers makes a dictionary: of two with one name the later replaces the
\* earlier, in its place.
Load(transformers) ==
  LET firsts == SelectSeq([i \in DOMAIN transformers |-> i],
                          LAMBDA i : \A j \in 1..(i - 1) : transformers[j].name # transformers[i].name)
      last(i) == CHOOSE j \in DOMAIN transformers :
                   /\ transformers[j].name = transformers[i].name
                   /\ \A k \in DOMAIN transformers : transformers[k].name = transformers[i].name => k <= j
  IN  [i \in DOMAIN firsts |-> transformers[last(firsts[i])]]

\* transformers is a sequence of [name, depends_on, phase, enabled].
NamesOf(transformers) == {transformers[i].name : i \in DOMAIN transformers}

ByName(transformers, name) == transformers[CHOOSE i \in DOMAIN transformers : transformers[i].name = name]

\* _sort_dfs, by the depth of the recursion.  sorted is the list built so far, visited
\* the names seen, dangling that some depends_on does not exist.
SortDfs(transformers) ==
  LET State == [visited : SUBSET NamesOf(transformers), sorted : Seq(NamesOf(transformers)),
                dangling : BOOLEAN]
      dfs[s \in State, name \in NamesOf(transformers)] ==
        LET seen  == [s EXCEPT !.visited = @ \cup {name}]
            visit(st, item) ==
              IF item \in st.visited THEN st
              ELSE IF item \notin NamesOf(transformers) THEN [st EXCEPT !.dangling = TRUE]
              ELSE dfs[st, item]
            below == FoldLeft(visit, seen, ByName(transformers, name).depends_on)
        IN  [below EXCEPT !.sorted = Append(@, name)]
      start(st, t) == IF t.name \in st.visited THEN st ELSE dfs[st, t.name]
  IN  FoldLeft(start, [visited |-> {}, sorted |-> <<>>, dangling |-> FALSE], transformers)

\* The items of a list that are in a set, in their order: item i is number count(i).
\* (SelectSeq without a recursion, for the proofs.)
Only(s, S) ==
  LET count(i) == Cardinality({j \in 1..i : s[j] \in S})
  IN  [k \in 1..count(Len(s)) |-> s[CHOOSE i \in 1..Len(s) : s[i] \in S /\ count(i) = k]]

ByPhaseUnsorted(transformers, names) == names

\* "sort by phase"
ByPhase(transformers, names) ==
  LET inPhase(phase) == Only(names, {n \in NamesOf(transformers) : ByName(transformers, n).phase = phase})
  IN  inPhase("init") \o inPhase("expanded") \o inPhase("environment_connected")
        \o inPhase("expanded_cleanup") \o inPhase("cleanup")

\* "check cycle reference": every dependency is earlier in the list.
References(transformers, names) ==
  \A i \in DOMAIN names : \A d \in ToSet(ByName(transformers, names[i]).depends_on) :
    \E j \in 1..(i - 1) : names[j] = d

Refused == <<"refused">>

\* _sort: the names in the order they run, or an exception
Sort(transformers) ==
  LET names == ByPhase(transformers, SortDfs(transformers).sorted)
  IN  IF \/ \E i, j \in DOMAIN transformers : i # j /\ transformers[i].name = transformers[j].name
         \/ SortDfs(transformers).dangling
         \/ \E i \in DOMAIN transformers : transformers[i].phase \notin ToSet(Phases)
         \/ ~References(transformers, names)
        THEN Refused ELSE names

PhaseRunAsListed(transformers, phase) ==
  LET loaded == Load(transformers)
      inPhase == SelectSeq(loaded, LAMBDA t : t.phase = phase /\ t.enabled)
  IN  [i \in DOMAIN inPhase |-> inPhase[i].name]

\* _run_transformers: those of the phase that are enabled
PhaseRun(transformers, phase) ==
  LET loaded == Load(transformers)
  IN  Only(Sort(loaded), {n \in NamesOf(loaded) : /\ ByName(loaded, n).phase = phase
                                                 /\ ByName(loaded, n).enabled})

-----------------------------------------------------------------------------
(* What the order promises. *)

PhaseNumber(t) == CHOOSE i \in DOMAIN Phases : Phases[i] = t.phase

\* A list in which every transformer comes after what it depends on and after the
\* earlier phases; one exists exactly if nothing depends on a later phase, on a
\* transformer that does not exist, or in a circle on itself.
Ordered(transformers, names) ==
  /\ Len(names) = Len(transformers) /\ ToSet(names) = NamesOf(transformers)
  /\ References(transformers, names)
  /\ \A i \in DOMAIN names : \A j \in 1..(i - 1) :
       PhaseNumber(ByName(transformers, names[j])) <= PhaseNumber(ByName(transformers, names[i]))
=============================================================================
