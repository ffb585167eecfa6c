---------------------------- MODULE TestSelector ----------------------------
(***************************************************************************)
(* The selection of test cases (select_testcases): the filters of the      *)
(* runbook are applied one after the other to the cases selected so far,   *)
(* forced actions win over later ones, and each selected case is repeated. *)
(*                                                                         *)
(* A pattern of a filter is the set of values that it matches.  The order  *)
(* of the cases in the dictionary is left out.                             *)
(*                                                                         *)
(* A definition named for a slip (StaleSettings, ...) is a wrong version   *)
(* of the one after it and is not part of the specification.               *)
(***************************************************************************)
EXTENDS Integers, Sequences, FiniteSets, Functions

CONSTANTS
  Cases,       \* the names of the registered cases
  Metadata,    \* [Cases -> TestCaseMetadata]
  Filters,     \* the filters a runbook may have
  MaxFilters   \* bound on the filters of one runbook

Attributes == {"name", "area", "category", "priority", "tags"}

ASSUME MetadataAssumption ==
  \A c \in Cases : Metadata[c].timeout \in Nat /\ Metadata[c].use_new_environment \in BOOLEAN

Actions == {"none", "include", "forceInclude", "exclude", "forceExclude"}

ASSUME FiltersAssumption ==
  \A f \in Filters : /\ f.select_action \in Actions
                     /\ f.times \in Nat \ {0} /\ f.retry \in Nat /\ f.timeout \in Nat
                     /\ f.ignore_failure \in BOOLEAN /\ f.use_new_environment \in BOOLEAN

VARIABLES
  filters,         \* the filters applied so far
  selected,        \* selected: its keys are the selected cases
  force_included, force_excluded,
  outcome,         \* "filtering", "raised" or "returned"
  results          \* case by case, the TestCaseRuntimeData returned

vars == <<filters, selected, force_included, force_excluded, outcome, results>>

RuntimeData == [times : Nat \ {0}, retry : Nat, ignore_failure : BOOLEAN,
                use_new_environment : BOOLEAN, timeout : Nat, select_action : Actions \cup {""}]

-----------------------------------------------------------------------------
(* Matching *)

\* _match_string, _match_priority and _match_tags; a case has one value of each
\* attribute and several tags, all of them sets here.
Matches(c, criteria) ==
  \A a \in DOMAIN criteria : Metadata[c].attributes[a] \cap criteria[a] # {}

\* _match_cases
MatchCases(candidates, f) == {c \in candidates : Matches(c, f.criteria)}

-----------------------------------------------------------------------------
(* Settings *)

\* TestCaseRuntimeData.__init__
NewRuntimeData(c) ==
  [times |-> 1, retry |-> 0, ignore_failure |-> FALSE, select_action |-> "",
   use_new_environment |-> Metadata[c].use_new_environment, timeout |-> Metadata[c].timeout]

StaleSettings(data, f) == IF data.select_action = "" THEN
  [times |-> f.times, retry |-> f.retry, ignore_failure |-> f.ignore_failure,
   use_new_environment |-> data.use_new_environment \/ f.use_new_environment,
   timeout |-> IF f.timeout > data.timeout THEN f.timeout ELSE data.timeout,
   select_action |-> f.select_action] ELSE data

SwappedCounts(data, f) ==
  [data EXCEPT !.times = f.retry, !.retry = f.times, !.select_action = f.select_action]

\* _apply_settings: the last filter sets the counts, a new environment and the
\* longest time-out stay.
ApplySettings(data, f) ==
  [times |-> f.times, retry |-> f.retry, ignore_failure |-> f.ignore_failure,
   use_new_environment |-> data.use_new_environment \/ f.use_new_environment,
   timeout |-> IF f.timeout > data.timeout THEN f.timeout ELSE data.timeout,
   select_action |-> f.select_action]

\* TestCaseRuntimeData.clone: a new one, with a list of fields taken over.
Clone(c, data) ==
  [data EXCEPT !.timeout = Metadata[c].timeout]

-----------------------------------------------------------------------------
(* One filter *)

IsForce(f) == f.select_action \in {"forceInclude", "forceExclude"}

Includes(f) == f.select_action \in {"include", "forceInclude"}
Excludes(f) == f.select_action \in {"exclude", "forceExclude"}

ConflictIgnored(changed, exclusive, f) == FALSE

\* _force_check raises for a case that was forced the other way.
Conflict(changed, exclusive, f) == IsForce(f) /\ changed \cap exclusive # {}

\* Forced cases keep what they have: they are taken out of the change.
IncludeCases(f) ==
  LET changed == MatchCases(Cases, f)
      included == changed \ force_excluded
  IN  IF Conflict(changed, force_excluded, f)
        THEN outcome' = "raised" /\ UNCHANGED <<selected, force_included, force_excluded>>
        ELSE /\ selected' = [c \in DOMAIN selected \cup included |->
                   LET data == IF c \in DOMAIN selected THEN selected[c] ELSE NewRuntimeData(c)
                   IN  IF c \in included THEN ApplySettings(data, f) ELSE data]
             /\ force_included' = IF IsForce(f) THEN force_included \cup included ELSE force_included
             /\ UNCHANGED <<force_excluded, outcome>>

ExcludeForced(f) ==
  LET changed == MatchCases(DOMAIN selected, f)
  IN  IF Conflict(changed, force_included, f)
        THEN outcome' = "raised" /\ UNCHANGED <<selected, force_included, force_excluded>>
        ELSE /\ selected' = Restrict(selected, DOMAIN selected \ changed)
             /\ force_excluded' = IF IsForce(f) THEN force_excluded \cup changed ELSE force_excluded
             /\ UNCHANGED <<force_included, outcome>>

ExcludeCases(f) ==
  LET changed == MatchCases(DOMAIN selected, f)
      excluded == changed \ force_included
  IN  IF Conflict(changed, force_included, f)
        THEN outcome' = "raised" /\ UNCHANGED <<selected, force_included, force_excluded>>
        ELSE /\ selected' = Restrict(selected, DOMAIN selected \ excluded)
             /\ force_excluded' = IF IsForce(f) THEN force_excluded \cup excluded ELSE force_excluded
             /\ UNCHANGED <<force_included, outcome>>

\* "Just apply settings on test cases"
UpdateCases(f) ==
  /\ selected' = [c \in DOMAIN selected |->
                    IF Matches(c, f.criteria) THEN ApplySettings(selected[c], f) ELSE selected[c]]
  /\ UNCHANGED <<force_included, force_excluded, outcome>>

\* _apply_filter
ApplyFilter(f) ==
  /\ outcome = "filtering" /\ Len(filters) < MaxFilters
  /\ filters' = Append(filters, f)
  /\ \/ Includes(f) /\ IncludeCases(f)
     \/ Excludes(f) /\ ExcludeCases(f)
     \/ f.select_action = "none" /\ UpdateCases(f)
  /\ UNCHANGED results

-----------------------------------------------------------------------------
Init ==
  /\ filters = <<>>
  /\ selected = [c \in {} |-> NewRuntimeData(c)]
  /\ force_included = {} /\ force_excluded = {}
  /\ outcome = "filtering"
  /\ results = [c \in {} |-> <<>>]

\* The end of select_testcases: each case and its clones; without a filter, all cases.
Return ==
  /\ outcome = "filtering"
  /\ outcome' = "returned"
  /\ results' = IF filters = <<>>
                  THEN [c \in Cases |-> <<NewRuntimeData(c)>>]
                  ELSE [c \in DOMAIN selected |->
                          [i \in 1..selected[c].times |->
                             IF i = 1 THEN selected[c] ELSE Clone(c, selected[c])]]
  /\ UNCHANGED <<filters, selected, force_included, force_excluded>>

Done == outcome # "filtering" /\ UNCHANGED vars

Next == (\E f \in Filters : ApplyFilter(f)) \/ Return \/ Done

Spec == Init /\ [][Next]_vars
-----------------------------------------------------------------------------
(* Properties. *)

\* selected is a dictionary of runtime data over registered cases.
TypeOK ==
  /\ filters \in Seq(Filters)
  /\ DOMAIN selected \subseteq Cases
  /\ \A c \in DOMAIN selected : selected[c] \in RuntimeData
  /\ force_included \subseteq Cases /\ force_excluded \subseteq Cases
  /\ \A c \in DOMAIN results : results[c] \in Seq(RuntimeData)
  /\ outcome \in {"filtering", "raised", "returned"}

\* The filters that may select or drop the case c, by their place
About(c) == {i \in DOMAIN filters : /\ filters[i].select_action # "none"
                                    /\ Matches(c, filters[i].criteria)}

IsFirst(i, is)  == i \in is /\ \A j \in is : i <= j
IsLatest(i, is) == i \in is /\ \A j \in is : j <= i

ActionOf(i) == filters[i].select_action

\* The forced filters about c.  schema.TestCase says of them "if it's forced include or
\* exclude, it won't be effect by following select actions. And it fails if there are
\* force rules conflict."
Forced(c) == {i \in About(c) : IsForce(filters[i])}

\* The forced filters that _force_check records for c: an exclusion is matched with the
\* selected cases only, so that it must come after an inclusion.
Binding(c) ==
  {i \in About(c) :
     \/ ActionOf(i) = "forceInclude"
     \/ /\ ActionOf(i) = "forceExclude"
        /\ \E j \in About(c) : IsLatest(j, {k \in About(c) : k < i}) /\ ActionOf(j) = "include"}

\* The forced exclusions of c that are lost: they came while c was not selected, and were
\* not recorded.  For these the code departs from schema.TestCase: a later include selects
\* c, and a later forced inclusion of c does not raise.
Forgotten(c) == {i \in Forced(c) \ Binding(c) : \A j \in Binding(c) : i < j}

\* A forced filter is not undone by the filters after it, nor overruled by those before it:
\* the forced inclusion of a case has it selected and the forced exclusion has it out,
\* unless the exclusion was forgotten.
ForcedStays ==
  outcome # "raised" =>
    \A c \in Cases : \A i \in Forced(c) \ Forgotten(c) :
      c \in DOMAIN selected <=> ActionOf(i) = "forceInclude"

\* The result of the whole list of filters as schema.TestCase declares it, stated for one
\* case without the state of the others: the last filter about it decides, up to the first
\* that is forced.  It excepts the cases with a forgotten exclusion, which the code may select.
SelectionIsDeclared ==
  outcome # "raised" =>
    \A c \in Cases :
      LET decisive == {i \in About(c) : \A j \in Forced(c) : i <= j}
      IN  Forgotten(c) = {} =>
            (c \in DOMAIN selected <=> \E i \in decisive : IsLatest(i, decisive) /\ Includes(filters[i]))

ForcedBothWays(c) ==
  \E i, j \in Forced(c) : ActionOf(i) = "forceInclude" /\ ActionOf(j) = "forceExclude"

\* It fails only if some case is forced both ways, and it does fail then, unless the case
\* has a forgotten exclusion (schema.TestCase makes no such exception).
FailsOnlyOnConflict ==
  /\ outcome = "raised" => \E c \in Cases : ForcedBothWays(c)
  /\ (\E c \in Cases : ForcedBothWays(c) /\ Forgotten(c) = {}) => outcome = "raised"

\* The filters about c that had an effect on it: none after the first that binds it.
Deciding(c) == {i \in About(c) : \A j \in Binding(c) : i <= j}

\* The filters that gave c settings since it was last not selected
Setting(c) ==
  LET drops == {i \in Deciding(c) : Excludes(filters[i])}
      from  == {i \in About(c) : Includes(filters[i]) /\ \A j \in drops : j < i}
  IN  {i \in DOMAIN filters : /\ ~Excludes(filters[i]) /\ Matches(c, filters[i].criteria)
                              /\ \E j \in from : j <= i}

\* The counts of a selected case are those of the last filter that applied to it; a new
\* environment and the longest time-out are kept from any filter since it was selected,
\* and forgotten when it is excluded and included again.
SettingsAreDeclared ==
  outcome # "raised" =>
    \A c \in DOMAIN selected :
      LET from == Setting(c)
          data == selected[c]
      IN  /\ \E i \in from : /\ IsLatest(i, from)
                             /\ \A count \in {"times", "retry", "ignore_failure"} :
                                  data[count] = filters[i][count]
          /\ data.use_new_environment =
               (Metadata[c].use_new_environment \/ \E i \in from : filters[i].use_new_environment)
          /\ \A i \in from : data.timeout >= filters[i].timeout
          /\ data.timeout \in {Metadata[c].timeout} \cup {filters[i].timeout : i \in from}
=============================================================================
