-------------------------- MODULE TestSelector_proofs --------------------------
(***************************************************************************)
(* Theorems about TestSelector, for any cases, metadata and filters and    *)
(* any number of filters.  The inductive invariant says, case by case and  *)
(* for every list of filters, what is selected and what the two sets of    *)
(* forced cases hold; the declared rules follow from it.                   *)
(***************************************************************************)
EXTENDS TestSelector, TLAPS

-----------------------------------------------------------------------------
(* Types *)

\* A new TestCaseRuntimeData is one.
LEMMA NewRuntimeDataType ==
  ASSUME NEW c \in Cases
  PROVE  NewRuntimeData(c) \in RuntimeData
BY MetadataAssumption DEF NewRuntimeData, RuntimeData

\* _apply_settings keeps the types of the fields.
LEMMA ApplySettingsType ==
  ASSUME NEW data \in RuntimeData, NEW f \in Filters
  PROVE  ApplySettings(data, f) \in RuntimeData
<1>1. f.timeout \in Nat /\ f.times \in Nat \ {0} /\ f.retry \in Nat /\ f.select_action \in Actions
      /\ f.ignore_failure \in BOOLEAN /\ f.use_new_environment \in BOOLEAN
  BY FiltersAssumption
<1>2. (IF f.timeout > data.timeout THEN f.timeout ELSE data.timeout) \in Nat
  BY <1>1 DEF RuntimeData
<1> QED
  BY <1>1, <1>2 DEF ApplySettings, RuntimeData

\* So does clone.
LEMMA CloneType ==
  ASSUME NEW c \in Cases, NEW data \in RuntimeData
  PROVE  Clone(c, data) \in RuntimeData
BY MetadataAssumption DEF Clone, RuntimeData

\* Whatever a filter does, selected stays a dictionary over registered cases.
LEMMA FilterType ==
  ASSUME TypeOK, NEW f \in Filters, ApplyFilter(f)
  PROVE  TypeOK'
<1>1. filters' \in Seq(Filters)
  BY DEF ApplyFilter, TypeOK
<1>2. results' = results
  BY DEF ApplyFilter
<1>3. CASE IncludeCases(f)
  <2>1. CASE outcome' = "raised" /\ UNCHANGED <<selected, force_included, force_excluded>>
    BY <1>1, <1>2, <2>1 DEF TypeOK
  <2>2. CASE ~(outcome' = "raised" /\ UNCHANGED <<selected, force_included, force_excluded>>)
    <3> DEFINE included == MatchCases(Cases, f) \ force_excluded
               Data(c) == IF c \in DOMAIN selected THEN selected[c] ELSE NewRuntimeData(c)
    <3>1. /\ selected' = [c \in DOMAIN selected \cup included |->
                             IF c \in included THEN ApplySettings(Data(c), f) ELSE Data(c)]
          /\ force_included' \in {force_included, force_included \cup included}
          /\ UNCHANGED <<force_excluded, outcome>>
      BY <1>3, <2>2 DEF IncludeCases
    <3>2. included \subseteq Cases
      BY DEF MatchCases
    <3>3. \A c \in DOMAIN selected \cup included : Data(c) \in RuntimeData
      BY <3>2, NewRuntimeDataType DEF TypeOK
    <3> HIDE DEF included, Data
    <3>4. \A c \in DOMAIN selected' : selected'[c] \in RuntimeData
      BY <3>1, <3>3, ApplySettingsType
    <3> QED
      BY <1>1, <1>2, <3>1, <3>2, <3>4 DEF TypeOK
  <2> QED
    BY <2>1, <2>2
<1>4. CASE ExcludeCases(f)
  BY <1>1, <1>2, <1>4 DEF ExcludeCases, Restrict, MatchCases, TypeOK
<1>5. CASE UpdateCases(f)
  BY <1>1, <1>2, <1>5, ApplySettingsType DEF UpdateCases, TypeOK
<1> QED
  BY <1>3, <1>4, <1>5 DEF ApplyFilter

\* The end of select_testcases returns runtime data.
LEMMA ReturnType ==
  ASSUME TypeOK, Return
  PROVE  TypeOK'
<1>1. UNCHANGED <<filters, selected, force_included, force_excluded>> /\ outcome' = "returned"
  BY DEF Return
<1>2. ASSUME NEW c \in DOMAIN results'
      PROVE  results'[c] \in Seq(RuntimeData)
  <2>1. CASE filters = <<>>
    BY <1>2, <2>1, NewRuntimeDataType DEF Return
  <2>2. CASE filters # <<>>
    <3>1. c \in DOMAIN selected /\ c \in Cases /\ selected[c] \in RuntimeData
      BY <1>2, <2>2 DEF Return, TypeOK
    <3>2. results'[c] = [i \in 1..selected[c].times |->
                           IF i = 1 THEN selected[c] ELSE Clone(c, selected[c])]
      BY <3>1, <2>2 DEF Return
    <3>3. selected[c].times \in Nat
      BY <3>1 DEF RuntimeData
    <3>4. results'[c] \in [1..selected[c].times -> RuntimeData]
      BY <3>1, <3>2, CloneType
    <3> QED
      BY <3>3, <3>4
  <2> QED
    BY <2>1, <2>2
<1> QED
  BY <1>1, <1>2 DEF TypeOK

\* The dictionary of selected cases only ever holds runtime data of registered cases.
THEOREM TypeCorrect == Spec => []TypeOK
<1>1. Init => TypeOK
  BY DEF Init, TypeOK
<1>2. TypeOK /\ [Next]_vars => TypeOK'
  <2> SUFFICES ASSUME TypeOK, [Next]_vars PROVE TypeOK'
    OBVIOUS
  <2>1. ASSUME NEW f \in Filters, ApplyFilter(f) PROVE TypeOK'
    BY <2>1, FilterType
  <2>2. CASE Return
    BY <2>2, ReturnType
  <2>3. CASE UNCHANGED vars
    BY <2>3 DEF vars, TypeOK
  <2> QED
    BY <2>1, <2>2, <2>3 DEF Next, Done
<1> QED
  BY <1>1, <1>2, PTL DEF Spec

-----------------------------------------------------------------------------
(* Forced actions *)

\* The cases that _force_check recorded as forced in are selected, and those that it
\* recorded as forced out are not.
ForcedKept ==
  /\ force_included \subseteq DOMAIN selected
  /\ force_excluded \cap DOMAIN selected = {}

\* ForcedKept is inductive: the cases forced the other way are taken out of a change.
LEMMA FilterKeepsForced ==
  ASSUME ForcedKept, NEW f \in Filters, ApplyFilter(f)
  PROVE  ForcedKept'
<1>1. CASE IncludeCases(f)
  BY <1>1 DEF IncludeCases, ForcedKept
<1>2. CASE ExcludeCases(f)
  BY <1>2 DEF ExcludeCases, Restrict, ForcedKept
<1>3. CASE UpdateCases(f)
  BY <1>3 DEF UpdateCases, ForcedKept
<1> QED
  BY <1>1, <1>2, <1>3 DEF ApplyFilter

-----------------------------------------------------------------------------
(* The selection as a function of the list of filters *)

\* The first filter that binds c, if there is one, is forced this way.
BoundBy(c, action) == \E i \in Binding(c) : IsFirst(i, Binding(c)) /\ ActionOf(i) = action

LastIncludes(c) == \E i \in Deciding(c) : IsLatest(i, Deciding(c)) /\ Includes(filters[i])

\* A filter about c contradicts the one that binds it.
ConflictOn(c) ==
  \E i \in Binding(c) : \E j \in About(c) :
    /\ IsFirst(i, Binding(c)) /\ i < j
    /\ \/ ActionOf(i) = "forceInclude" /\ ActionOf(j) = "forceExclude"
       \/ ActionOf(i) = "forceExclude" /\ ActionOf(j) = "forceInclude"

CaseDeclared(c) ==
  /\ c \in DOMAIN selected <=> LastIncludes(c)
  /\ c \in force_included <=> BoundBy(c, "forceInclude")
  /\ c \in force_excluded <=> BoundBy(c, "forceExclude")
  /\ Binding(c) # {} => c \in force_included \cup force_excluded
  /\ ~ConflictOn(c)

IInv ==
  /\ TypeOK /\ ForcedKept
  /\ outcome = "raised" => \E c \in Cases : ConflictOn(c)
  /\ outcome # "raised" => \A c \in Cases : CaseDeclared(c)

\* The filter that is being applied is about the case c.
NewAbout(f, c) == f.select_action # "none" /\ Matches(c, f.criteria)

NewBinding(f, c) ==
  /\ NewAbout(f, c)
  /\ \/ f.select_action = "forceInclude"
     \/ /\ f.select_action = "forceExclude"
        /\ \E j \in About(c) : IsLatest(j, About(c)) /\ ActionOf(j) = "include"

Added(is, i, new) == IF new THEN is \cup {i} ELSE is

\* What one more filter adds to the sets of places that are about c and that bind it.
LEMMA OneMoreFilter ==
  ASSUME TypeOK, NEW f \in Filters, filters' = Append(filters, f), NEW c \in Cases,
         NEW n, n = Len(filters) + 1
  PROVE  /\ n \in Nat /\ About(c) \subseteq 1..(n - 1) /\ Binding(c) \subseteq About(c)
         /\ \A i \in About(c) : filters'[i] = filters[i]
         /\ filters'[n] = f
         /\ About(c)' = Added(About(c), n, NewAbout(f, c))
         /\ Binding(c)' = Added(Binding(c), n, NewBinding(f, c))
<1>1. filters \in Seq(Filters) /\ n \in Nat /\ n > 0
  BY DEF TypeOK
<1>2. DOMAIN filters = 1..(n - 1) /\ DOMAIN filters' = 1..n
  BY <1>1
<1>3. filters'[n] = f /\ \A i \in 1..(n - 1) : filters'[i] = filters[i]
  BY <1>1
<1>4. About(c) \subseteq 1..(n - 1) /\ Binding(c) \subseteq About(c)
  BY <1>2 DEF About, Binding
<1>5. About(c)' = {i \in 1..n : /\ filters'[i].select_action # "none"
                               /\ Matches(c, filters'[i].criteria)}
  BY <1>2 DEF About, Matches
<1>6. About(c)' = Added(About(c), n, NewAbout(f, c))
  <2>1. \A i \in 1..(n - 1) : i \in About(c)' <=> i \in About(c)
    BY <1>1, <1>2, <1>3, <1>5 DEF About
  <2>2. n \in About(c)' <=> NewAbout(f, c)
    BY <1>1, <1>3, <1>5 DEF NewAbout
  <2>3. About(c)' \subseteq 1..n /\ n \notin About(c) /\ \A i \in 1..n : i = n \/ i \in 1..(n - 1)
    BY <1>1, <1>4, <1>5
  <2>4. CASE NewAbout(f, c)
    <3>1. About(c)' = About(c) \cup {n}
      BY <1>1, <1>4, <2>1, <2>2, <2>3, <2>4
    <3> QED
      BY <3>1, <2>4 DEF Added
  <2>5. CASE ~NewAbout(f, c)
    <3>1. About(c)' = About(c)
      BY <1>1, <1>4, <2>1, <2>2, <2>3, <2>5
    <3> QED
      BY <3>1, <2>5 DEF Added
  <2> QED
    BY <2>4, <2>5
<1>7. \A i \in About(c) : {k \in About(c)' : k < i} = {k \in About(c) : k < i}
  BY <1>1, <1>4, <1>6 DEF Added
<1>8. n \in About(c)' => {k \in About(c)' : k < n} = About(c)
  BY <1>1, <1>4, <1>6 DEF Added
<1>9. \A i \in About(c) : i \in Binding(c)' <=> i \in Binding(c)
  <2> TAKE i \in About(c)
  <2>0. i \in About(c)' /\ ActionOf(i)' = ActionOf(i)
    BY <1>3, <1>4, <1>6 DEF Added, ActionOf
  <2>1. \A j \in About(c) : ActionOf(j)' = ActionOf(j) /\ j \in About(c)'
    BY <1>3, <1>4, <1>6 DEF Added, ActionOf
  <2>2. \A j : IsLatest(j, {k \in About(c) : k < i})' <=> IsLatest(j, {k \in About(c) : k < i})
    BY <1>7 DEF IsLatest
  <2>3. \A j : IsLatest(j, {k \in About(c) : k < i}) => j \in About(c)
    BY DEF IsLatest
  <2> QED
    BY <2>0, <2>1, <2>2, <2>3 DEF Binding
<1>10. n \in Binding(c)' <=> NewBinding(f, c)
  <2>0. ActionOf(n)' = f.select_action
    BY <1>3 DEF ActionOf
  <2>1. \A j \in About(c) : ActionOf(j)' = ActionOf(j) /\ j \in About(c)'
    BY <1>3, <1>4, <1>6 DEF Added, ActionOf
  <2>2. n \in About(c)' =>
          \A j : IsLatest(j, {k \in About(c) : k < n})' <=> IsLatest(j, About(c))
    BY <1>8 DEF IsLatest
  <2>3. n \in About(c)' <=> NewAbout(f, c)
    BY <1>1, <1>4, <1>6 DEF Added
  <2> QED
    BY <2>0, <2>1, <2>2, <2>3 DEF Binding, NewBinding, IsLatest
<1>11. Binding(c)' = Added(Binding(c), n, NewBinding(f, c))
  <2>1. Binding(c)' \subseteq About(c)'
    BY DEF Binding
  <2>2. n \notin About(c) /\ \A i \in About(c)' : i = n \/ i \in About(c)
    BY <1>1, <1>4, <1>6 DEF Added
  <2>3. CASE NewBinding(f, c)
    <3>1. Binding(c)' = Binding(c) \cup {n}
      BY <1>4, <1>9, <1>10, <2>1, <2>2, <2>3
    <3> QED
      BY <3>1, <2>3 DEF Added
  <2>4. CASE ~NewBinding(f, c)
    <3>1. Binding(c)' = Binding(c)
      BY <1>4, <1>9, <1>10, <2>1, <2>2, <2>4
    <3> QED
      BY <3>1, <2>4 DEF Added
  <2> QED
    BY <2>3, <2>4
<1> QED
  BY <1>1, <1>3, <1>4, <1>6, <1>11

\* The sets that CaseDeclared is about keep their filters' actions.
LEMMA SameActions ==
  ASSUME TypeOK, NEW f \in Filters, filters' = Append(filters, f), NEW c \in Cases
  PROVE  \A i \in About(c) : ActionOf(i)' = ActionOf(i) /\ (Includes(filters[i])' <=> Includes(filters[i]))
<1>1. \A i \in About(c) : filters'[i] = filters[i]
  BY OneMoreFilter
<1> QED
  BY <1>1 DEF ActionOf, Includes

\* A filter that is not about the case c changes nothing for it.
LEMMA OtherCase ==
  ASSUME TypeOK, NEW f \in Filters, filters' = Append(filters, f), NEW c \in Cases,
         CaseDeclared(c), ~NewAbout(f, c),
         c \in DOMAIN selected' <=> c \in DOMAIN selected,
         c \in force_included' <=> c \in force_included,
         c \in force_excluded' <=> c \in force_excluded
  PROVE  CaseDeclared(c)'
<1>1. About(c)' = About(c) /\ Binding(c)' = Binding(c) /\ Binding(c) \subseteq About(c)
  BY OneMoreFilter DEF Added, NewBinding
<1>2. Deciding(c)' = Deciding(c) /\ Deciding(c) \subseteq About(c)
  BY <1>1 DEF Deciding
<1>3. \A i \in About(c) : ActionOf(i)' = ActionOf(i) /\ (Includes(filters[i])' <=> Includes(filters[i]))
  BY SameActions
<1>4. LastIncludes(c)' <=> LastIncludes(c)
  BY <1>2, <1>3 DEF LastIncludes, IsLatest
<1>5. \A a : BoundBy(c, a)' <=> BoundBy(c, a)
  BY <1>1, <1>3 DEF BoundBy, IsFirst
<1>6. ConflictOn(c)' <=> ConflictOn(c)
  BY <1>1, <1>3 DEF ConflictOn, IsFirst
<1> QED
  BY <1>1, <1>4, <1>5, <1>6 DEF CaseDeclared

\* A case that is bound keeps its place, unless the filter contradicts what binds it.
LEMMA BoundCase ==
  ASSUME TypeOK, NEW f \in Filters, filters' = Append(filters, f), NEW c \in Cases,
         CaseDeclared(c), NewAbout(f, c), Binding(c) # {},
         ~(c \in force_included /\ f.select_action = "forceExclude"),
         ~(c \in force_excluded /\ f.select_action = "forceInclude"),
         c \in DOMAIN selected' <=> c \in DOMAIN selected,
         c \in force_included' <=> c \in force_included,
         c \in force_excluded' <=> c \in force_excluded
  PROVE  CaseDeclared(c)'
<1> DEFINE N == Len(filters) + 1
<1>0. PICK n : n = N
  OBVIOUS
<1> HIDE DEF N
<1>1. /\ n \in Nat /\ About(c) \subseteq 1..(n - 1) /\ Binding(c) \subseteq About(c)
      /\ filters'[n] = f
      /\ About(c)' = About(c) \cup {n}
      /\ Binding(c)' = Binding(c) \/ Binding(c)' = Binding(c) \cup {n}
  BY <1>0, OneMoreFilter DEF Added, N
<1>2. \A i \in About(c) : ActionOf(i)' = ActionOf(i) /\ (Includes(filters[i])' <=> Includes(filters[i]))
  BY SameActions
<1>3. PICK first \in Binding(c) : IsFirst(first, Binding(c))
  BY DEF CaseDeclared, BoundBy
<1>4. \A i \in Binding(c)' : IsFirst(i, Binding(c))' <=> i \in Binding(c) /\ IsFirst(i, Binding(c))
  BY <1>1, <1>3 DEF IsFirst
<1>5. Deciding(c)' = Deciding(c) /\ Deciding(c) \subseteq About(c)
  BY <1>1, <1>3 DEF Deciding, IsFirst
<1>6. LastIncludes(c)' <=> LastIncludes(c)
  BY <1>2, <1>5 DEF LastIncludes, IsLatest
<1>7. \A a : BoundBy(c, a)' <=> BoundBy(c, a)
  BY <1>1, <1>2, <1>4 DEF BoundBy
<1>8. ~ConflictOn(c)'
  <2> SUFFICES ASSUME NEW i \in Binding(c)', NEW j \in About(c)', IsFirst(i, Binding(c))', i < j,
                      \/ ActionOf(i)' = "forceInclude" /\ ActionOf(j)' = "forceExclude"
                      \/ ActionOf(i)' = "forceExclude" /\ ActionOf(j)' = "forceInclude"
               PROVE  FALSE
    BY DEF ConflictOn
  <2>1. i \in Binding(c) /\ IsFirst(i, Binding(c)) /\ ActionOf(i)' = ActionOf(i)
    BY <1>1, <1>2, <1>4
  <2>2. CASE j \in About(c)
    BY <2>1, <2>2, <1>2 DEF CaseDeclared, ConflictOn
  <2>3. CASE j = n
    <3>1. ActionOf(j)' = f.select_action
      BY <1>1, <2>3 DEF ActionOf
    <3> QED
      BY <2>1, <3>1 DEF CaseDeclared, BoundBy
  <2> QED
    BY <1>1, <2>2, <2>3
<1> QED
  BY <1>6, <1>7, <1>8 DEF CaseDeclared

\* For a case that nothing binds yet, the filter decides, and binds it if it is forced.
LEMMA FreeCase ==
  ASSUME TypeOK, NEW f \in Filters, filters' = Append(filters, f), NEW c \in Cases,
         CaseDeclared(c), NewAbout(f, c), Binding(c) = {},
         c \in DOMAIN selected' <=> Includes(f),
         c \in force_included' <=> f.select_action = "forceInclude",
         c \in force_excluded' <=> f.select_action = "forceExclude" /\ c \in DOMAIN selected
  PROVE  CaseDeclared(c)'
<1> DEFINE N == Len(filters) + 1
<1>0. PICK n : n = N
  OBVIOUS
<1> HIDE DEF N
<1>1. /\ n \in Nat /\ About(c) \subseteq 1..(n - 1)
      /\ filters'[n] = f
      /\ About(c)' = About(c) \cup {n}
      /\ Binding(c)' = Added(Binding(c), n, NewBinding(f, c))
  BY <1>0, OneMoreFilter DEF Added, N
<1>2. \A i \in About(c) : i \in Int /\ i < n
  BY <1>1
<1>3. Deciding(c) = About(c) /\ Deciding(c)' = About(c) \cup {n}
  <2>1. Binding(c)' \subseteq {n}
    BY <1>1 DEF Added
  <2> QED
    BY <1>1, <1>2, <2>1 DEF Deciding
<1>4. ActionOf(n)' = f.select_action
  BY <1>1 DEF ActionOf
<1>5. LastIncludes(c)' <=> Includes(f)
  <2>1. IsLatest(n, Deciding(c))' /\ \A i \in Deciding(c)' : IsLatest(i, Deciding(c))' => i = n
    BY <1>1, <1>2, <1>3 DEF IsLatest
  <2> QED
    BY <1>1, <1>3, <2>1 DEF LastIncludes, Includes
<1>6. (\E j \in About(c) : IsLatest(j, About(c)) /\ ActionOf(j) = "include") <=> c \in DOMAIN selected
  <2>1. \A j \in About(c) : ActionOf(j) # "forceInclude"
    BY DEF Binding
  <2> QED
    BY <1>3, <2>1 DEF CaseDeclared, LastIncludes, Includes, ActionOf
<1>7. NewBinding(f, c) <=> \/ f.select_action = "forceInclude"
                           \/ f.select_action = "forceExclude" /\ c \in DOMAIN selected
  BY <1>6 DEF NewBinding
<1>8. CASE NewBinding(f, c)
  <2>1. Binding(c)' = {n}
    BY <1>1, <1>8 DEF Added
  <2>2. \A i \in Binding(c)' : i = n /\ IsFirst(n, Binding(c))'
    BY <1>1, <2>1 DEF IsFirst
  <2>3. \A a : BoundBy(c, a)' <=> f.select_action = a
    BY <1>4, <2>1, <2>2 DEF BoundBy
  <2>4. ~ConflictOn(c)'
    BY <1>1, <1>2, <2>1 DEF ConflictOn
  <2> QED
    BY <1>5, <1>7, <1>8, <2>3, <2>4 DEF CaseDeclared
<1>9. CASE ~NewBinding(f, c)
  <2>1. Binding(c)' = {}
    BY <1>1, <1>9 DEF Added
  <2>2. ~ConflictOn(c)' /\ \A a : ~BoundBy(c, a)'
    BY <2>1 DEF ConflictOn, BoundBy
  <2>3. c \notin force_included' /\ c \notin force_excluded'
    BY <1>7, <1>9
  <2> QED
    BY <1>5, <2>1, <2>2, <2>3 DEF CaseDeclared
<1> QED
  BY <1>8, <1>9

\* Every case, under a filter that does not fail
LEMMA FilterKeepsCase ==
  ASSUME TypeOK, ForcedKept, NEW f \in Filters, ApplyFilter(f), outcome' # "raised",
         NEW c \in Cases, CaseDeclared(c)
  PROVE  CaseDeclared(c)'
<1>1. filters' = Append(filters, f)
  BY DEF ApplyFilter
<1>2. CASE ~NewAbout(f, c)
  <2>1. CASE ~Matches(c, f.criteria)
    BY <1>1, <1>2, <2>1, OtherCase
       DEF ApplyFilter, IncludeCases, ExcludeCases, UpdateCases, MatchCases, Restrict
  <2>2. CASE f.select_action = "none"
    <3>1. UpdateCases(f)
      BY <2>2 DEF ApplyFilter, Includes, Excludes
    <3> QED
      BY <1>1, <1>2, <3>1, OtherCase DEF UpdateCases
  <2> QED
    BY <1>2, <2>1, <2>2 DEF NewAbout
<1>3. CASE NewAbout(f, c)
  <2>1. Matches(c, f.criteria) /\ f.select_action # "none"
    BY <1>3 DEF NewAbout
  <2>2. f.select_action \in Actions
    BY FiltersAssumption
  <2>3. CASE Includes(f)
    <3>1. IncludeCases(f) /\ ~Excludes(f)
      BY <2>1, <2>3 DEF ApplyFilter, Includes, Excludes
    <3>2. c \in MatchCases(Cases, f)
      BY <2>1 DEF MatchCases
    <3>3. ~(c \in force_excluded /\ f.select_action = "forceInclude")
      BY <3>1, <3>2 DEF IncludeCases, Conflict, IsForce
    <3>4. /\ c \in DOMAIN selected' <=> c \in DOMAIN selected \/ c \notin force_excluded
          /\ c \in force_included' <=> \/ c \in force_included
                                       \/ f.select_action = "forceInclude" /\ c \notin force_excluded
          /\ force_excluded' = force_excluded
      BY <2>3, <3>1, <3>2 DEF IncludeCases, IsForce, Includes
    <3>5. CASE Binding(c) = {}
      <4>1. c \notin force_included /\ c \notin force_excluded
        BY <3>5 DEF CaseDeclared, BoundBy
      <4> QED
        BY <1>1, <1>3, <2>3, <3>4, <3>5, <4>1, FreeCase DEF Includes
    <3>6. CASE Binding(c) # {}
      <4>1. c \in force_included \/ c \in force_excluded
        BY <3>6 DEF CaseDeclared
      <4> QED
        BY <1>1, <1>3, <2>3, <3>3, <3>4, <3>6, <4>1, BoundCase DEF ForcedKept, Includes
    <3> QED
      BY <3>5, <3>6
  <2>4. CASE Excludes(f)
    <3>1. ExcludeCases(f) /\ ~Includes(f)
      BY <2>1, <2>4 DEF ApplyFilter, Includes, Excludes
    <3>2. c \in MatchCases(DOMAIN selected, f) <=> c \in DOMAIN selected
      BY <2>1 DEF MatchCases
    <3>3. ~(c \in force_included /\ f.select_action = "forceExclude")
      BY <3>1, <3>2 DEF ExcludeCases, Conflict, IsForce, ForcedKept
    <3>4. /\ c \in DOMAIN selected' <=> c \in DOMAIN selected /\ c \in force_included
          /\ c \in force_excluded' <=>
               \/ c \in force_excluded
               \/ f.select_action = "forceExclude" /\ c \in DOMAIN selected /\ c \notin force_included
          /\ force_included' = force_included
      BY <2>4, <3>1, <3>2 DEF ExcludeCases, IsForce, Excludes, Restrict
    <3>5. CASE Binding(c) = {}
      <4>1. c \notin force_included /\ c \notin force_excluded
        BY <3>5 DEF CaseDeclared, BoundBy
      <4> QED
        BY <1>1, <1>3, <2>4, <3>1, <3>4, <3>5, <4>1, FreeCase DEF Includes, Excludes
    <3>6. CASE Binding(c) # {}
      <4>1. c \in force_included \/ c \in force_excluded
        BY <3>6 DEF CaseDeclared
      <4>2. c \in force_excluded => c \notin DOMAIN selected
        BY DEF ForcedKept
      <4>3. c \in force_included => c \in DOMAIN selected
        BY DEF ForcedKept
      <4> QED
        BY <1>1, <1>3, <2>4, <3>3, <3>4, <3>6, <4>1, <4>2, <4>3, BoundCase DEF Excludes
    <3> QED
      BY <3>5, <3>6
  <2> QED
    BY <2>1, <2>2, <2>3, <2>4 DEF Actions, Includes, Excludes
<1> QED
  BY <1>2, <1>3

\* A filter that fails contradicts what binds some case.
LEMMA FilterFailsOnConflict ==
  ASSUME TypeOK, ForcedKept, NEW f \in Filters, ApplyFilter(f), outcome' = "raised",
         \A c \in Cases : CaseDeclared(c)
  PROVE  \E c \in Cases : ConflictOn(c)'
<1>1. filters' = Append(filters, f) /\ outcome = "filtering"
  BY DEF ApplyFilter
<1>2. PICK c \in Cases :
        /\ NewAbout(f, c)
        /\ \/ c \in force_excluded /\ f.select_action = "forceInclude"
           \/ c \in force_included /\ f.select_action = "forceExclude"
  <2>1. CASE Includes(f) /\ IncludeCases(f)
    <3>1. Conflict(MatchCases(Cases, f), force_excluded, f)
      BY <1>1, <2>1 DEF IncludeCases
    <3> QED
      BY <2>1, <3>1 DEF Conflict, IsForce, Includes, MatchCases, NewAbout
  <2>2. CASE Excludes(f) /\ ExcludeCases(f)
    <3>1. Conflict(MatchCases(DOMAIN selected, f), force_included, f)
      BY <1>1, <2>2 DEF ExcludeCases
    <3>2. DOMAIN selected \subseteq Cases
      BY DEF TypeOK
    <3> QED
      BY <2>2, <3>1, <3>2 DEF Conflict, IsForce, Excludes, MatchCases, NewAbout
  <2>3. CASE UpdateCases(f)
    BY <1>1, <2>3 DEF UpdateCases
  <2> QED
    BY <2>1, <2>2, <2>3 DEF ApplyFilter
<1> DEFINE N == Len(filters) + 1
<1>3. PICK n : n = N
  OBVIOUS
<1> HIDE DEF N
<1>4. /\ n \in Nat /\ About(c) \subseteq 1..(n - 1) /\ Binding(c) \subseteq About(c)
      /\ filters'[n] = f
      /\ About(c)' = About(c) \cup {n}
      /\ Binding(c)' = Binding(c) \/ Binding(c)' = Binding(c) \cup {n}
  BY <1>1, <1>2, <1>3, OneMoreFilter DEF Added, N
<1>5. PICK i \in Binding(c) : /\ IsFirst(i, Binding(c))
                              /\ \/ ActionOf(i) = "forceExclude" /\ f.select_action = "forceInclude"
                                 \/ ActionOf(i) = "forceInclude" /\ f.select_action = "forceExclude"
  BY <1>2 DEF CaseDeclared, BoundBy
<1>6. ActionOf(i)' = ActionOf(i) /\ ActionOf(n)' = f.select_action
  BY <1>1, <1>4, SameActions DEF ActionOf
<1>7. i < n /\ IsFirst(i, Binding(c))'
  BY <1>4, <1>5 DEF IsFirst
<1> QED
  BY <1>4, <1>5, <1>6, <1>7 DEF ConflictOn

\* The inductive invariant
LEMMA Inductive == IInv /\ [Next]_vars => IInv'
<1> SUFFICES ASSUME IInv, [Next]_vars PROVE IInv'
  OBVIOUS
<1>1. ASSUME NEW f \in Filters, ApplyFilter(f) PROVE IInv'
  <2>1. outcome # "raised" /\ \A c \in Cases : CaseDeclared(c)
    BY <1>1 DEF ApplyFilter, IInv
  <2>2. TypeOK' /\ ForcedKept'
    BY <1>1, FilterType, FilterKeepsForced DEF IInv
  <2>3. outcome' # "raised" => \A c \in Cases : CaseDeclared(c)'
    BY <1>1, <2>1, FilterKeepsCase DEF IInv
  <2>4. outcome' = "raised" => \E c \in Cases : ConflictOn(c)'
    BY <1>1, <2>1, FilterFailsOnConflict DEF IInv
  <2> QED
    BY <2>2, <2>3, <2>4 DEF IInv
<1>2. ASSUME UNCHANGED <<filters, selected, force_included, force_excluded>>,
             outcome' = "raised" <=> outcome = "raised", TypeOK'
      PROVE  IInv'
  <2>1. \A c : About(c)' = About(c) /\ \A i : ActionOf(i)' = ActionOf(i)
    BY <1>2 DEF About, Matches, ActionOf
  <2>2. \A c : Binding(c)' = Binding(c)
    BY <2>1 DEF Binding, IsLatest
  <2>3. \A c : Deciding(c)' = Deciding(c)
    BY <2>1, <2>2 DEF Deciding
  <2>4. \A c : (ConflictOn(c)' <=> ConflictOn(c)) /\ (LastIncludes(c)' <=> LastIncludes(c))
                /\ \A a : BoundBy(c, a)' <=> BoundBy(c, a)
    BY <1>2, <2>1, <2>2, <2>3 DEF ConflictOn, LastIncludes, BoundBy, IsFirst, IsLatest, Includes
  <2> QED
    BY <1>2, <2>2, <2>4 DEF IInv, CaseDeclared, ForcedKept
<1>3. CASE Return
  BY <1>2, <1>3, ReturnType DEF Return, IInv
<1>4. CASE UNCHANGED vars
  <2>1. TypeOK'
    BY <1>4 DEF IInv, vars, TypeOK
  <2> QED
    BY <1>2, <1>4, <2>1 DEF vars
<1> QED
  BY <1>1, <1>3, <1>4 DEF Next, Done

\* No filter has been applied yet.
LEMMA Initial == Init => IInv
<1> SUFFICES ASSUME Init PROVE IInv
  OBVIOUS
<1>1. TypeOK /\ ForcedKept /\ outcome # "raised"
  BY DEF Init, TypeOK, ForcedKept
<1>2. \A c \in Cases : About(c) = {}
  BY DEF Init, About
<1>3. \A c \in Cases : Binding(c) = {} /\ Deciding(c) = {}
  BY <1>2 DEF Binding, Deciding
<1>4. \A c \in Cases : CaseDeclared(c)
  BY <1>3 DEF Init, CaseDeclared, LastIncludes, BoundBy, ConflictOn
<1> QED
  BY <1>1, <1>4 DEF IInv

\* For a case that is forced, its first forced filter that was not forgotten is the first that
\* binds it; without a forgotten one, it is the first forced one of all.
LEMMA FirstForced ==
  ASSUME TypeOK, NEW c \in Cases, CaseDeclared(c), Forced(c) \ Forgotten(c) # {}
  PROVE  \E i \in Binding(c) : /\ IsFirst(i, Binding(c)) /\ i \in Int
                              /\ \A j \in Forced(c) \ Forgotten(c) : j \in Int /\ i <= j
<1>1. About(c) \subseteq DOMAIN filters /\ DOMAIN filters \subseteq Int
  BY DEF About, TypeOK
<1>2. Binding(c) \subseteq Forced(c) /\ Forced(c) \subseteq About(c)
  BY DEF Binding, Forced, IsForce, ActionOf
<1>3. Binding(c) # {}
  BY <1>2 DEF Forgotten
<1>4. PICK i \in Binding(c) : IsFirst(i, Binding(c))
  BY <1>3 DEF CaseDeclared, BoundBy
<1>5. ASSUME NEW j \in Forced(c) \ Forgotten(c)
      PROVE  i <= j
  <2>1. CASE j \in Binding(c)
    BY <1>4, <2>1 DEF IsFirst
  <2>2. CASE j \notin Binding(c)
    <3>1. PICK k \in Binding(c) : ~(j < k)
      BY <2>2 DEF Forgotten
    <3>2. i <= k /\ i \in Int /\ j \in Int /\ k \in Int
      BY <1>1, <1>2, <1>4, <3>1 DEF IsFirst
    <3> QED
      BY <3>1, <3>2
  <2> QED
    BY <2>1, <2>2
<1> QED
  BY <1>1, <1>2, <1>4, <1>5

\* A forced inclusion, and a forced exclusion that was not forgotten, holds for its case
\* after any list of filters, whatever filters come before and after it.
THEOREM ForcedActionsStay == Spec => []ForcedStays
<1>1. IInv => ForcedStays
  <2> SUFFICES ASSUME IInv, outcome # "raised", NEW c \in Cases, NEW j \in Forced(c) \ Forgotten(c)
               PROVE  c \in DOMAIN selected <=> ActionOf(j) = "forceInclude"
    BY DEF ForcedStays
  <2>1. TypeOK /\ ForcedKept /\ CaseDeclared(c)
    BY DEF IInv
  <2>2. PICK i \in Binding(c) : /\ IsFirst(i, Binding(c)) /\ i \in Int
                               /\ j \in Int /\ i <= j
    BY <2>1, FirstForced
  <2>3. /\ j \in About(c) /\ ActionOf(j) \in {"forceInclude", "forceExclude"}
        /\ ActionOf(i) \in {"forceInclude", "forceExclude"}
    BY DEF Forced, Binding, IsForce, ActionOf
  <2>4. ActionOf(i) = ActionOf(j)
    <3>1. CASE i = j
      BY <3>1
    <3>2. CASE i # j
      BY <2>1, <2>2, <2>3, <3>2 DEF CaseDeclared, ConflictOn
    <3> QED
      BY <3>1, <3>2
  <2>5. CASE ActionOf(i) = "forceInclude"
    BY <2>1, <2>2, <2>4, <2>5 DEF CaseDeclared, BoundBy, ForcedKept
  <2>6. CASE ActionOf(i) = "forceExclude"
    BY <2>1, <2>2, <2>4, <2>6 DEF CaseDeclared, BoundBy, ForcedKept
  <2> QED
    BY <2>3, <2>5, <2>6
<1> QED
  BY <1>1, Initial, Inductive, PTL DEF Spec

\* The selected cases depend on the list of filters alone: for each case without a forgotten
\* exclusion the last filter about it decides, up to the first forced one.
THEOREM SelectionDeclared == Spec => []SelectionIsDeclared
<1>1. IInv => SelectionIsDeclared
  <2> SUFFICES ASSUME IInv, outcome # "raised", NEW c \in Cases, Forgotten(c) = {}
               PROVE  LET decisive == {i \in About(c) : \A j \in Forced(c) : i <= j}
                      IN  c \in DOMAIN selected <=>
                            \E i \in decisive : IsLatest(i, decisive) /\ Includes(filters[i])
    BY DEF SelectionIsDeclared
  <2>1. TypeOK /\ CaseDeclared(c)
    BY DEF IInv
  <2>2. Binding(c) \subseteq Forced(c) /\ Forced(c) \subseteq About(c)
    BY DEF Binding, Forced, IsForce, ActionOf
  <2>3. About(c) \subseteq Int
    BY <2>1 DEF About, TypeOK
  <2>4. Deciding(c) = {i \in About(c) : \A j \in Forced(c) : i <= j}
    <3>1. CASE Forced(c) = {}
      BY <2>2, <3>1 DEF Deciding
    <3>2. CASE Forced(c) # {}
      <4>1. PICK i \in Binding(c) : \A j \in Forced(c) : i <= j
        BY <2>1, <3>2, FirstForced
      <4> QED
        BY <2>2, <2>3, <4>1 DEF Deciding
    <3> QED
      BY <3>1, <3>2
  <2> QED
    BY <2>1, <2>4 DEF CaseDeclared, LastIncludes
<1> QED
  BY <1>1, Initial, Inductive, PTL DEF Spec

\* The selection raises only if a case is forced both ways, and always if such a case has no
\* forgotten exclusion: _force_check neither misses another conflict nor makes one up.
THEOREM FailureDeclared == Spec => []FailsOnlyOnConflict
<1>1. IInv => FailsOnlyOnConflict
  <2> SUFFICES ASSUME IInv PROVE FailsOnlyOnConflict
    OBVIOUS
  <2>1. ASSUME NEW c \in Cases, ConflictOn(c) PROVE ForcedBothWays(c)
    BY <2>1 DEF ConflictOn, ForcedBothWays, Binding, Forced, IsForce, ActionOf
  <2>2. ASSUME NEW c \in Cases, ForcedBothWays(c), Forgotten(c) = {}, outcome # "raised" PROVE FALSE
    <3>1. TypeOK /\ CaseDeclared(c)
      BY <2>2 DEF IInv
    <3>2. PICK i, j \in Forced(c) : ActionOf(i) = "forceInclude" /\ ActionOf(j) = "forceExclude"
      BY <2>2 DEF ForcedBothWays
    <3>3. PICK k \in Binding(c) : /\ IsFirst(k, Binding(c)) /\ k \in Int
                                 /\ i \in Int /\ k <= i /\ j \in Int /\ k <= j
      BY <2>2, <3>1, <3>2, FirstForced
    <3>4. /\ i \in About(c) /\ j \in About(c)
          /\ ActionOf(k) \in {"forceInclude", "forceExclude"}
      BY DEF Forced, Binding
    <3> QED
      BY <3>1, <3>2, <3>3, <3>4 DEF CaseDeclared, ConflictOn
  <2> QED
    BY <2>1, <2>2 DEF IInv, FailsOnlyOnConflict
<1> QED
  BY <1>1, Initial, Inductive, PTL DEF Spec

-----------------------------------------------------------------------------
(* The settings *)

Drops(c) == {i \in Deciding(c) : Excludes(filters[i])}

From(c) == {i \in About(c) : Includes(filters[i]) /\ \A j \in Drops(c) : j < i}

\* The runtime data of c follow from the filters in from.
DataDeclared(c, data, from, fs) ==
  /\ \E i \in from : /\ IsLatest(i, from)
                     /\ \A count \in {"times", "retry", "ignore_failure"} : data[count] = fs[i][count]
  /\ data.use_new_environment =
       (Metadata[c].use_new_environment \/ \E i \in from : fs[i].use_new_environment)
  /\ \A i \in from : data.timeout >= fs[i].timeout
  /\ data.timeout \in {Metadata[c].timeout} \cup {fs[i].timeout : i \in from}

\* A case that is not selected and may be has no filter that gives it settings.
CaseSettings(c) ==
  /\ c \in DOMAIN selected => DataDeclared(c, selected[c], Setting(c), filters)
  /\ c \notin DOMAIN selected /\ Binding(c) = {} => From(c) = {}

SInv == IInv /\ (outcome # "raised" => \A c \in Cases : CaseSettings(c))

\* What one more filter adds to the sets of places that drop c, include it and give it settings
LEMMA OneMoreSetting ==
  ASSUME TypeOK, NEW f \in Filters, filters' = Append(filters, f), NEW c \in Cases,
         NEW n, n = Len(filters) + 1
  PROVE  /\ Drops(c)' = Added(Drops(c), n, NewAbout(f, c) /\ Binding(c) = {} /\ Excludes(f))
         /\ Drops(c) \subseteq 1..(n - 1)
         /\ ~(NewAbout(f, c) /\ Binding(c) = {} /\ Excludes(f)) =>
              /\ From(c)' = Added(From(c), n, NewAbout(f, c) /\ Includes(f))
              /\ Setting(c)' = Added(Setting(c), n, /\ ~Excludes(f) /\ Matches(c, f.criteria)
                                                    /\ From(c) # {} \/ (NewAbout(f, c) /\ Includes(f)))
         /\ NewAbout(f, c) /\ Binding(c) = {} /\ Excludes(f) => From(c)' = {}
<1>1. /\ n \in Nat /\ n > 0 /\ About(c) \subseteq 1..(n - 1) /\ Binding(c) \subseteq About(c)
      /\ About(c)' = Added(About(c), n, NewAbout(f, c))
      /\ Binding(c)' = Added(Binding(c), n, NewBinding(f, c))
      /\ DOMAIN filters = 1..(n - 1) /\ DOMAIN filters' = 1..n
      /\ filters'[n] = f /\ \A i \in 1..(n - 1) : filters'[i] = filters[i]
  BY OneMoreFilter DEF TypeOK
<1>2. NewBinding(f, c) => NewAbout(f, c)
  BY DEF NewBinding
<1>3. Deciding(c)' = Added(Deciding(c), n, NewAbout(f, c) /\ Binding(c) = {})
  <2>1. \A i \in About(c) : i \in Deciding(c)' <=> i \in Deciding(c)
    <3>1. \A i \in About(c) : i \in About(c)' /\ i <= n
      BY <1>1 DEF Added
    <3>2. \A i \in About(c) : (\A j \in Binding(c)' : i <= j) <=> (\A j \in Binding(c) : i <= j)
      BY <1>1, <3>1 DEF Added
    <3> QED
      BY <3>1, <3>2 DEF Deciding
  <2>2. n \in Deciding(c)' <=> NewAbout(f, c) /\ Binding(c) = {}
    <3>1. n \in About(c)' <=> NewAbout(f, c)
      BY <1>1 DEF Added
    <3>2. \A j \in Binding(c) : ~(n <= j)
      BY <1>1
    <3>3. \A j \in Binding(c)' : j \in Binding(c) \/ j = n
      BY <1>1 DEF Added
    <3>4. Binding(c) \subseteq Binding(c)'
      BY <1>1 DEF Added
    <3>5. (\A j \in Binding(c)' : n <= j) <=> Binding(c) = {}
      BY <1>1, <3>2, <3>3, <3>4
    <3> QED
      BY <3>1, <3>5 DEF Deciding
  <2>3. Deciding(c)' \subseteq About(c) \cup {n} /\ Deciding(c) \subseteq About(c) /\ n \notin About(c)
    BY <1>1 DEF Deciding, Added
  <2> QED
    BY <2>1, <2>2, <2>3 DEF Added
<1>4. Drops(c) \subseteq 1..(n - 1)
  BY <1>1 DEF Drops, Deciding
<1>5. Drops(c)' = Added(Drops(c), n, NewAbout(f, c) /\ Binding(c) = {} /\ Excludes(f))
  <2>1. \A i \in Deciding(c) : Excludes(filters[i])' <=> Excludes(filters[i])
    BY <1>1 DEF Excludes, Deciding
  <2>2. Excludes(filters[n])' <=> Excludes(f)
    BY <1>1 DEF Excludes
  <2>3. Drops(c)' = {i \in Deciding(c)' : Excludes(filters[i])'}
    BY DEF Drops
  <2> QED
    BY <1>3, <2>1, <2>2, <2>3 DEF Added, Drops
<1>6. ASSUME ~(NewAbout(f, c) /\ Binding(c) = {} /\ Excludes(f))
      PROVE  /\ From(c)' = Added(From(c), n, NewAbout(f, c) /\ Includes(f))
             /\ Setting(c)' = Added(Setting(c), n, /\ ~Excludes(f) /\ Matches(c, f.criteria)
                                                   /\ From(c) # {} \/ (NewAbout(f, c) /\ Includes(f)))
  <2>1. Drops(c)' = Drops(c)
    BY <1>5, <1>6 DEF Added
  <2>2. \A i \in About(c) : Includes(filters[i])' <=> Includes(filters[i])
    BY <1>1 DEF Includes
  <2>3. (Includes(filters[n])' <=> Includes(f)) /\ \A j \in Drops(c) : j < n
    BY <1>1, <1>4 DEF Includes
  <2>4. From(c)' = {i \in About(c)' : Includes(filters[i])' /\ \A j \in Drops(c)' : j < i}
    BY DEF From
  <2>5. From(c)' = Added(From(c), n, NewAbout(f, c) /\ Includes(f))
    BY <1>1, <2>1, <2>2, <2>3, <2>4 DEF Added, From
  <2>6. From(c) \subseteq 1..(n - 1)
    BY <1>1 DEF From
  <2>7. /\ Setting(c) = {i \in DOMAIN filters : /\ ~Excludes(filters[i]) /\ Matches(c, filters[i].criteria)
                                                /\ \E j \in From(c) : j <= i}
        /\ Setting(c)' = {i \in DOMAIN filters' : /\ ~Excludes(filters[i])' /\ Matches(c, filters'[i].criteria)
                                                  /\ \E j \in From(c)' : j <= i}
    BY DEF Setting, From, Drops, Matches
  <2>8. \A i \in 1..(n - 1) : (\E j \in From(c)' : j <= i) <=> \E j \in From(c) : j <= i
    BY <1>1, <2>5 DEF Added
  <2>9. \A i \in 1..(n - 1) : i \in Setting(c)' <=> i \in Setting(c)
    <3>1. \A i \in 1..(n - 1) : i \in DOMAIN filters' /\ (Excludes(filters[i])' <=> Excludes(filters[i]))
      BY <1>1 DEF Excludes
    <3> QED
      BY <1>1, <2>7, <2>8, <3>1
  <2>10. (\E j \in From(c)' : j <= n) <=> From(c) # {} \/ (NewAbout(f, c) /\ Includes(f))
    BY <1>1, <2>5, <2>6 DEF Added
  <2>11. n \in Setting(c)' <=> /\ ~Excludes(f) /\ Matches(c, f.criteria)
                               /\ From(c) # {} \/ (NewAbout(f, c) /\ Includes(f))
    <3>1. n \in DOMAIN filters' /\ (Excludes(filters[n])' <=> Excludes(f))
      BY <1>1 DEF Excludes
    <3> QED
      BY <1>1, <2>7, <2>10, <3>1
  <2>12. Setting(c)' \subseteq 1..n /\ Setting(c) \subseteq 1..(n - 1)
         /\ \A i \in 1..n : i = n \/ i \in 1..(n - 1)
    BY <1>1, <2>7
  <2> DEFINE new == /\ ~Excludes(f) /\ Matches(c, f.criteria)
                    /\ From(c) # {} \/ (NewAbout(f, c) /\ Includes(f))
  <2> HIDE DEF new
  <2>13. CASE new
    <3>1. Setting(c)' = Setting(c) \cup {n}
      BY <1>1, <2>9, <2>11, <2>12, <2>13 DEF new
    <3> QED
      BY <2>5, <2>13, <3>1 DEF Added, new
  <2>14. CASE ~new
    <3>1. Setting(c)' = Setting(c)
      BY <1>1, <2>9, <2>11, <2>12, <2>14 DEF new
    <3> QED
      BY <2>5, <2>14, <3>1 DEF Added, new
  <2> QED
    BY <2>13, <2>14
<1>7. ASSUME NewAbout(f, c), Binding(c) = {}, Excludes(f) PROVE From(c)' = {}
  <2>1. n \in Drops(c)'
    BY <1>5, <1>7 DEF Added
  <2>2. \A i \in From(c)' : i \in 1..n /\ n < i
    BY <1>1, <2>1 DEF From, Added
  <2> QED
    BY <1>1, <2>2
<1> QED
  BY <1>4, <1>5, <1>6, <1>7

\* _apply_settings on a case that has settings already
LEMMA MoreSettings ==
  ASSUME NEW c \in Cases, NEW data \in RuntimeData, NEW f \in Filters, NEW n \in Nat,
         NEW from \in SUBSET (1..(n - 1)), NEW fs, NEW gs, \A i \in from : fs[i] \in Filters /\ gs[i] = fs[i],
         gs[n] = f, DataDeclared(c, data, from, fs)
  PROVE  DataDeclared(c, ApplySettings(data, f), from \cup {n}, gs)
<1> DEFINE new == ApplySettings(data, f)
<1>1. /\ data.timeout \in Nat /\ data.use_new_environment \in BOOLEAN
      /\ f.timeout \in Nat /\ f.use_new_environment \in BOOLEAN /\ \A i \in from : fs[i].timeout \in Nat
  BY FiltersAssumption DEF RuntimeData
<1>2. /\ new.times = f.times /\ new.retry = f.retry /\ new.ignore_failure = f.ignore_failure
      /\ new.use_new_environment = (data.use_new_environment \/ f.use_new_environment)
      /\ new.timeout = IF f.timeout > data.timeout THEN f.timeout ELSE data.timeout
  BY DEF ApplySettings
<1> HIDE DEF new
<1>3. \A count \in {"times", "retry", "ignore_failure"} : new[count] = gs[n][count]
  BY <1>2
<1>4. IsLatest(n, from \cup {n})
  BY DEF IsLatest
<1>5. new.use_new_environment = (Metadata[c].use_new_environment \/ \E i \in from \cup {n} : gs[i].use_new_environment)
  <2>1. (\E i \in from \cup {n} : gs[i].use_new_environment) <=>
          (\E i \in from : fs[i].use_new_environment) \/ f.use_new_environment
    OBVIOUS
  <2>2. data.use_new_environment = (Metadata[c].use_new_environment \/ \E i \in from : fs[i].use_new_environment)
    BY DEF DataDeclared
  <2> QED
    BY <1>1, <1>2, <2>1, <2>2
<1>6. \A i \in from \cup {n} : new.timeout >= gs[i].timeout
  <2>1. \A i \in from : data.timeout >= fs[i].timeout
    BY DEF DataDeclared
  <2>2. new.timeout \in Nat /\ new.timeout >= data.timeout /\ new.timeout >= f.timeout
    BY <1>1, <1>2
  <2>3. \A i \in from : new.timeout >= fs[i].timeout
    BY <1>1, <2>1, <2>2
  <2> QED
    BY <2>2, <2>3
<1>7. new.timeout \in {Metadata[c].timeout} \cup {gs[i].timeout : i \in from \cup {n}}
  BY <1>1, <1>2 DEF DataDeclared
<1> QED
  BY <1>3, <1>4, <1>5, <1>6, <1>7 DEF DataDeclared, new

\* _apply_settings on a case that has just been included
LEMMA FirstSettings ==
  ASSUME NEW c \in Cases, NEW f \in Filters, NEW n \in Nat, NEW gs, gs[n] = f
  PROVE  DataDeclared(c, ApplySettings(NewRuntimeData(c), f), {n}, gs)
<1> DEFINE new == ApplySettings(NewRuntimeData(c), f)
<1>1. /\ Metadata[c].timeout \in Nat /\ Metadata[c].use_new_environment \in BOOLEAN
      /\ f.timeout \in Nat /\ f.use_new_environment \in BOOLEAN
  BY FiltersAssumption, MetadataAssumption
<1>2. /\ new.times = f.times /\ new.retry = f.retry /\ new.ignore_failure = f.ignore_failure
      /\ new.use_new_environment = (Metadata[c].use_new_environment \/ f.use_new_environment)
      /\ new.timeout = IF f.timeout > Metadata[c].timeout THEN f.timeout ELSE Metadata[c].timeout
  BY DEF ApplySettings, NewRuntimeData
<1> HIDE DEF new
<1>3. \A count \in {"times", "retry", "ignore_failure"} : new[count] = gs[n][count]
  BY <1>2
<1>4. IsLatest(n, {n})
  BY DEF IsLatest
<1>5. /\ new.use_new_environment = (Metadata[c].use_new_environment \/ \E i \in {n} : gs[i].use_new_environment)
      /\ \A i \in {n} : new.timeout >= gs[i].timeout
      /\ new.timeout \in {Metadata[c].timeout} \cup {gs[i].timeout : i \in {n}}
  BY <1>1, <1>2
<1> QED
  BY <1>3, <1>4, <1>5 DEF DataDeclared, new

\* Every case keeps the settings that the filters declare for it.
LEMMA FilterKeepsSettings ==
  ASSUME TypeOK, ForcedKept, NEW f \in Filters, ApplyFilter(f), outcome' # "raised",
         NEW c \in Cases, CaseDeclared(c), CaseSettings(c)
  PROVE  CaseSettings(c)'
<1> DEFINE N == Len(filters) + 1
<1>0. PICK n : n = N
  OBVIOUS
<1> HIDE DEF N
<1>1. filters' = Append(filters, f) /\ n = Len(filters) + 1
  BY <1>0 DEF ApplyFilter, N
<1>2. /\ n \in Nat /\ DOMAIN filters = 1..(n - 1) /\ filters'[n] = f
      /\ \A i \in 1..(n - 1) : filters'[i] = filters[i] /\ filters[i] \in Filters
      /\ Binding(c)' = Added(Binding(c), n, NewBinding(f, c))
  BY <1>1, OneMoreFilter DEF TypeOK
<1>3. Setting(c) \subseteq 1..(n - 1)
  BY <1>2 DEF Setting
<1>4. /\ ~(NewAbout(f, c) /\ Binding(c) = {} /\ Excludes(f)) =>
           /\ From(c)' = Added(From(c), n, NewAbout(f, c) /\ Includes(f))
           /\ Setting(c)' = Added(Setting(c), n, /\ ~Excludes(f) /\ Matches(c, f.criteria)
                                                 /\ From(c) # {} \/ (NewAbout(f, c) /\ Includes(f)))
      /\ NewAbout(f, c) /\ Binding(c) = {} /\ Excludes(f) => From(c)' = {}
  BY <1>1, OneMoreSetting
<1>5. CaseSettings(c)' <=>
        /\ c \in DOMAIN selected' => DataDeclared(c, selected'[c], Setting(c)', filters')
        /\ c \notin DOMAIN selected' /\ Binding(c)' = {} => From(c)' = {}
  BY DEF CaseSettings, DataDeclared, IsLatest
<1>6. Setting(c) # {} => From(c) # {}
  BY DEF Setting, From, Drops
<1>7. c \in DOMAIN selected => /\ From(c) # {} /\ selected[c] \in RuntimeData
                               /\ DataDeclared(c, selected[c], Setting(c), filters)
  BY <1>6 DEF CaseSettings, DataDeclared, TypeOK
<1>8. ASSUME c \in DOMAIN selected, Setting(c)' = Setting(c), selected'[c] = selected[c]
      PROVE  DataDeclared(c, selected'[c], Setting(c)', filters')
  BY <1>2, <1>3, <1>7, <1>8 DEF DataDeclared
<1>9. ASSUME c \in DOMAIN selected, Setting(c)' = Setting(c) \cup {n}, selected'[c] = ApplySettings(selected[c], f)
      PROVE  DataDeclared(c, selected'[c], Setting(c)', filters')
  BY <1>2, <1>3, <1>7, <1>9, MoreSettings
<1>10. NewAbout(f, c) <=> f.select_action # "none" /\ Matches(c, f.criteria)
  BY DEF NewAbout
<1>11. f.select_action \in Actions
  BY FiltersAssumption
<1>12. c \in force_included \/ c \in force_excluded <=> Binding(c) # {}
  BY DEF CaseDeclared, BoundBy
<1>13. CASE ~Matches(c, f.criteria)
  <2>1. (c \in DOMAIN selected' <=> c \in DOMAIN selected) /\ (c \in DOMAIN selected => selected'[c] = selected[c])
    BY <1>13 DEF ApplyFilter, IncludeCases, ExcludeCases, UpdateCases, MatchCases, Restrict
  <2>2. Setting(c)' = Setting(c) /\ From(c)' = From(c) /\ Binding(c)' = Binding(c)
    BY <1>2, <1>4, <1>10, <1>13 DEF Added, NewBinding
  <2> QED
    BY <1>5, <1>8, <2>1, <2>2 DEF CaseSettings
<1>14. CASE Matches(c, f.criteria) /\ Includes(f)
  <2>1. IncludeCases(f) /\ ~Excludes(f) /\ NewAbout(f, c)
    BY <1>10, <1>14 DEF ApplyFilter, Includes, Excludes
  <2>2. c \in MatchCases(Cases, f)
    BY <1>14 DEF MatchCases
  <2>3. From(c)' = From(c) \cup {n} /\ Setting(c)' = Setting(c) \cup {n}
    BY <1>4, <1>14, <2>1 DEF Added
  <2>4. CASE c \in force_excluded
    <3>1. c \notin DOMAIN selected
      BY <2>4 DEF ForcedKept
    <3>2. c \notin DOMAIN selected'
      BY <2>1, <2>4, <3>1 DEF IncludeCases
    <3>3. Binding(c)' # {}
      BY <1>2, <1>12, <2>4 DEF Added
    <3> QED
      BY <1>5, <3>2, <3>3
  <2>5. CASE c \notin force_excluded
    <3>1. /\ c \in DOMAIN selected'
          /\ selected'[c] = ApplySettings(IF c \in DOMAIN selected THEN selected[c] ELSE NewRuntimeData(c), f)
      BY <2>1, <2>2, <2>5 DEF IncludeCases
    <3>2. CASE c \in DOMAIN selected
      BY <1>5, <1>9, <2>3, <3>1, <3>2
    <3>3. CASE c \notin DOMAIN selected
      <4>1. Binding(c) = {}
        BY <1>12, <2>5, <3>3 DEF ForcedKept
      <4>2. Setting(c)' = {n}
        BY <1>6, <2>3, <3>3, <4>1 DEF CaseSettings
      <4>3. DataDeclared(c, ApplySettings(NewRuntimeData(c), f), {n}, filters')
        BY <1>2, FirstSettings
      <4> QED
        BY <1>5, <3>1, <3>3, <4>2, <4>3
    <3> QED
      BY <3>2, <3>3
  <2> QED
    BY <2>4, <2>5
<1>15. CASE Matches(c, f.criteria) /\ Excludes(f)
  <2>1. ExcludeCases(f) /\ ~Includes(f) /\ NewAbout(f, c)
    BY <1>10, <1>15 DEF ApplyFilter, Includes, Excludes
  <2>2. c \in MatchCases(DOMAIN selected, f) <=> c \in DOMAIN selected
    BY <1>15 DEF MatchCases
  <2>3. /\ c \in DOMAIN selected' <=> c \in DOMAIN selected /\ c \in force_included
        /\ c \in DOMAIN selected' => selected'[c] = selected[c]
    BY <2>1, <2>2 DEF ExcludeCases, Restrict
  <2>4. CASE Binding(c) = {}
    BY <1>4, <1>5, <1>12, <1>15, <2>1, <2>3, <2>4
  <2>5. CASE Binding(c) # {}
    <3>1. Binding(c)' # {}
      BY <1>2, <2>5 DEF Added
    <3>2. Setting(c)' = Setting(c)
      BY <1>4, <1>15, <2>5 DEF Added
    <3> QED
      BY <1>5, <1>8, <2>3, <3>1, <3>2
  <2> QED
    BY <2>4, <2>5
<1>16. CASE Matches(c, f.criteria) /\ f.select_action = "none"
  <2>1. UpdateCases(f) /\ ~NewAbout(f, c) /\ ~Excludes(f)
    BY <1>10, <1>16 DEF ApplyFilter, Includes, Excludes
  <2>2. /\ c \in DOMAIN selected' <=> c \in DOMAIN selected
        /\ c \in DOMAIN selected => selected'[c] = ApplySettings(selected[c], f)
    BY <1>16, <2>1 DEF UpdateCases
  <2>3. From(c)' = From(c) /\ Binding(c)' = Binding(c) /\ (From(c) # {} => Setting(c)' = Setting(c) \cup {n})
    BY <1>2, <1>4, <1>16, <2>1 DEF Added, NewBinding
  <2> QED
    BY <1>5, <1>7, <1>9, <2>2, <2>3 DEF CaseSettings
<1> QED
  BY <1>11, <1>13, <1>14, <1>15, <1>16 DEF Actions, Includes, Excludes

\* The settings of a selected case depend on the list of filters alone: its counts on the last
\* filter that applied to it, its time-out and new environment on all since it was selected.
THEOREM SettingsDeclared == Spec => []SettingsAreDeclared
<1>1. Init => SInv
  <2> SUFFICES ASSUME Init PROVE SInv
    OBVIOUS
  <2>1. \A c \in Cases : About(c) = {} /\ c \notin DOMAIN selected
    BY DEF Init, About
  <2> QED
    BY <2>1, Initial DEF SInv, CaseSettings, From
<1>2. SInv /\ [Next]_vars => SInv'
  <2> SUFFICES ASSUME SInv, [Next]_vars PROVE SInv'
    OBVIOUS
  <2>1. IInv'
    BY Inductive DEF SInv
  <2>2. ASSUME NEW f \in Filters, ApplyFilter(f) PROVE SInv'
    <3>1. outcome # "raised" /\ TypeOK /\ ForcedKept /\ \A c \in Cases : CaseDeclared(c) /\ CaseSettings(c)
      BY <2>2 DEF ApplyFilter, SInv, IInv
    <3>2. outcome' # "raised" => \A c \in Cases : CaseSettings(c)'
      BY <2>2, <3>1, FilterKeepsSettings
    <3> QED
      BY <2>1, <3>2 DEF SInv
  <2>3. ASSUME UNCHANGED <<filters, selected>>, outcome' = "raised" <=> outcome = "raised" PROVE SInv'
    <3>1. \A c : About(c)' = About(c) /\ \A i : ActionOf(i)' = ActionOf(i)
      BY <2>3 DEF About, Matches, ActionOf
    <3>2. \A c : Binding(c)' = Binding(c)
      BY <3>1 DEF Binding, IsLatest
    <3>3. \A c : Deciding(c)' = Deciding(c)
      BY <3>1, <3>2 DEF Deciding
    <3>4. \A c : From(c)' = From(c) /\ Setting(c)' = Setting(c)
      BY <2>3, <3>1, <3>3 DEF From, Drops, Setting, Includes, Excludes, Matches
    <3>5. \A c : CaseSettings(c)' <=> CaseSettings(c)
      BY <2>3, <3>2, <3>4 DEF CaseSettings, DataDeclared, IsLatest
    <3> QED
      BY <2>1, <2>3, <3>5 DEF SInv
  <2> QED
    BY <2>2, <2>3 DEF Next, Return, Done, vars
<1>3. SInv => SettingsAreDeclared
  <2> SUFFICES ASSUME SInv, outcome # "raised", NEW c \in DOMAIN selected
               PROVE  DataDeclared(c, selected[c], Setting(c), filters)
    BY DEF SettingsAreDeclared, DataDeclared
  <2>1. c \in Cases
    BY DEF SInv, IInv, TypeOK
  <2> QED
    BY <2>1 DEF SInv, CaseSettings
<1> QED
  BY <1>1, <1>2, <1>3, PTL DEF Spec
=============================================================================
