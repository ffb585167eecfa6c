--------------------------- MODULE MCTestSelector ---------------------------
(* An instance of TestSelector for TLC: three cases that differ in priority and tags,
   and filters that match none, one, two or all of them. *)
EXTENDS TestSelector

CaseData(p, tags, t, new) ==
  [attributes |-> [a \in Attributes |->
                     CASE a = "priority" -> {p} [] a = "tags" -> tags [] OTHER -> {"suite"}],
   timeout |-> t, use_new_environment |-> new]

MCMetadata ==
  [c \in Cases |-> CASE c = "smoke"  -> CaseData(0, {"fast"}, 1, FALSE)
                     [] c = "perf"   -> CaseData(1, {"fast", "disk"}, 1, FALSE)
                     [] c = "stress" -> CaseData(1, {}, 3, TRUE)]

\* A priority, which may be 0; a tag; both; no pattern at all
Criterias == {[a \in {"priority"} |-> {0}], [a \in {"tags"} |-> {"fast"}],
              [a \in {"priority", "tags"} |-> IF a = "tags" THEN {"disk"} ELSE {1}]}
Everything == [a \in {} |-> {}]

Filter(a, criteria, times, timeout, new) ==
  [select_action |-> a, criteria |-> criteria, times |-> times, retry |-> times - 1,
   ignore_failure |-> times = 2, timeout |-> timeout, use_new_environment |-> new]

MCFilters ==
  {Filter(a, c, 1, 0, FALSE) : a \in Actions, c \in Criterias}
    \cup {Filter(a, Everything, 2, 2, TRUE) : a \in {"none", "include"}}
=============================================================================
