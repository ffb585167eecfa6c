---------------------------- MODULE MCRootRunner ----------------------------
(* Instances of RootRunner for TLC. *)
EXTENDS RootRunner

Transformer(name, depends_on, phase) ==
  [name |-> name, depends_on |-> depends_on, phase |-> phase, enabled |-> TRUE]

\* One in each phase, listed against their order; one is disabled.
MCRunbook ==
  <<Transformer("delete_group", <<"deploy", "install">>, "cleanup"),
    Transformer("delete_build", <<"build">>, "expanded_cleanup"),
    Transformer("install", <<"build", "deploy">>, "expanded"),
    Transformer("build", <<"deploy", "skipped">>, "expanded"),
    [Transformer("skipped", <<>>, "init") EXCEPT !.enabled = FALSE],
    Transformer("deploy", <<>>, "init")>>

Sizes == <<2, 1, 2>>
Items == <<<<"a">>, <<"b">>, <<"c">>>>
\* The grid has the most combinations, so it makes do with runners of one task.
Types == [k \in Kinds |-> IF k = "grid" THEN {<<>>, <<"legacy">>} ELSE {<<>>, <<"lisa">>, <<"lisa", "legacy">>}]
OneType == [k \in Kinds |-> {<<"lisa">>}]
Tasks == [t \in {"lisa", "legacy"} |-> IF t = "lisa" THEN 2 ELSE 1]

\* All runbooks of three transformers in two phases, for the order of their run
SmallNames == {"x", "y", "z"}
Dependencies == {SetToSeq(d) : d \in SUBSET SmallNames} \cup {<<"missing">>}
Small(name) == [name : {name}, depends_on : Dependencies, phase : {"init", "cleanup"}, enabled : {TRUE}]

\* _sort gives an order in which dependencies and phases come first exactly if there is one.
SortIsRight ==
  pc = "start" /\ kind = "none" /\ types = <<>> /\ concurrency = 1 =>
    \A x \in Small("x"), y \in Small("y"), z \in Small("z") :
      LET ts == <<x, y, z>>
          orders == {<<a, b, c>> : a, b, c \in SmallNames}
      IN  IF \E o \in orders : Ordered(ts, o) THEN Ordered(ts, Sort(ts)) ELSE Sort(ts) = Refused
=============================================================================
