------------------------------ MODULE Requirements ------------------------------
(***************************************************************************)
(* How the requirement of a test case becomes the environment it runs on:  *)
(* LisaRunner merges it with the requirement of the runbook's platform,    *)
(* the platform chooses values within its capability, nodes are created    *)
(* from the choice, and the scheduler checks test cases against them.      *)
(*                                                                         *)
(* Test requirements are made of one NodeSpace (_create_test_case_         *)
(* requirement), so an environment is a number of nodes and the NodeSpace  *)
(* they all are copies of.  The fields of a NodeSpace that are treated     *)
(* alike have one representative: core_count stands for memory_mb too, and *)
(* data_disk_count and data_disk_size for the other checked and unchecked  *)
(* numbers of a disk.  A NodeSpace that has no disk or no network          *)
(* interface has NoSpace in all of their fields.                           *)
(***************************************************************************)
EXTENDS SearchSpace

CONSTANTS
  TestRequirements,      \* [nodes, space] of test cases
  PlatformRequirements,  \* platform.runbook.requirement, [nodes, space] or NoSpace
  Capabilities,          \* NodeSpaces of _create_node_capabilities
  DataPathPriority, DiskTypePriority   \* the priority lists of schema.py

CountFields == {"core_count", "gpu_count", "nic_count", "max_nic_count", "data_disk_count",
                "data_disk_size"}
SetFields == {"data_path", "data_disk_type"}
FeatureFields == {"features", "excluded_features"}

\* The fields of NodeSpace itself, of its disk and of its network interface
NodePart == {"core_count", "gpu_count"}
DiskPart == {"data_disk_type", "data_disk_count", "data_disk_size"}
NetworkPart == {"max_nic_count", "nic_count", "data_path"}
PartOf(f) == CHOOSE p \in {NodePart, DiskPart, NetworkPart} : f \in p

\* DiskOptionSettings.check leaves out data_disk_size and data_disk_type.
Unchecked == {"data_disk_size", "data_disk_type"}

VARIABLES
  stage,     \* how far the environment of the test case is
  test,      \* the requirement of the test case
  platform,  \* the requirement of the platform
  capability, \* what a node of the platform can have
  environment, \* the requirement, then the capability, of the environment
  chosen     \* runbook.nodes_requirement after the platform prepared it

vars == <<stage, test, platform, capability, environment, chosen>>

-----------------------------------------------------------------------------
(* NodeSpace *)

\* The NodeSpace has the part: its disk, or its network interface, is not None.
Has(space, part) == \E f \in part : space[f] # NoSpace

FieldCheck(f, req, cap) ==
  \/ f \in Unchecked
  \/ f \in CountFields /\ CheckCountspace(req[f], cap[f])
  \/ f \in SetFields /\ CheckSetspace(req[f], cap[f])

\* NodeSpace.check, with DiskOptionSettings.check and NetworkInterfaceOptionSettings.check
NodeCheck(req, cap) ==
  /\ ~Falsy(cap["core_count"])
  /\ \A part \in {NodePart, DiskPart, NetworkPart} :
       Has(req, part) => Has(cap, part) /\ \A f \in part : FieldCheck(f, req, cap)
  /\ req["features"] \subseteq cap["features"]
  /\ req["excluded_features"] \cap cap["features"] = {}

Priority(f) == IF f = "data_path" THEN DataPathPriority ELSE DiskTypePriority

\* The fields of a new DiskOptionSettings
AnyNumber == InRange(IntRange(0, MaxSize))

\* "if self.data_disk_count or capability.data_disk_count": a field that neither sets
\* keeps the default of the new value; some may not be zero.
Unset(f) == CASE f = "gpu_count" -> Number(0)
              [] f \in {"data_disk_count", "data_disk_size"} -> AnyNumber
              [] OTHER -> Error

\* search_space.choose_value and intersect take the capability for a part that the
\* requirement does not have.
Wanted(f, req, cap) == IF Has(req, PartOf(f)) THEN req[f] ELSE cap[f]

CountField(method, f, req, cap) ==
  IF Falsy(req) /\ Falsy(cap) /\ f # "max_nic_count" THEN Unset(f)
  ELSE IF method = "choose_value" THEN ChooseValueCountspace(req, cap)
  ELSE IntersectCountspace(req, cap)

SetField(method, f, req, cap) ==
  IF method = "choose_value" THEN ChooseValueSetspace(req, cap, Priority(f))
  ELSE IntersectSetspace(req, cap)

PartField(method, f, req, cap) ==
  IF ~Has(req, PartOf(f)) /\ ~Has(cap, PartOf(f)) THEN NoSpace
  ELSE IF f \in CountFields THEN CountField(method, f, Wanted(f, req, cap), cap[f])
  ELSE SetField(method, f, Wanted(f, req, cap), cap[f])

\* "The requirement features are ignored, if cap doesn't have it"; an intersection
\* "just take[s] the results from capability".
FeatureField(method, f, req, cap) ==
  IF method = "intersect" \/ cap[f] # {} THEN cap[f] ELSE req[f]

Field(method, f, req, cap) ==
  IF f \in FeatureFields THEN FeatureField(method, f, req, cap) ELSE PartField(method, f, req, cap)

\* The order of _call_requirement_method; the first exception is the one raised.
FieldOrder == <<"core_count", "data_disk_type", "data_disk_count", "data_disk_size",
                "max_nic_count", "nic_count", "data_path", "gpu_count">>

\* NodeSpace.choose_value and NodeSpace.intersect: a NodeSpace, or the exception.
NodeMethod(method, req, cap) ==
  LET value  == [f \in DOMAIN req |-> Field(method, f, req, cap)]
      raised == {i \in DOMAIN FieldOrder : value[FieldOrder[i]] \in {NotMeet, Error}}
  IN  IF ~NodeCheck(req, cap) THEN NotMeet
      ELSE IF raised # {} THEN value[FieldOrder[Min(raised)]]
      ELSE value

\* EnvironmentSpace.check: node by node, each against the one of the same index.
EnvironmentCheck(req, cap) == req.nodes <= cap.nodes /\ NodeCheck(req.space, cap.space)

-----------------------------------------------------------------------------
(* What the runbook, the test cases and the platforms may ask for and offer *)

\* Counts are not negative, and a list of ranges is not empty.
LegalRange(r) == r \in IntRanges /\ 0 <= r.min /\ r.max <= MaxSize

LegalCount(s) ==
  \/ s = NoSpace
  \/ s.kind = "int" /\ s = Number(s.value) /\ s.value \in 0..MaxSize
  \/ s.kind = "range" /\ s = InRange(s.range) /\ LegalRange(s.range)
  \/ s.kind = "list" /\ s = OneOf(s.items) /\ s.items # {} /\ \A r \in s.items : LegalRange(r)

\* The priority list of a set names all its options.
LegalOptions(s, priority) ==
  \/ s = NoSpace
  \/ /\ s.kind = "set" /\ s = Options(s.items) /\ s.items # {}
     /\ s.items \subseteq {priority[i] : i \in DOMAIN priority}

LegalSpace(s) ==
  /\ s = [f \in CountFields \cup SetFields \cup FeatureFields |-> s[f]]
  /\ \A f \in CountFields : LegalCount(s[f])
  /\ \A f \in SetFields : LegalOptions(s[f], Priority(f))

LegalRequirement(r) == r = [nodes |-> r.nodes, space |-> r.space] /\ r.nodes \in Nat /\ LegalSpace(r.space)

ASSUME PriorityAssumption ==
  \A f \in SetFields : \A i \in DOMAIN Priority(f) : i \in Nat \ {0} /\ 1..i \subseteq DOMAIN Priority(f)

\* No test case contradicts itself: it could run on what it asks for.
ASSUME RequirementAssumption ==
  /\ \A t \in TestRequirements : LegalRequirement(t) /\ NodeCheck(t.space, t.space)
  /\ \A p \in PlatformRequirements : p = NoSpace \/ LegalRequirement(p)

\* _create_node_capabilities sets every field: a core at least, and any number of disks.
ASSUME CapabilityAssumption ==
  \A c \in Capabilities :
    /\ LegalSpace(c) /\ \A f \in CountFields \cup SetFields : c[f] # NoSpace
    /\ ~Allows(c["core_count"], 0) /\ c["data_disk_count"] = AnyNumber /\ ~Falsy(c["data_disk_size"])
    /\ c["excluded_features"] \cap c["features"] = {}

\* A range of the space asks for the largest number.
ChoosesMax(s) ==
  \/ s.kind = "range" /\ s.range.choose_max_value
  \/ s.kind = "list" /\ \E r \in s.items : r.choose_max_value

\* No range of a list starts at sys.maxsize.
OpenLists(s) == s.kind = "list" => \A r \in s.items : r.min < MaxSize

\* What the requirements and capabilities of the repository's platforms are like: no list
\* has a range that starts at sys.maxsize; a runbook's requirement has disk types and data
\* paths, which _create_platform_requirement fills in; a node may have no GPU, and the size
\* of its disks does not ask for the largest (_create_node_capabilities).
PlainSpaces ==
  /\ \A t \in TestRequirements : \A f \in CountFields : OpenLists(t.space[f])
  /\ \A p \in PlatformRequirements : p # NoSpace =>
       /\ \A f \in CountFields : OpenLists(p.space[f])
       /\ \A f \in SetFields : p.space[f] # NoSpace
  /\ \A c \in Capabilities :
       /\ \A f \in CountFields : OpenLists(c[f])
       /\ Allows(c["gpu_count"], 0) /\ ~ChoosesMax(c["data_disk_size"])

-----------------------------------------------------------------------------
Init ==
  /\ stage = "selected"
  /\ test \in TestRequirements
  /\ platform \in PlatformRequirements
  /\ capability \in Capabilities
  /\ environment = test
  /\ chosen = test

\* A requirement that is not met skips the result; any other exception fails it, or ends
\* the run if it is raised before the result has an environment.
Refused(outcome) ==
  stage' = IF outcome = NotMeet THEN "skipped" ELSE IF stage = "selected" THEN "aborted" ELSE "failed"

JoinTestForgotten(space) == space

\* "Manage the union of the platform requirements and the node requirements"
JoinTest(space) ==
  [space EXCEPT !["features"] = @ \cup test.space["features"],
                !["excluded_features"] = @ \cup test.space["excluded_features"]]

\* LisaRunner._merge_test_requirements
MergeTestRequirements ==
  /\ stage = "selected"
  /\ IF platform = NoSpace
       THEN stage' = "merged" /\ UNCHANGED environment
       ELSE LET merged == NodeMethod("intersect", test.space, JoinTest(platform.space))
            IN  IF merged \in {NotMeet, Error}
                  THEN Refused(merged) /\ UNCHANGED environment
                  ELSE /\ stage' = "merged"
                       /\ environment' = [nodes |-> Larger(test.nodes, platform.nodes),
                                          space |-> merged]
  /\ UNCHANGED <<test, platform, capability, chosen>>

\* _prepare_environment of libvirt, Hyper-V and bare metal: "if not node_space.check(...)"
\* tests an object that is always true, so choose_value is what refuses.
PrepareEnvironment ==
  /\ stage = "merged"
  /\ LET choice == NodeMethod("choose_value", environment.space, capability)
     IN  IF choice \in {NotMeet, Error}
           THEN Refused(choice) /\ UNCHANGED <<environment, chosen>>
           ELSE /\ stage' = "prepared"
                /\ environment' = [environment EXCEPT !.space = choice]
                /\ chosen' = [environment EXCEPT !.space = choice]
  /\ UNCHANGED <<test, platform, capability>>

\* Environment.create_node_from_requirement chooses once more, within the choice.
CreateNodes ==
  /\ stage = "prepared"
  /\ LET node == NodeMethod("choose_value", chosen.space, chosen.space)
     IN  IF node \in {NotMeet, Error}
           THEN Refused(node) /\ UNCHANGED environment
           ELSE stage' = "deployed" /\ environment' = [environment EXCEPT !.space = node]
  /\ UNCHANGED <<test, platform, capability, chosen>>

Done == stage \in {"deployed", "skipped", "failed", "aborted"} /\ UNCHANGED vars

Next == MergeTestRequirements \/ PrepareEnvironment \/ CreateNodes \/ Done

Spec == Init /\ [][Next]_vars
-----------------------------------------------------------------------------
(* Properties. *)

\* The numbers that the spaces of an instance tell apart
Numbers == 0..MaxSize

\* check_countspace says yes exactly when some number is allowed by the requirement and
\* by the capability (None as a capability allows nothing).
CheckIsOverlap ==
  \A f \in CountFields :
    LET req == test.space[f]
        cap == IF platform = NoSpace THEN capability[f] ELSE platform.space[f]
    IN  CheckCountspace(req, cap) =
          (req = NoSpace \/ (cap # NoSpace /\ \E n \in Numbers : Allows(req, n) /\ Allows(cap, n)))

\* choose_value_countspace takes the smallest number both sides allow, or the largest if
\* the requirement is one range that asks for the largest.
ChosenIsBest ==
  stage = "prepared" /\ platform = NoSpace =>
    \A f \in CountFields :
      LET req == test.space[f]
          cap == capability[f]
          both == {n \in Numbers : Allows(req, n) /\ Allows(cap, n)}
          n == chosen.space[f].value
      IN  /\ ~ChoosesMax(req) /\ ~ChoosesMax(cap) /\ cap # NoSpace => n = Min(both)
          /\ ChoosesMax(req) /\ req.kind = "range" => n = Max(both)

\* An environment made for a test case can run it, however far it is: the test case
\* passes the check of the scheduler against the merged requirement, the choice of the
\* platform and the nodes.  Otherwise it would be skipped on its own environment.
EnvironmentServesItsTest ==
  stage \in {"merged", "prepared", "deployed"} => EnvironmentCheck(test, environment)

\* What the platform chose is one number for each count, within its capability and the
\* runbook's requirement.
ChoiceMeetsPlatform ==
  stage \in {"prepared", "deployed"} =>
    /\ \A f \in CountFields : chosen.space[f].kind = "int"
    /\ NodeCheck(chosen.space, capability)
    /\ platform # NoSpace => NodeCheck(platform.space, chosen.space)

\* The numbers of a field that the test case, the runbook and the capability all allow;
\* a runbook that does not set what the test case asks for allows none.
Common(f) ==
  {n \in Numbers : /\ Allows(test.space[f], n)
                   /\ platform # NoSpace =>
                        /\ platform.space[f] = NoSpace => test.space[f] = NoSpace
                        /\ Allows(platform.space[f], n)
                   /\ Allows(capability[f], n)}

AsksForMost(f) ==
  ChoosesMax(test.space[f]) \/ ChoosesMax(capability[f]) \/ (platform # NoSpace /\ ChoosesMax(platform.space[f]))

\* No node could meet the requirements: for some count they have no number in common that
\* can be chosen (sys.maxsize stands for no bound), for some set no option, or a feature
\* is missing or excluded.
Unmet ==
  LET platformOptions(f) == IF platform = NoSpace THEN NoSpace ELSE platform.space[f]
      features == test.space["features"] \cup (IF platform = NoSpace THEN {} ELSE platform.space["features"])
      excluded == test.space["excluded_features"]
                    \cup (IF platform = NoSpace THEN {} ELSE platform.space["excluded_features"])
  IN  \/ \E f \in CountFields : Common(f) \subseteq {MaxSize} \/ (MaxSize \in Common(f) /\ AsksForMost(f))
      \/ \E f \in SetFields : InBoth(test.space[f], Options(InBoth(platformOptions(f), capability[f]))) = {}
      \/ ~(features \subseteq capability["features"])
      \/ excluded \cap (features \cup capability["features"]) # {}

\* A result is skipped for its requirement only if no node could meet what its test case
\* and the runbook ask for.
SkippedOnlyIfUnmet == stage = "skipped" => Unmet

\* A node offers what was chosen for it and nothing more: a test case that passes the
\* check against the node also passes it against the choice it was deployed from.
NodeOffersWhatWasChosen ==
  stage = "deployed" =>
    \A t \in TestRequirements : NodeCheck(t.space, environment.space) => NodeCheck(t.space, chosen.space)
=============================================================================
