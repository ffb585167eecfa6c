---------------------------- MODULE MCRequirements ----------------------------
(* Instances of Requirements for TLC: node spaces that differ from an undemanding
   one in one field. *)
EXTENDS Requirements

Range0(min, max) == InRange(IntRange(min, max))
Below(min, max) == InRange([IntRange(min, max) EXCEPT !.max_inclusive = FALSE])
Most(min, max) == InRange([IntRange(min, max) EXCEPT !.choose_max_value = TRUE])

Undemanding ==
  [f \in CountFields \cup SetFields \cup FeatureFields |->
     CASE f \in {"core_count", "nic_count", "max_nic_count"} -> Range0(1, MaxSize)
       [] f \in CountFields -> AnyNumber
       [] f = "data_path" -> Options({"Sriov", "Synthetic"})
       [] f = "data_disk_type" -> Options({"HDD", "SSD"})
       [] OTHER -> {}]

MostBelow(min, max) ==
  InRange([IntRange(min, max) EXCEPT !.max_inclusive = FALSE, !.choose_max_value = TRUE])

Counts == {Range0(1, 3), MostBelow(1, 3), Range0(2, MaxSize), Below(1, 3), Below(1, 2), Most(2, 4), Most(1, MaxSize),
           Number(1), Number(2), OneOf({IntRange(1, 1), IntRange(3, 4)}),
           OneOf({IntRange(2, 2), IntRange(4, MaxSize)})}
Disks == {Number(0), Number(2), Range0(1, MaxSize), Below(0, 2), Most(0, 2)}
Sizes == {NoSpace, Range0(1, 2), Number(2)}
FeatureSets == {{}, {"Gpu"}, {"Gpu", "Nvme"}}

With(f, values) == {[Undemanding EXCEPT ![f] = v] : v \in values}

Without(part) == [f \in DOMAIN Undemanding |-> IF f \in part THEN NoSpace ELSE Undemanding[f]]

Spaces ==
  With("core_count", Counts) \cup With("data_disk_count", Disks) \cup With("data_disk_size", Sizes)
    \cup With("gpu_count", {Number(0), Number(1), Range0(1, MaxSize)})
    \cup With("max_nic_count", {NoSpace, Number(1)}) \cup With("nic_count", {Range0(2, 3)})
    \cup With("data_path", {Options({"Sriov"}), Options({"Synthetic"})})
    \cup With("data_disk_type", {Options({"SSD"})})
    \cup {Without(DiskPart), Without(NetworkPart)}
    \cup With("features", FeatureSets) \cup With("excluded_features", FeatureSets)

Tests == [nodes : {1, 2}, space : Spaces]

\* _create_platform_requirement fills in the disk and the network interface.
Runbooks == {NoSpace} \cup
  [nodes : {1, 2}, space : {s \in Spaces : Has(s, DiskPart) /\ Has(s, NetworkPart)}]

\* What _create_node_capabilities offers, on hosts of several sizes
Host ==
  [Undemanding EXCEPT !["core_count"] = Range0(1, 3), !["gpu_count"] = Number(0),
                      !["nic_count"] = Number(1), !["max_nic_count"] = Number(1),
                      !["data_disk_size"] = Range0(1, MaxSize), !["features"] = {"Gpu"}]

Hosts ==
  {Host} \cup {[Host EXCEPT !["core_count"] = c] : c \in {Range0(1, 2), Range0(1, MaxSize), Most(1, 4),
                  OneOf({IntRange(1, 2), IntRange(4, MaxSize)}), Number(2)}}
    \cup {[Host EXCEPT !["gpu_count"] = Range0(0, 2)], [Host EXCEPT !["features"] = {"Gpu", "Nvme"}],
          [Host EXCEPT !["nic_count"] = Range0(1, 3), !["max_nic_count"] = Number(3)],
          [Host EXCEPT !["data_path"] = Options({"Synthetic"})],
          [Host EXCEPT !["data_disk_type"] = Options({"HDD"})], [Host EXCEPT !["features"] = {}]}

PathPriority == <<"Sriov", "Synthetic">>
TypePriority == <<"HDD", "SSD">>

\* The instance is one that the theorem about skipped results speaks of.
ASSUME InstanceIsPlain == PlainSpaces
=============================================================================
