------------------------------ MODULE SearchSpace ------------------------------
(***************************************************************************)
(* The search space of LISA: how a requirement is checked against a        *)
(* capability, how one value that satisfies both is chosen, and how the    *)
(* two are intersected.                                                    *)
(*                                                                         *)
(* A count space is None, a number, an IntRange or a list of IntRanges;    *)
(* the order of a list never matters, so it is a set here.  A set space is *)
(* None or a set of options.                                               *)
(*                                                                         *)
(* An exception is a value: NotMeet for NotMeetRequirementException, Error *)
(* for any other.                                                          *)
(*                                                                         *)
(* A definition named for a slip (RangeCheckEndIgnored, ...) is a wrong    *)
(* version of the one after it and is not part of the specification.       *)
(***************************************************************************)
EXTENDS Integers, FiniteSetsExt

CONSTANT MaxSize   \* sys.maxsize: no upper bound

ASSUME MaxSizeAssumption == MaxSize \in Nat

NotMeet == [kind |-> "not_meet"]
Error   == [kind |-> "error"]

NoSpace   == [kind |-> "none"]
Number(n) == [kind |-> "int", value |-> n]
InRange(r) == [kind |-> "range", range |-> r]
OneOf(rs)  == [kind |-> "list", items |-> rs]

-----------------------------------------------------------------------------
(* IntRange *)

RangeRecords == [min : Int, max : Int, max_inclusive : BOOLEAN, choose_max_value : BOOLEAN]

\* IntRange.__post_init__ refuses an empty range.
IntRanges == {r \in RangeRecords : r.min < r.max \/ (r.min = r.max /\ r.max_inclusive)}

\* The last number of a range.
Last(r) == IF r.max_inclusive THEN r.max ELSE r.max - 1

IntRange(min, max) == [min |-> min, max |-> max, max_inclusive |-> TRUE, choose_max_value |-> FALSE]

RangeCheckEndIgnored(req, cap) == cap.max >= req.min /\ cap.min <= req.max

\* IntRange.check, for a capability that is an IntRange
RangeCheck(req, cap) ==
  /\ ~(cap.max < req.min)
  /\ ~(cap.max = req.min /\ ~cap.max_inclusive)
  /\ ~(cap.min > req.max)
  /\ ~(cap.min = req.max /\ ~req.max_inclusive)

\* IntRange.check, for a capability that is a number
NumberCheck(req, n) ==
  /\ ~(n < req.min)
  /\ ~(n > req.max)
  /\ ~(n = req.max /\ ~req.max_inclusive)

\* IntRange.check
IntRangeCheck(req, cap) ==
  \/ cap.kind = "int" /\ NumberCheck(req, cap.value)
  \/ cap.kind = "range" /\ RangeCheck(req, cap.range)
  \/ cap.kind = "list" /\ \E c \in cap.items : RangeCheck(req, c)

Smaller(a, b) == IF a <= b THEN a ELSE b
Larger(a, b)  == IF a <= b THEN b ELSE a

RangeChooseEndIncluded(req, cap) ==
  IF req.choose_max_value \/ cap.choose_max_value
    THEN Smaller(req.max, cap.max) ELSE Larger(req.min, cap.min)

\* IntRange._choose_value, for a capability that is an IntRange
RangeChoose(req, cap) ==
  IF req.choose_max_value \/ cap.choose_max_value
    THEN Smaller(Last(req), Last(cap)) ELSE Larger(req.min, cap.min)

\* "cannot choose value, max value is unbounded"
Bounded(n) == IF n = MaxSize THEN NotMeet ELSE Number(n)

\* The loop over a list, once every item has given a number.
BestOf(ns, start, choose_max) == IF choose_max THEN Max(ns \cup {start}) ELSE Min(ns \cup {start})

ItemsChoose(req, items) ==
  LET chosen     == {RangeChoose(req, c) : c \in {x \in items : RangeCheck(req, x)}}
      choose_max == req.choose_max_value \/ \E c \in items : c.choose_max_value
  IN  IF MaxSize \in chosen THEN NotMeet
      ELSE Bounded(BestOf(chosen, IF choose_max THEN req.min ELSE req.max, choose_max))

\* IntRange.choose_value
IntRangeChoose(req, cap) ==
  IF ~IntRangeCheck(req, cap) THEN NotMeet
  ELSE CASE cap.kind = "int"   -> Bounded(cap.value)
         [] cap.kind = "range" -> Bounded(RangeChoose(req, cap.range))
         [] cap.kind = "list"  -> ItemsChoose(req, cap.items)

RangeIntersectWiderEnd(req, cap) ==
  [min |-> Larger(req.min, cap.min), max |-> Smaller(req.max, cap.max),
   max_inclusive |-> req.max_inclusive,
   choose_max_value |-> req.choose_max_value \/ cap.choose_max_value]

\* IntRange._intersect, for a capability that is an IntRange
RangeIntersect(req, cap) ==
  [min |-> IF req.min < cap.min THEN cap.min ELSE req.min,
   max |-> IF req.max > cap.max THEN cap.max ELSE req.max,
   max_inclusive |-> CASE req.max > cap.max -> cap.max_inclusive
                       [] req.max = cap.max -> cap.max_inclusive /\ req.max_inclusive
                       [] OTHER -> req.max_inclusive,
   choose_max_value |-> req.choose_max_value \/ cap.choose_max_value]

\* IntRange.intersect; it "doesn't support other intersect".
IntRangeIntersect(req, cap) ==
  IF ~IntRangeCheck(req, cap) THEN NotMeet
  ELSE CASE cap.kind = "int"   -> cap
         [] cap.kind = "range" -> InRange(RangeIntersect(req, cap.range))
         [] OTHER -> Error

-----------------------------------------------------------------------------
(* Count spaces *)

\* What Python takes for false: None, zero and an empty list
Falsy(s) == s = NoSpace \/ s = Number(0) \/ s = OneOf({})

\* check_countspace
CheckCountspace(req, cap) ==
  \/ req.kind = "none"
  \/ /\ req.kind = "int"
     /\ \/ cap.kind = "int" /\ req.value = cap.value
        \/ cap.kind = "range" /\ NumberCheck(cap.range, req.value)
        \/ cap.kind = "list" /\ \E c \in cap.items : RangeCheck(IntRange(req.value, req.value), c)
  \/ req.kind = "range" /\ IntRangeCheck(req.range, cap)
  \/ req.kind = "list" /\ \E r \in req.items : IntRangeCheck(r, cap)

\* choose_value_countspace, for a requirement that is a list
ListChoose(items, cap) ==
  LET chosen     == {IntRangeChoose(r, cap) : r \in {x \in items : IntRangeCheck(x, cap)}}
      choose_max == \E r \in items : r.choose_max_value
  IN  IF NotMeet \in chosen THEN NotMeet
      ELSE Number(BestOf({c.value : c \in chosen}, IF choose_max THEN 0 ELSE MaxSize, choose_max))

\* choose_value_countspace
ChooseValueCountspace(req, cap) ==
  LET wanted == IF req.kind = "none" THEN cap ELSE req
  IN  IF ~CheckCountspace(req, cap) THEN NotMeet
      ELSE IF req.kind = "none" /\ Falsy(cap) THEN Number(0)
      ELSE CASE wanted.kind = "int" -> wanted
             [] wanted.kind = "range" -> IntRangeChoose(wanted.range, cap)
             [] wanted.kind = "list" -> ListChoose(wanted.items, cap)

\* intersect_countspace
IntersectCountspace(req, cap) ==
  IF ~CheckCountspace(req, cap) THEN NotMeet
  ELSE CASE req.kind = "none" /\ ~Falsy(cap) -> cap
         [] req.kind = "int" -> req
         [] req.kind = "range" -> IntRangeIntersect(req.range, cap)
         [] OTHER -> Error

-----------------------------------------------------------------------------
(* Set spaces.  One option stands for the set of it. *)

Options(os) == [kind |-> "set", items |-> os]

\* check_setspace
CheckSetspace(req, cap) ==
  /\ cap.kind # "none"
  /\ req.kind = "none" \/ req.items \cap cap.items # {}

\* The first of priority_list that is in both sets
FirstByPriority(options, priority) ==
  priority[CHOOSE i \in DOMAIN priority :
             priority[i] \in options /\ \A j \in 1..(i - 1) : priority[j] \notin options]

InBoth(req, cap) == IF req.kind = "none" THEN cap.items ELSE req.items \cap cap.items

\* choose_value_setspace_by_priority
ChooseValueSetspace(req, cap, priority) ==
  IF CheckSetspace(req, cap)
    THEN Options({FirstByPriority(InBoth(req, cap), priority)})
    ELSE NotMeet

\* intersect_setspace_by_priority
IntersectSetspace(req, cap) ==
  IF CheckSetspace(req, cap) THEN Options(InBoth(req, cap)) ELSE NotMeet

-----------------------------------------------------------------------------
(* What the spaces stand for, as sets of numbers. *)

InRangeOf(n, r) == r.min <= n /\ n <= Last(r)

\* n is one of the numbers of a count space; None as a requirement allows any.
Allows(s, n) ==
  \/ s.kind = "none"
  \/ s.kind = "int" /\ n = s.value
  \/ s.kind = "range" /\ InRangeOf(n, s.range)
  \/ s.kind = "list" /\ \E r \in s.items : InRangeOf(n, r)
=============================================================================
