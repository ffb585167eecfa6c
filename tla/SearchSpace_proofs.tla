-------------------------- MODULE SearchSpace_proofs --------------------------
(***************************************************************************)
(* What the checks, choices and intersections of count spaces mean, for    *)
(* all ranges of integers and all lists of ranges.                         *)
(***************************************************************************)
EXTENDS SearchSpace, TLAPS

CountSpaces ==
  {NoSpace} \cup {Number(n) : n \in Int} \cup {InRange(r) : r \in IntRanges}
    \cup {OneOf(rs) : rs \in SUBSET IntRanges}

\* A range holds a number at least: its first.
LEMMA FirstOfRange ==
  ASSUME NEW r \in IntRanges
  PROVE  /\ r.min \in Int /\ r.max \in Int /\ r.max_inclusive \in BOOLEAN
         /\ Last(r) \in Int /\ r.min <= Last(r)
BY DEF IntRanges, RangeRecords, Last

\* IntRange.check of a number says that the number is in the range.
LEMMA NumberInRange ==
  ASSUME NEW r \in IntRanges, NEW n \in Int
  PROVE  NumberCheck(r, n) <=> InRangeOf(n, r)
BY FirstOfRange DEF NumberCheck, InRangeOf, Last

\* IntRange.check compares the ends, inclusive or not, in such a way that it says yes
\* exactly when a number is in both ranges.
THEOREM RangesOverlap ==
  ASSUME NEW req \in IntRanges, NEW cap \in IntRanges
  PROVE  RangeCheck(req, cap) <=> \E n \in Int : InRangeOf(n, req) /\ InRangeOf(n, cap)
<1>1. /\ req.min \in Int /\ req.max \in Int /\ req.max_inclusive \in BOOLEAN
      /\ cap.min \in Int /\ cap.max \in Int /\ cap.max_inclusive \in BOOLEAN
      /\ req.min <= Last(req) /\ cap.min <= Last(cap)
  BY FirstOfRange
<1>2. RangeCheck(req, cap) <=> cap.min <= Last(req) /\ req.min <= Last(cap)
  BY <1>1 DEF RangeCheck, Last
<1>3. ASSUME cap.min <= Last(req), req.min <= Last(cap)
      PROVE  \E n \in Int : InRangeOf(n, req) /\ InRangeOf(n, cap)
  <2>1. CASE req.min <= cap.min
    BY <2>1, <1>1, <1>3 DEF InRangeOf
  <2>2. CASE ~(req.min <= cap.min)
    BY <2>2, <1>1, <1>3 DEF InRangeOf
  <2> QED
    BY <2>1, <2>2
<1>4. ASSUME NEW n \in Int, InRangeOf(n, req), InRangeOf(n, cap)
      PROVE  cap.min <= Last(req) /\ req.min <= Last(cap)
  BY <1>1, <1>4, FirstOfRange DEF InRangeOf
<1> QED
  BY <1>2, <1>3, <1>4

\* The same for IntRange.check of any capability that is not None.
LEMMA RangeMeetsSpace ==
  ASSUME NEW req \in IntRanges, NEW cap \in CountSpaces, cap.kind # "none"
  PROVE  IntRangeCheck(req, cap) <=> \E n \in Int : InRangeOf(n, req) /\ Allows(cap, n)
<1>1. CASE \E m \in Int : cap = Number(m)
  <2>1. PICK m \in Int : cap = Number(m)
    BY <1>1
  <2>2. /\ IntRangeCheck(req, cap) <=> NumberCheck(req, m)
        /\ \A n \in Int : Allows(cap, n) <=> n = m
    BY <2>1 DEF IntRangeCheck, Allows, Number
  <2> QED
    BY <2>2, NumberInRange
<1>2. CASE \E r \in IntRanges : cap = InRange(r)
  <2>1. PICK r \in IntRanges : cap = InRange(r)
    BY <1>2
  <2>2. /\ IntRangeCheck(req, cap) <=> RangeCheck(req, r)
        /\ \A n \in Int : Allows(cap, n) <=> InRangeOf(n, r)
    BY <2>1 DEF IntRangeCheck, Allows, InRange
  <2> QED
    BY <2>2, RangesOverlap
<1>3. CASE \E rs \in SUBSET IntRanges : cap = OneOf(rs)
  <2>1. PICK rs \in SUBSET IntRanges : cap = OneOf(rs)
    BY <1>3
  <2>2. /\ IntRangeCheck(req, cap) <=> \E r \in rs : RangeCheck(req, r)
        /\ \A n \in Int : Allows(cap, n) <=> \E r \in rs : InRangeOf(n, r)
    BY <2>1 DEF IntRangeCheck, Allows, OneOf
  <2>3. \A r \in rs : RangeCheck(req, r) <=> \E n \in Int : InRangeOf(n, req) /\ InRangeOf(n, r)
    BY RangesOverlap
  <2> QED
    BY <2>2, <2>3
<1> QED
  BY <1>1, <1>2, <1>3 DEF CountSpaces, NoSpace

\* check_countspace of a capability that is not None
LEMMA CheckOfSpace ==
  ASSUME NEW req \in CountSpaces, NEW cap \in CountSpaces, cap.kind # "none"
  PROVE  CheckCountspace(req, cap) <=>
           req.kind = "none" \/ \E n \in Int : Allows(req, n) /\ Allows(cap, n)
<1>1. CASE req = NoSpace
  BY <1>1 DEF CheckCountspace, NoSpace
<1>2. CASE \E m \in Int : req = Number(m)
  <2>1. PICK m \in Int : req = Number(m)
    BY <1>2
  <2>2. req.kind = "int" /\ req.value = m /\ \A n \in Int : Allows(req, n) <=> n = m
    BY <2>1 DEF Number, Allows
  <2>3. IntRange(m, m) \in IntRanges /\ \A n \in Int : InRangeOf(n, IntRange(m, m)) <=> n = m
    BY DEF IntRange, IntRanges, RangeRecords, InRangeOf, Last
  <2>4. CASE \E k \in Int : cap = Number(k)
    BY <2>2, <2>4 DEF CheckCountspace, Number, Allows
  <2>5. CASE \E r \in IntRanges : cap = InRange(r)
    <3>1. PICK r \in IntRanges : cap = InRange(r)
      BY <2>5
    <3>2. /\ CheckCountspace(req, cap) <=> NumberCheck(r, m)
          /\ \A n \in Int : Allows(cap, n) <=> InRangeOf(n, r)
      BY <3>1, <2>2 DEF CheckCountspace, InRange, Allows
    <3> QED
      BY <3>2, <2>2, NumberInRange
  <2>6. CASE \E rs \in SUBSET IntRanges : cap = OneOf(rs)
    <3>1. PICK rs \in SUBSET IntRanges : cap = OneOf(rs)
      BY <2>6
    <3>2. /\ CheckCountspace(req, cap) <=> \E r \in rs : RangeCheck(IntRange(m, m), r)
          /\ \A n \in Int : Allows(cap, n) <=> \E r \in rs : InRangeOf(n, r)
      BY <3>1, <2>2 DEF CheckCountspace, OneOf, Allows
    <3>3. \A r \in rs : RangeCheck(IntRange(m, m), r) <=> InRangeOf(m, r)
      BY <2>3, RangesOverlap
    <3> QED
      BY <3>2, <3>3, <2>2
  <2> QED
    BY <2>4, <2>5, <2>6 DEF CountSpaces, NoSpace
<1>3. CASE \E r \in IntRanges : req = InRange(r)
  <2>1. PICK r \in IntRanges : req = InRange(r)
    BY <1>3
  <2>2. /\ CheckCountspace(req, cap) <=> IntRangeCheck(r, cap)
        /\ req.kind # "none"
        /\ \A n \in Int : Allows(req, n) <=> InRangeOf(n, r)
    BY <2>1 DEF CheckCountspace, InRange, Allows
  <2> QED
    BY <2>2, RangeMeetsSpace
<1>4. CASE \E rs \in SUBSET IntRanges : req = OneOf(rs)
  <2>1. PICK rs \in SUBSET IntRanges : req = OneOf(rs)
    BY <1>4
  <2>2. /\ CheckCountspace(req, cap) <=> \E r \in rs : IntRangeCheck(r, cap)
        /\ req.kind # "none"
        /\ \A n \in Int : Allows(req, n) <=> \E r \in rs : InRangeOf(n, r)
    BY <2>1 DEF CheckCountspace, OneOf, Allows
  <2>3. \A r \in rs : IntRangeCheck(r, cap) <=> \E n \in Int : InRangeOf(n, r) /\ Allows(cap, n)
    BY RangeMeetsSpace
  <2> QED
    BY <2>2, <2>3
<1> QED
  BY <1>1, <1>2, <1>3, <1>4 DEF CountSpaces

\* check_countspace says yes exactly when some number is allowed by the requirement and
\* by the capability; None as a requirement asks for nothing, None as a capability has
\* nothing to offer.
THEOREM CheckMeansOverlap ==
  ASSUME NEW req \in CountSpaces, NEW cap \in CountSpaces
  PROVE  CheckCountspace(req, cap) <=>
           \/ req.kind = "none"
           \/ cap.kind # "none" /\ \E n \in Int : Allows(req, n) /\ Allows(cap, n)
<1>1. CASE cap.kind # "none"
  BY <1>1, CheckOfSpace
<1>2. CASE cap.kind = "none"
  BY <1>2 DEF CheckCountspace, IntRangeCheck
<1> QED
  BY <1>1, <1>2

\* IntRange.choose_value of two ranges that pass the check gives a number in both, the
\* largest if either side asks for it and else the smallest.
THEOREM ChoiceIsBest ==
  ASSUME NEW req \in IntRanges, NEW cap \in IntRanges, RangeCheck(req, cap)
  PROVE  LET n == RangeChoose(req, cap)
         IN  /\ InRangeOf(n, req) /\ InRangeOf(n, cap)
             /\ \A m \in Int : InRangeOf(m, req) /\ InRangeOf(m, cap) =>
                  IF req.choose_max_value \/ cap.choose_max_value THEN m <= n ELSE n <= m
<1>1. /\ req.min \in Int /\ Last(req) \in Int /\ cap.min \in Int /\ Last(cap) \in Int
      /\ req.min <= Last(req) /\ cap.min <= Last(cap)
  BY FirstOfRange
<1>2. PICK k \in Int : InRangeOf(k, req) /\ InRangeOf(k, cap)
  BY RangesOverlap
<1>3. cap.min <= Last(req) /\ req.min <= Last(cap)
  BY <1>1, <1>2 DEF InRangeOf
<1>4. CASE req.choose_max_value \/ cap.choose_max_value
  BY <1>1, <1>3, <1>4 DEF RangeChoose, InRangeOf, Smaller
<1>5. CASE ~(req.choose_max_value \/ cap.choose_max_value)
  BY <1>1, <1>3, <1>5 DEF RangeChoose, InRangeOf, Larger
<1> QED
  BY <1>4, <1>5

\* IntRange.intersect of two ranges that pass the check is a range again, and holds the
\* numbers that are in both and no other.
THEOREM IntersectionIsExact ==
  ASSUME NEW req \in IntRanges, NEW cap \in IntRanges, RangeCheck(req, cap)
  PROVE  /\ RangeIntersect(req, cap) \in IntRanges
         /\ \A n \in Int : InRangeOf(n, RangeIntersect(req, cap)) <=> InRangeOf(n, req) /\ InRangeOf(n, cap)
<1> DEFINE both == RangeIntersect(req, cap)
<1>1. /\ req.min \in Int /\ req.max \in Int /\ req.max_inclusive \in BOOLEAN /\ req.choose_max_value \in BOOLEAN
      /\ cap.min \in Int /\ cap.max \in Int /\ cap.max_inclusive \in BOOLEAN /\ cap.choose_max_value \in BOOLEAN
  BY DEF IntRanges, RangeRecords
<1>2. /\ both.min = Larger(req.min, cap.min)
      /\ both.max = Smaller(req.max, cap.max)
      /\ both.max_inclusive \in BOOLEAN /\ both.choose_max_value \in BOOLEAN
      /\ Last(both) = Smaller(Last(req), Last(cap))
  BY <1>1 DEF RangeIntersect, Larger, Smaller, Last
<1>3. both \in RangeRecords
  BY <1>1 DEF RangeIntersect, RangeRecords
<1>4. PICK k \in Int : InRangeOf(k, req) /\ InRangeOf(k, cap)
  BY RangesOverlap
<1>5. \A n \in Int : InRangeOf(n, both) <=> InRangeOf(n, req) /\ InRangeOf(n, cap)
  BY <1>1, <1>2, FirstOfRange DEF InRangeOf, Larger, Smaller
<1>6. both.min <= Last(both)
  BY <1>4, <1>5, <1>1, <1>2, FirstOfRange DEF InRangeOf, Larger, Smaller
<1>7. both.min < both.max \/ (both.min = both.max /\ both.max_inclusive)
  BY <1>1, <1>2, <1>6 DEF Last, Larger, Smaller
<1> QED
  BY <1>3, <1>5, <1>7 DEF IntRanges
=============================================================================
