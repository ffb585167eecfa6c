--------------------------- MODULE Requirements_proofs ---------------------------
(***************************************************************************)
(* Theorems about Requirements, for all requirements of test cases and of  *)
(* the runbook and all capabilities.  What a choice from lists of ranges   *)
(* gives is the least or the largest of a set of numbers; that there is    *)
(* one comes from the well-foundedness of the numbers.                     *)
(***************************************************************************)
EXTENDS Requirements, SearchSpace_proofs, WellFoundedInduction

-----------------------------------------------------------------------------
(* The least and the largest of a set of numbers *)

\* A set of natural numbers has a least one.
LEMMA LeastNatural ==
  ASSUME NEW T \in SUBSET Nat, T # {}
  PROVE  \E x \in T : \A y \in T : x <= y
<1> DEFINE R == {ss \in Nat \X Nat : ss[1] < ss[2]}
<1>1. IsWellFoundedOn(R, Nat)
  BY NatLessThanWellFounded, Zenon DEF OpToRel
<1>2. PICK x \in T : \A y \in T : ~(<<y, x>> \in R)
  <2> HIDE DEF R
  <2> QED
    BY <1>1, WFMin
<1>3. ASSUME NEW y \in T, ~(x <= y) PROVE FALSE
  <2>1. x \in Nat /\ y \in Nat /\ y < x
    BY <1>3
  <2>2. <<y, x>> \in R
    BY <2>1
  <2> QED
    BY <1>2, <2>2
<1> QED
  BY <1>3

\* min(...) of numbers
LEMMA MinFact ==
  ASSUME NEW T \in SUBSET Nat, T # {}
  PROVE  Min(T) \in T /\ \A y \in T : Min(T) <= y
<1>1. PICK x \in T : \A y \in T : x <= y
  BY LeastNatural
<1> QED
  BY <1>1 DEF Min

\* max(...) of numbers up to sys.maxsize
LEMMA MaxFact ==
  ASSUME NEW T \in SUBSET (0..MaxSize), T # {}
  PROVE  Max(T) \in T /\ \A y \in T : y <= Max(T)
<1> DEFINE U == {m \in Nat : m <= MaxSize /\ MaxSize - m \in T}
<1>1. U # {}
  <2>1. PICK x \in T : TRUE
    OBVIOUS
  <2>2. MaxSize - x \in Nat /\ MaxSize - x <= MaxSize /\ MaxSize - (MaxSize - x) = x
    BY MaxSizeAssumption
  <2>3. MaxSize - x \in U
    BY <2>1, <2>2
  <2> QED
    BY <2>3
<1>2. PICK m \in U : \A k \in U : m <= k
  BY <1>1, LeastNatural
<1>3. MaxSize - m \in T
  BY <1>2
<1>4. ASSUME NEW y \in T PROVE MaxSize - m >= y
  <2>1. MaxSize - y \in Nat /\ MaxSize - y <= MaxSize /\ MaxSize - (MaxSize - y) = y /\ y \in Int
    BY MaxSizeAssumption
  <2>2. m <= MaxSize - y
    BY <1>2, <2>1
  <2> QED
    BY <1>2, <2>1, <2>2, MaxSizeAssumption
<1>5. Max(T) \in T /\ \A y \in T : Max(T) >= y
  BY <1>3, <1>4 DEF Max
<1> QED
  BY <1>5, MaxSizeAssumption

-----------------------------------------------------------------------------
(* Count spaces *)

\* n is the best number that s and t allow, where neither asks for the largest.
Least(n, s, t) ==
  ~ChoosesMax(s) /\ ~ChoosesMax(t) => \A m \in 0..MaxSize : Allows(s, m) /\ Allows(t, m) => n <= m

\* A choice: a number of both spaces; the least of them, or the largest if s is a range
\* that asks for it.
Best(x, s, t) ==
  \E n \in 0..MaxSize :
    /\ x = Number(n) /\ Allows(s, n) /\ Allows(t, n) /\ Least(n, s, t)
    /\ s.kind = "range" /\ ChoosesMax(s) => \A m \in 0..MaxSize : Allows(s, m) /\ Allows(t, m) => m <= n

\* The four kinds of legal count spaces
LEMMA CountKinds ==
  ASSUME NEW s, LegalCount(s)
  PROVE  /\ s \in CountSpaces
         /\ \/ s = NoSpace
            \/ \E n \in 0..MaxSize : s = Number(n)
            \/ \E r : LegalRange(r) /\ s = InRange(r)
            \/ \E rs : rs # {} /\ (\A r \in rs : LegalRange(r)) /\ s = OneOf(rs)
<1>1. \/ s = NoSpace
      \/ \E n \in 0..MaxSize : s = Number(n)
      \/ \E r : LegalRange(r) /\ s = InRange(r)
      \/ \E rs : rs # {} /\ (\A r \in rs : LegalRange(r)) /\ s = OneOf(rs)
  BY DEF LegalCount
<1>2. s \in CountSpaces
  BY <1>1, MaxSizeAssumption DEF CountSpaces, LegalRange
<1> QED
  BY <1>1, <1>2

\* What the kinds allow, and ask for
LEMMA KindFacts ==
  /\ \A n : NoSpace.kind = "none" /\ Allows(NoSpace, n) /\ ~ChoosesMax(NoSpace)
  /\ \A m, n : /\ Number(m).kind = "int" /\ Number(m).value = m /\ (Allows(Number(m), n) <=> n = m)
               /\ ~ChoosesMax(Number(m))
  /\ \A r, n : /\ InRange(r).kind = "range" /\ InRange(r).range = r /\ (Allows(InRange(r), n) <=> InRangeOf(n, r))
               /\ (ChoosesMax(InRange(r)) <=> r.choose_max_value)
  /\ \A rs, n : /\ OneOf(rs).kind = "list" /\ OneOf(rs).items = rs
                /\ (Allows(OneOf(rs), n) <=> \E r \in rs : InRangeOf(n, r))
                /\ (ChoosesMax(OneOf(rs)) <=> \E r \in rs : r.choose_max_value)
  BY DEF NoSpace, Number, InRange, OneOf, Allows, ChoosesMax

\* The numbers of a legal range are counts.
LEMMA LegalRangeFact ==
  ASSUME NEW r, LegalRange(r)
  PROVE  /\ r \in IntRanges /\ r.min \in 0..MaxSize /\ r.max \in 0..MaxSize /\ Last(r) \in 0..MaxSize
         /\ r.min <= Last(r) /\ Last(r) <= r.max /\ r.choose_max_value \in BOOLEAN
         /\ \A n \in Int : InRangeOf(n, r) => n \in 0..MaxSize
<1>1. /\ r \in IntRanges /\ r.min \in Int /\ r.max \in Int /\ r.max_inclusive \in BOOLEAN
      /\ r.choose_max_value \in BOOLEAN /\ Last(r) \in Int /\ r.min <= Last(r) /\ 0 <= r.min /\ r.max <= MaxSize
  BY FirstOfRange DEF LegalRange, IntRanges, RangeRecords
<1>2. Last(r) <= r.max
  BY <1>1 DEF Last
<1> QED
  BY <1>1, <1>2, MaxSizeAssumption DEF InRangeOf

\* The exceptions are no numbers.
LEMMA Exceptions ==
  /\ NotMeet # Error /\ NotMeet # NoSpace /\ Error # NoSpace
  /\ \A n : Number(n) \notin {NotMeet, Error, NoSpace}
  /\ \A r : InRange(r) \notin {NotMeet, Error, NoSpace}
  /\ \A rs : OneOf(rs) \notin {NotMeet, Error, NoSpace} /\ Options(rs) \notin {NotMeet, Error, NoSpace}
<1>1. NotMeet.kind = "not_meet" /\ Error.kind = "error" /\ NoSpace.kind = "none"
  BY DEF NotMeet, Error, NoSpace
<1>2. \A rs : Options(rs).kind = "set"
  BY DEF Options
<1> QED
  BY <1>1, <1>2, KindFacts

\* IntRange.choose_value of a range
LEMMA ChooseRange ==
  ASSUME NEW r, LegalRange(r), NEW c, LegalRange(c), RangeCheck(r, c)
  PROVE  /\ RangeChoose(r, c) \in 0..MaxSize /\ InRangeOf(RangeChoose(r, c), r) /\ InRangeOf(RangeChoose(r, c), c)
         /\ \A m \in Int : InRangeOf(m, r) /\ InRangeOf(m, c) =>
              IF r.choose_max_value \/ c.choose_max_value THEN m <= RangeChoose(r, c) ELSE RangeChoose(r, c) <= m
<1>1. r \in IntRanges /\ c \in IntRanges
  BY LegalRangeFact
<1>2. /\ InRangeOf(RangeChoose(r, c), r) /\ InRangeOf(RangeChoose(r, c), c)
      /\ \A m \in Int : InRangeOf(m, r) /\ InRangeOf(m, c) =>
              IF r.choose_max_value \/ c.choose_max_value THEN m <= RangeChoose(r, c) ELSE RangeChoose(r, c) <= m
  BY <1>1, ChoiceIsBest
<1>3. RangeChoose(r, c) \in Int
  BY LegalRangeFact DEF RangeChoose, Smaller, Larger
<1> QED
  BY <1>2, <1>3, LegalRangeFact

\* The loop over a list keeps the best: its result is one of the candidates, if the value it
\* starts from is no better than they are.
LEMMA BestOfFact ==
  ASSUME NEW ns \in SUBSET (0..MaxSize), ns # {}, NEW start \in 0..MaxSize, NEW choose_max \in BOOLEAN,
         \A n \in ns : IF choose_max THEN start <= n ELSE n <= start
  PROVE  /\ BestOf(ns, start, choose_max) \in ns
         /\ \A n \in ns : IF choose_max THEN n <= BestOf(ns, start, choose_max) ELSE BestOf(ns, start, choose_max) <= n
<1> DEFINE T == ns \cup {start}
<1>1. T \in SUBSET (0..MaxSize) /\ T \in SUBSET Nat /\ T # {} /\ start \in T
  BY MaxSizeAssumption
<1> HIDE DEF T
<1>2. PICK e \in ns : TRUE
  OBVIOUS
<1>e. e \in T /\ e \in Int /\ start \in Int /\ T \subseteq Int
  BY <1>2, MaxSizeAssumption DEF T
<1>3. CASE choose_max
  <2>1. Max(T) \in T /\ \A y \in T : y <= Max(T)
    BY <1>1, MaxFact
  <2>2. BestOf(ns, start, choose_max) = Max(T)
    BY <1>3 DEF BestOf, T
  <2>3. e <= Max(T) /\ start <= e /\ Max(T) \in Int
    BY <1>e, <1>3, <2>1
  <2>4. Max(T) \in ns
    <3>1. CASE Max(T) = start
      <4>1. e = start
        BY <1>e, <2>3, <3>1
      <4> QED
        BY <1>2, <3>1, <4>1
    <3>2. CASE Max(T) # start
      BY <2>1, <3>2 DEF T
    <3> QED
      BY <3>1, <3>2
  <2> QED
    BY <1>3, <2>1, <2>2, <2>4 DEF T
<1>4. CASE ~choose_max
  <2>1. Min(T) \in T /\ \A y \in T : Min(T) <= y
    BY <1>1, MinFact
  <2>2. BestOf(ns, start, choose_max) = Min(T)
    BY <1>4 DEF BestOf, T
  <2>3. Min(T) <= e /\ e <= start /\ Min(T) \in Int
    BY <1>e, <1>4, <2>1
  <2>4. Min(T) \in ns
    <3>1. CASE Min(T) = start
      <4>1. e = start
        BY <1>e, <2>3, <3>1
      <4> QED
        BY <1>2, <3>1, <4>1
    <3>2. CASE Min(T) # start
      BY <2>1, <3>2 DEF T
    <3> QED
      BY <3>1, <3>2
  <2> QED
    BY <1>4, <2>1, <2>2, <2>4 DEF T
<1> QED
  BY <1>3, <1>4

\* IntRange.choose_value of a list of ranges; it refuses only a choice that is unbounded.
LEMMA ChooseItems ==
  ASSUME NEW r, LegalRange(r), NEW items, \A c \in items : LegalRange(c), \E c \in items : RangeCheck(r, c)
  PROVE  /\ ItemsChoose(r, items) = NotMeet \/ Best(ItemsChoose(r, items), InRange(r), OneOf(items))
         /\ ItemsChoose(r, items) = NotMeet => \E c \in items : RangeCheck(r, c) /\ RangeChoose(r, c) = MaxSize
<1> DEFINE passing == {x \in items : RangeCheck(r, x)}
           ns == {RangeChoose(r, c) : c \in passing}
           cm == r.choose_max_value \/ \E c \in items : c.choose_max_value
           start == IF cm THEN r.min ELSE r.max
           n == BestOf(ns, start, cm)
<1>0. ItemsChoose(r, items) = IF MaxSize \in ns THEN NotMeet ELSE Bounded(n)
  BY DEF ItemsChoose
<1>1. ASSUME NEW c \in passing
      PROVE  /\ RangeChoose(r, c) \in 0..MaxSize /\ InRangeOf(RangeChoose(r, c), r) /\ InRangeOf(RangeChoose(r, c), c)
             /\ \A m \in Int : InRangeOf(m, r) /\ InRangeOf(m, c) =>
                  IF r.choose_max_value \/ c.choose_max_value THEN m <= RangeChoose(r, c) ELSE RangeChoose(r, c) <= m
  BY <1>1, ChooseRange
<1>2. ns \in SUBSET (0..MaxSize) /\ ns # {}
  BY <1>1
<1>3. cm \in BOOLEAN /\ start \in 0..MaxSize
  BY LegalRangeFact
<1>4. \A k \in ns : IF cm THEN start <= k ELSE k <= start
  <2>1. ASSUME NEW k \in ns PROVE k \in Int /\ r.min <= k /\ k <= r.max
    <3>1. PICK c \in passing : k = RangeChoose(r, c)
      BY <2>1
    <3>2. k \in 0..MaxSize /\ InRangeOf(k, r)
      BY <1>1, <3>1
    <3> QED
      BY <3>2, LegalRangeFact, MaxSizeAssumption DEF InRangeOf
  <2> QED
    BY <2>1
<1> HIDE DEF cm, start
<1>5. n \in ns /\ \A k \in ns : IF cm THEN k <= n ELSE n <= k
  <2> HIDE DEF ns
  <2> QED
    BY <1>2, <1>3, <1>4, BestOfFact
<1>6. PICK c \in passing : n = RangeChoose(r, c)
  BY <1>5
<1>7. n \in 0..MaxSize /\ InRangeOf(n, r) /\ Allows(OneOf(items), n) /\ Allows(InRange(r), n)
  BY <1>1, <1>6, KindFacts
<1>8. ASSUME NEW m \in 0..MaxSize, InRangeOf(m, r), Allows(OneOf(items), m)
      PROVE  (~cm => n <= m) /\ (r.choose_max_value => m <= n)
  <2>1. PICK d \in items : InRangeOf(m, d)
    BY <1>8, KindFacts
  <2>2. d \in passing
    BY <1>8, <2>1, LegalRangeFact, RangesOverlap, MaxSizeAssumption
  <2>3. RangeChoose(r, d) \in ns /\ RangeChoose(r, d) \in 0..MaxSize
    BY <1>1, <2>2
  <2>4. IF r.choose_max_value \/ d.choose_max_value THEN m <= RangeChoose(r, d) ELSE RangeChoose(r, d) <= m
    BY <1>1, <1>8, <2>1, <2>2, MaxSizeAssumption
  <2>5. IF cm THEN RangeChoose(r, d) <= n ELSE n <= RangeChoose(r, d)
    BY <1>5, <2>3
  <2> QED
    BY <1>7, <2>3, <2>4, <2>5, MaxSizeAssumption DEF cm
<1>9. cm <=> ChoosesMax(InRange(r)) \/ ChoosesMax(OneOf(items))
  BY KindFacts DEF cm
<1> HIDE DEF n, ns
<1>10. CASE MaxSize \notin ns /\ n # MaxSize
  <2>1. ItemsChoose(r, items) = Number(n)
    BY <1>0, <1>10 DEF Bounded
  <2>2. Least(n, InRange(r), OneOf(items))
    BY <1>8, <1>9, KindFacts DEF Least
  <2>3. \A m \in 0..MaxSize : ChoosesMax(InRange(r)) /\ Allows(InRange(r), m) /\ Allows(OneOf(items), m) => m <= n
    BY <1>8, KindFacts
  <2> QED
    BY <1>7, <2>1, <2>2, <2>3, Exceptions DEF Best
<1>11. CASE MaxSize \in ns \/ n = MaxSize
  <2>1. MaxSize \in ns
    BY <1>5, <1>11
  <2>2. PICK d \in passing : MaxSize = RangeChoose(r, d)
    BY <2>1 DEF ns
  <2>3. ItemsChoose(r, items) = NotMeet
    BY <1>0, <2>1
  <2> QED
    BY <2>2, <2>3
<1> QED
  BY <1>10, <1>11

\* IntRange.choose_value: NotMeet, or the best number of both
LEMMA ChooseFromRange ==
  ASSUME NEW r, LegalRange(r), NEW cap, LegalCount(cap), cap # NoSpace
  PROVE  IntRangeChoose(r, cap) = NotMeet \/ Best(IntRangeChoose(r, cap), InRange(r), cap)
<1> SUFFICES ASSUME IntRangeCheck(r, cap)
             PROVE  IntRangeChoose(r, cap) = NotMeet \/ Best(IntRangeChoose(r, cap), InRange(r), cap)
  BY DEF IntRangeChoose
<1>1. CASE \E n \in 0..MaxSize : cap = Number(n)
  <2>1. PICK n \in 0..MaxSize : cap = Number(n)
    BY <1>1
  <2>2. IntRangeChoose(r, cap) = Bounded(n) /\ NumberCheck(r, n)
    BY <2>1, KindFacts DEF IntRangeChoose, IntRangeCheck
  <2>3. InRangeOf(n, r)
    BY <2>1, <2>2, NumberInRange, LegalRangeFact, MaxSizeAssumption
  <2>4. CASE n # MaxSize
    <3>1. IntRangeChoose(r, cap) = Number(n)
      BY <2>2, <2>4 DEF Bounded
    <3> QED
      BY <2>1, <2>3, <3>1, KindFacts, MaxSizeAssumption DEF Best, Least
  <2> QED
    BY <2>2, <2>4 DEF Bounded
<1>2. CASE \E c : LegalRange(c) /\ cap = InRange(c)
  <2>1. PICK c : LegalRange(c) /\ cap = InRange(c)
    BY <1>2
  <2> DEFINE n == RangeChoose(r, c)
  <2>2. IntRangeChoose(r, cap) = Bounded(n) /\ RangeCheck(r, c)
    BY <2>1, KindFacts DEF IntRangeChoose, IntRangeCheck
  <2>3. /\ n \in 0..MaxSize /\ InRangeOf(n, r) /\ InRangeOf(n, c)
        /\ \A m \in Int : InRangeOf(m, r) /\ InRangeOf(m, c) =>
             IF r.choose_max_value \/ c.choose_max_value THEN m <= n ELSE n <= m
    BY <2>1, <2>2, ChooseRange
  <2> HIDE DEF n
  <2>4. CASE n # MaxSize
    <3>1. IntRangeChoose(r, cap) = Number(n)
      BY <2>2, <2>4 DEF Bounded
    <3>2. Least(n, InRange(r), cap)
      BY <2>1, <2>3, KindFacts, MaxSizeAssumption DEF Least
    <3>3. \A m \in 0..MaxSize : ChoosesMax(InRange(r)) /\ Allows(InRange(r), m) /\ Allows(cap, m) => m <= n
      BY <2>1, <2>3, KindFacts, MaxSizeAssumption
    <3> QED
      BY <2>1, <2>3, <3>1, <3>2, <3>3, KindFacts DEF Best
  <2> QED
    BY <2>2, <2>4 DEF Bounded
<1>3. CASE \E rs : rs # {} /\ (\A c \in rs : LegalRange(c)) /\ cap = OneOf(rs)
  <2>1. PICK rs : rs # {} /\ (\A c \in rs : LegalRange(c)) /\ cap = OneOf(rs)
    BY <1>3
  <2>2. IntRangeChoose(r, cap) = ItemsChoose(r, rs) /\ \E c \in rs : RangeCheck(r, c)
    BY <2>1, KindFacts DEF IntRangeChoose, IntRangeCheck
  <2> QED
    BY <2>1, <2>2, ChooseItems
<1> QED
  BY <1>1, <1>2, <1>3, CountKinds

\* choose_value_countspace of a list of ranges
LEMMA ChooseFromList ==
  ASSUME NEW items, \A r \in items : LegalRange(r), NEW cap, LegalCount(cap), cap # NoSpace,
         \E r \in items : IntRangeCheck(r, cap)
  PROVE  ListChoose(items, cap) = NotMeet \/ Best(ListChoose(items, cap), OneOf(items), cap)
<1> DEFINE passing == {x \in items : IntRangeCheck(x, cap)}
           choices == {IntRangeChoose(r, cap) : r \in passing}
           ns == {c.value : c \in choices}
           cm == \E r \in items : r.choose_max_value
           start == IF cm THEN 0 ELSE MaxSize
           n == BestOf(ns, start, cm)
<1>0. ListChoose(items, cap) = IF NotMeet \in choices THEN NotMeet ELSE Number(n)
  BY DEF ListChoose
<1> SUFFICES ASSUME NotMeet \notin choices PROVE Best(Number(n), OneOf(items), cap)
  BY <1>0
<1>1. ASSUME NEW r \in passing PROVE Best(IntRangeChoose(r, cap), InRange(r), cap)
  BY ChooseFromRange
<1>2. ASSUME NEW r \in passing
      PROVE  /\ IntRangeChoose(r, cap).value \in ns /\ IntRangeChoose(r, cap).value \in 0..MaxSize
             /\ InRangeOf(IntRangeChoose(r, cap).value, r) /\ Allows(cap, IntRangeChoose(r, cap).value)
             /\ Least(IntRangeChoose(r, cap).value, InRange(r), cap)
  <2>1. IntRangeChoose(r, cap).value \in ns
    BY <1>2
  <2>2. PICK k \in 0..MaxSize : /\ IntRangeChoose(r, cap) = Number(k) /\ Allows(InRange(r), k) /\ Allows(cap, k)
                                /\ Least(k, InRange(r), cap)
    BY <1>1 DEF Best
  <2>3. IntRangeChoose(r, cap).value = k /\ InRangeOf(k, r)
    BY <2>2, KindFacts
  <2> QED
    BY <2>1, <2>2, <2>3
<1>3. \A k \in ns : \E r \in passing : k = IntRangeChoose(r, cap).value
  OBVIOUS
<1>4. ns \in SUBSET (0..MaxSize) /\ ns # {}
  BY <1>2, <1>3
<1>5. cm \in BOOLEAN /\ start \in 0..MaxSize /\ \A k \in ns : IF cm THEN start <= k ELSE k <= start
  BY <1>4, MaxSizeAssumption
<1> HIDE DEF cm, start
<1>6. n \in ns /\ \A k \in ns : IF cm THEN k <= n ELSE n <= k
  <2> HIDE DEF ns
  <2> QED
    BY <1>4, <1>5, BestOfFact
<1> HIDE DEF n, ns
<1>7. n \in 0..MaxSize /\ Allows(OneOf(items), n) /\ Allows(cap, n)
  BY <1>2, <1>3, <1>6, KindFacts
<1>8. ASSUME ~cm, ~ChoosesMax(cap), NEW m \in 0..MaxSize, Allows(OneOf(items), m), Allows(cap, m)
      PROVE  n <= m
  <2>1. PICK r \in items : InRangeOf(m, r)
    BY <1>8, KindFacts
  <2>2. r \in passing
    <3>1. cap \in CountSpaces /\ cap.kind # "none"
      BY CountKinds, KindFacts
    <3>2. r \in IntRanges /\ m \in Int
      BY LegalRangeFact, MaxSizeAssumption
    <3> QED
      BY <1>8, <2>1, <3>1, <3>2, RangeMeetsSpace
  <2> DEFINE k == IntRangeChoose(r, cap).value
  <2>3. k \in ns /\ k \in 0..MaxSize /\ Least(k, InRange(r), cap)
    BY <1>2, <2>2
  <2> HIDE DEF k
  <2>4. ~ChoosesMax(InRange(r)) /\ Allows(InRange(r), m)
    BY <1>8, <2>1, KindFacts DEF cm
  <2>5. k <= m /\ n <= k
    BY <1>6, <1>8, <2>3, <2>4 DEF Least
  <2> QED
    BY <1>7, <2>3, <2>5, MaxSizeAssumption
<1>9. Least(n, OneOf(items), cap)
  BY <1>8, KindFacts DEF Least, cm
<1> QED
  BY <1>7, <1>9, KindFacts DEF Best

\* A space that allows something passes its own check.
LEMMA SelfCheck ==
  ASSUME NEW s, LegalCount(s), s # NoSpace
  PROVE  /\ CheckCountspace(s, s)
         /\ s.kind = "list" => \E r \in s.items : IntRangeCheck(r, s)
<1>0. s \in CountSpaces /\ s.kind # "none"
  BY CountKinds, KindFacts
<1>1. CASE \E n \in 0..MaxSize : s = Number(n)
  BY <1>1, KindFacts DEF CheckCountspace
<1>2. CASE \E r : LegalRange(r) /\ s = InRange(r)
  <2>1. PICK r : LegalRange(r) /\ s = InRange(r)
    BY <1>2
  <2>2. InRangeOf(r.min, r) /\ r.min \in Int
    BY <2>1, LegalRangeFact, MaxSizeAssumption DEF InRangeOf
  <2> QED
    BY <1>0, <2>1, <2>2, KindFacts, CheckOfSpace
<1>3. CASE \E rs : rs # {} /\ (\A r \in rs : LegalRange(r)) /\ s = OneOf(rs)
  <2>1. PICK rs : rs # {} /\ (\A r \in rs : LegalRange(r)) /\ s = OneOf(rs)
    BY <1>3
  <2>2. PICK r \in rs : LegalRange(r)
    BY <2>1
  <2>3. InRangeOf(r.min, r) /\ r.min \in Int /\ r \in IntRanges
    BY <2>2, LegalRangeFact, MaxSizeAssumption DEF InRangeOf
  <2>4. Allows(s, r.min)
    BY <2>1, <2>3, KindFacts
  <2>5. IntRangeCheck(r, s)
    BY <1>0, <2>3, <2>4, RangeMeetsSpace
  <2> QED
    BY <1>0, <2>1, <2>3, <2>4, <2>5, KindFacts, CheckOfSpace
<1> QED
  BY <1>1, <1>2, <1>3, CountKinds

\* What Python takes for false, among legal spaces
LEMMA FalsyFact ==
  ASSUME NEW s, LegalCount(s)
  PROVE  Falsy(s) <=> s = NoSpace \/ s = Number(0)
<1>1. s # OneOf({})
  BY KindFacts DEF LegalCount, NoSpace
<1> QED
  BY <1>1 DEF Falsy

\* choose_value_countspace: NotMeet, or the best number of both
LEMMA ChooseFact ==
  ASSUME NEW req, LegalCount(req), NEW cap, LegalCount(cap), cap # NoSpace
  PROVE  ChooseValueCountspace(req, cap) = NotMeet \/ Best(ChooseValueCountspace(req, cap), req, cap)
<1> SUFFICES ASSUME CheckCountspace(req, cap)
             PROVE  ChooseValueCountspace(req, cap) = NotMeet \/ Best(ChooseValueCountspace(req, cap), req, cap)
  BY DEF ChooseValueCountspace
<1> DEFINE x == ChooseValueCountspace(req, cap)
<1>0. 0 \in 0..MaxSize
  BY MaxSizeAssumption
<1>1. CASE req = NoSpace
  <2>0. req.kind = "none" /\ (\A m : Allows(req, m)) /\ ~ChoosesMax(req)
    BY <1>1, KindFacts
  <2>1. CASE Falsy(cap)
    <3>1. cap = Number(0) /\ x = Number(0)
      BY <2>0, <2>1, FalsyFact DEF ChooseValueCountspace
    <3> HIDE DEF x
    <3> QED
      BY <1>0, <2>0, <3>1, KindFacts, MaxSizeAssumption DEF Best, Least, x
  <2>2. CASE ~Falsy(cap)
    <3>1. ASSUME NEW y, Best(y, cap, cap) PROVE Best(y, req, cap)
      BY <2>0, <3>1 DEF Best, Least
    <3>2. CASE \E n \in 0..MaxSize : cap = Number(n)
      <4>1. x = cap
        BY <2>0, <2>2, <3>2, KindFacts DEF ChooseValueCountspace
      <4>2. Best(cap, cap, cap)
        BY <3>2, KindFacts, MaxSizeAssumption DEF Best, Least
      <4> QED
        BY <3>1, <4>1, <4>2
    <3>3. CASE \E r : LegalRange(r) /\ cap = InRange(r)
      <4>1. PICK r : LegalRange(r) /\ cap = InRange(r)
        BY <3>3
      <4>2. x = IntRangeChoose(r, cap)
        BY <2>0, <2>2, <4>1, KindFacts DEF ChooseValueCountspace
      <4> QED
        BY <3>1, <4>1, <4>2, ChooseFromRange
    <3>4. CASE \E rs : rs # {} /\ (\A r \in rs : LegalRange(r)) /\ cap = OneOf(rs)
      <4>1. PICK rs : rs # {} /\ (\A r \in rs : LegalRange(r)) /\ cap = OneOf(rs)
        BY <3>4
      <4>2. x = ListChoose(rs, cap)
        BY <2>0, <2>2, <4>1, KindFacts DEF ChooseValueCountspace
      <4>3. \E r \in rs : IntRangeCheck(r, cap)
        BY <4>1, SelfCheck, KindFacts
      <4> QED
        BY <3>1, <4>1, <4>2, <4>3, ChooseFromList
    <3> QED
      BY <3>2, <3>3, <3>4, CountKinds
  <2> QED
    BY <2>1, <2>2
<1>2. CASE \E n \in 0..MaxSize : req = Number(n)
  <2>1. PICK n \in 0..MaxSize : req = Number(n)
    BY <1>2
  <2>2. x = req
    BY <2>1, KindFacts DEF ChooseValueCountspace
  <2>3. Allows(cap, n)
    BY <2>1, KindFacts, CheckMeansOverlap, CountKinds
  <2> QED
    BY <2>1, <2>2, <2>3, KindFacts, MaxSizeAssumption DEF Best, Least
<1>3. CASE \E r : LegalRange(r) /\ req = InRange(r)
  <2>1. PICK r : LegalRange(r) /\ req = InRange(r)
    BY <1>3
  <2>2. x = IntRangeChoose(r, cap)
    BY <2>1, KindFacts DEF ChooseValueCountspace
  <2> QED
    BY <2>1, <2>2, ChooseFromRange
<1>4. CASE \E rs : rs # {} /\ (\A r \in rs : LegalRange(r)) /\ req = OneOf(rs)
  <2>1. PICK rs : rs # {} /\ (\A r \in rs : LegalRange(r)) /\ req = OneOf(rs)
    BY <1>4
  <2>2. x = ListChoose(rs, cap) /\ \E r \in rs : IntRangeCheck(r, cap)
    BY <2>1, KindFacts DEF ChooseValueCountspace, CheckCountspace
  <2> QED
    BY <2>1, <2>2, ChooseFromList
<1> QED
  BY <1>1, <1>2, <1>3, <1>4, CountKinds

\* intersect_countspace: an exception, or a space of exactly the numbers of both
LEMMA IntersectFact ==
  ASSUME NEW req, LegalCount(req), NEW cap, LegalCount(cap)
  PROVE  LET x == IntersectCountspace(req, cap)
         IN  \/ x \in {NotMeet, Error}
             \/ /\ LegalCount(x) /\ x # NoSpace /\ cap # NoSpace
                /\ \A n \in Int : Allows(x, n) <=> Allows(req, n) /\ Allows(cap, n)
                /\ x = Number(0) => req = Number(0) \/ cap = Number(0)
<1> DEFINE x == IntersectCountspace(req, cap)
<1> SUFFICES ASSUME CheckCountspace(req, cap), x # Error
             PROVE  /\ LegalCount(x) /\ x # NoSpace /\ cap # NoSpace
                    /\ \A n \in Int : Allows(x, n) <=> Allows(req, n) /\ Allows(cap, n)
                    /\ x = Number(0) => req = Number(0) \/ cap = Number(0)
  BY DEF IntersectCountspace
<1>0. /\ req.kind = "none" \/ (cap.kind # "none" /\ \E n \in Int : Allows(req, n) /\ Allows(cap, n))
      /\ NoSpace.kind = "none"
  BY CheckMeansOverlap, CountKinds, KindFacts
<1>1. CASE req = NoSpace
  <2>1. ~Falsy(cap) /\ x = cap
    BY <1>1, KindFacts DEF IntersectCountspace
  <2>2. cap # NoSpace
    BY <2>1 DEF Falsy
  <2> QED
    BY <1>1, <2>1, <2>2, KindFacts
<1>2. CASE \E m \in 0..MaxSize : req = Number(m)
  <2>1. PICK m \in 0..MaxSize : req = Number(m)
    BY <1>2
  <2>2. x = req /\ req.kind = "int"
    BY <2>1, KindFacts DEF IntersectCountspace
  <2> QED
    BY <1>0, <2>1, <2>2, KindFacts, Exceptions, MaxSizeAssumption
<1>3. CASE \E r : LegalRange(r) /\ req = InRange(r)
  <2>1. PICK r : LegalRange(r) /\ req = InRange(r)
    BY <1>3
  <2>2. x = IntRangeIntersect(r, cap) /\ IntRangeCheck(r, cap) /\ cap # NoSpace
    BY <1>0, <2>1, KindFacts DEF IntersectCountspace, CheckCountspace
  <2>3. CASE \E m \in 0..MaxSize : cap = Number(m)
    <3>1. PICK m \in 0..MaxSize : cap = Number(m)
      BY <2>3
    <3>2. x = cap /\ cap.kind = "int"
      BY <2>2, <3>1, KindFacts DEF IntRangeIntersect
    <3>3. Allows(req, m)
      BY <1>0, <2>1, <3>1, KindFacts
    <3> QED
      BY <2>2, <3>1, <3>2, <3>3, KindFacts
  <2>4. CASE \E c : LegalRange(c) /\ cap = InRange(c)
    <3>1. PICK c : LegalRange(c) /\ cap = InRange(c)
      BY <2>4
    <3> DEFINE b == RangeIntersect(r, c)
    <3>2. x = InRange(b) /\ RangeCheck(r, c)
      BY <2>2, <3>1, KindFacts DEF IntRangeIntersect, IntRangeCheck
    <3>3. b \in IntRanges /\ \A n \in Int : InRangeOf(n, b) <=> InRangeOf(n, r) /\ InRangeOf(n, c)
      BY <2>1, <3>1, <3>2, LegalRangeFact, IntersectionIsExact
    <3>4. b.min \in Int /\ b.max \in Int /\ 0 <= b.min /\ b.max <= MaxSize
      <4>1. /\ r.min \in Int /\ r.max \in Int /\ c.min \in Int /\ c.max \in Int
            /\ 0 <= r.min /\ 0 <= c.min /\ r.max <= MaxSize /\ c.max <= MaxSize
        BY <2>1, <3>1, LegalRangeFact, MaxSizeAssumption
      <4> QED
        BY <4>1, MaxSizeAssumption DEF RangeIntersect
    <3> HIDE DEF b
    <3>5. LegalRange(b)
      BY <3>3, <3>4 DEF LegalRange
    <3>6. LegalCount(x) /\ x # Number(0) /\ x # NoSpace
      BY <3>2, <3>5, KindFacts DEF LegalCount
    <3> QED
      BY <2>1, <2>2, <3>1, <3>2, <3>3, <3>6, KindFacts
  <2>5. CASE \E rs : rs # {} /\ (\A c \in rs : LegalRange(c)) /\ cap = OneOf(rs)
    BY <2>2, <2>5, KindFacts DEF IntRangeIntersect
  <2> QED
    BY <2>2, <2>3, <2>4, <2>5, CountKinds
<1>4. CASE \E rs : rs # {} /\ (\A r \in rs : LegalRange(r)) /\ req = OneOf(rs)
  BY <1>4, KindFacts DEF IntersectCountspace
<1> QED
  BY <1>1, <1>2, <1>3, <1>4, CountKinds

-----------------------------------------------------------------------------
(* Set spaces *)

\* The first option by priority is one of the options.
LEMMA FirstFact ==
  ASSUME NEW f \in SetFields, NEW os, os # {}, os \subseteq {Priority(f)[i] : i \in DOMAIN Priority(f)}
  PROVE  FirstByPriority(os, Priority(f)) \in os
<1> DEFINE P == Priority(f)
           T == {i \in DOMAIN P : P[i] \in os}
<1>1. \A i \in DOMAIN P : i \in Nat \ {0} /\ 1..i \subseteq DOMAIN P
  BY PriorityAssumption
<1>2. T \in SUBSET Nat /\ T # {}
  BY <1>1
<1>3. PICK i \in T : \A j \in T : i <= j
  BY <1>2, LeastNatural
<1>4. ASSUME NEW j \in 1..(i - 1) PROVE P[j] \notin os
  <2>1. j \in DOMAIN P /\ ~(i <= j)
    BY <1>1, <1>3
  <2> QED
    BY <1>3, <2>1
<1>5. i \in DOMAIN P /\ P[i] \in os /\ \A j \in 1..(i - 1) : P[j] \notin os
  BY <1>3, <1>4
<1> HIDE DEF P
<1> QED
  BY <1>5 DEF FirstByPriority, P

\* The kinds of legal set spaces
LEMMA OptionKinds ==
  ASSUME NEW s, NEW priority, LegalOptions(s, priority)
  PROVE  /\ s.kind = "none" <=> s = NoSpace
         /\ s # NoSpace => s = Options(s.items) /\ s.items # {} /\ s.items \subseteq {priority[i] : i \in DOMAIN priority}
  BY DEF LegalOptions, NoSpace

\* choose_value_setspace_by_priority: NotMeet, or one option of both
LEMMA ChooseOption ==
  ASSUME NEW f \in SetFields, NEW req, LegalOptions(req, Priority(f)), NEW cap, LegalOptions(cap, Priority(f))
  PROVE  LET x == ChooseValueSetspace(req, cap, Priority(f))
         IN  x = NotMeet \/ \E o : x = Options({o}) /\ o \in cap.items /\ (req # NoSpace => o \in req.items)
<1> SUFFICES ASSUME CheckSetspace(req, cap)
             PROVE  LET x == ChooseValueSetspace(req, cap, Priority(f))
                    IN  \E o : x = Options({o}) /\ o \in cap.items /\ (req # NoSpace => o \in req.items)
  BY DEF ChooseValueSetspace
<1> DEFINE os == InBoth(req, cap)
<1>1. cap # NoSpace /\ os # {} /\ os \subseteq cap.items /\ (req # NoSpace => os \subseteq req.items)
  BY OptionKinds DEF InBoth, CheckSetspace
<1>2. FirstByPriority(os, Priority(f)) \in os
  <2>1. os \subseteq {Priority(f)[i] : i \in DOMAIN Priority(f)}
    BY <1>1, OptionKinds
  <2> HIDE DEF os
  <2> QED
    BY <1>1, <2>1, FirstFact
<1>3. ChooseValueSetspace(req, cap, Priority(f)) = Options({FirstByPriority(os, Priority(f))})
  BY DEF ChooseValueSetspace
<1> QED
  BY <1>1, <1>2, <1>3

\* intersect_setspace_by_priority: NotMeet, or the options of both
LEMMA IntersectOptions ==
  ASSUME NEW f \in SetFields, NEW req, LegalOptions(req, Priority(f)), NEW cap, LegalOptions(cap, Priority(f))
  PROVE  LET x == IntersectSetspace(req, cap)
         IN  \/ x = NotMeet
             \/ /\ LegalOptions(x, Priority(f)) /\ x # NoSpace
                /\ x.items \subseteq cap.items /\ (req # NoSpace => x.items \subseteq req.items)
<1> SUFFICES ASSUME CheckSetspace(req, cap)
             PROVE  LET x == IntersectSetspace(req, cap)
                    IN  /\ LegalOptions(x, Priority(f)) /\ x # NoSpace
                        /\ x.items \subseteq cap.items /\ (req # NoSpace => x.items \subseteq req.items)
  BY DEF IntersectSetspace
<1> DEFINE os == InBoth(req, cap)
<1>1. cap # NoSpace /\ os # {} /\ os \subseteq cap.items /\ (req # NoSpace => os \subseteq req.items)
  BY OptionKinds DEF InBoth, CheckSetspace
<1>2. IntersectSetspace(req, cap) = Options(os)
  BY DEF IntersectSetspace
<1>3. os \subseteq {Priority(f)[i] : i \in DOMAIN Priority(f)}
  BY <1>1, OptionKinds
<1> HIDE DEF os
<1>4. Options(os).kind = "set" /\ Options(os).items = os
  BY DEF Options
<1>5. LegalOptions(Options(os), Priority(f))
  BY <1>1, <1>3, <1>4 DEF LegalOptions
<1> QED
  BY <1>1, <1>2, <1>4, <1>5, Exceptions

-----------------------------------------------------------------------------
(* The fields of a NodeSpace *)

Parts == {NodePart, DiskPart, NetworkPart}
AllFields == CountFields \cup SetFields

\* Every field is in one part.
LEMMA PartFact ==
  ASSUME NEW f \in AllFields
  PROVE  PartOf(f) \in Parts /\ f \in PartOf(f) /\ \A p \in Parts : f \in p => p = PartOf(f)
<1>1. \E p \in Parts : f \in p
  BY DEF AllFields, CountFields, SetFields, Parts, NodePart, DiskPart, NetworkPart
<1>2. \A p, q \in Parts : f \in p /\ f \in q => p = q
  BY DEF AllFields, CountFields, SetFields, Parts, NodePart, DiskPart, NetworkPart
<1>3. PartOf(f) = CHOOSE p \in Parts : f \in p
  BY DEF PartOf, Parts
<1> QED
  BY <1>1, <1>2, <1>3

\* The parts have no other fields.
LEMMA PartFields == \A p \in Parts : p \subseteq AllFields /\ \A f \in p : PartOf(f) = p
<1>1. \A p \in Parts : p \subseteq AllFields
  BY DEF AllFields, CountFields, SetFields, Parts, NodePart, DiskPart, NetworkPart
<1> QED
  BY <1>1, PartFact

\* What a legal NodeSpace is made of
LEMMA SpaceFact ==
  ASSUME NEW s, LegalSpace(s)
  PROVE  /\ DOMAIN s = AllFields \cup FeatureFields
         /\ \A f \in CountFields : LegalCount(s[f]) /\ f \in AllFields /\ f \notin SetFields /\ f \notin FeatureFields
         /\ \A f \in SetFields : LegalOptions(s[f], Priority(f)) /\ f \in AllFields /\ f \notin CountFields /\ f \notin FeatureFields
         /\ \A f \in AllFields : f \notin FeatureFields /\ (~Has(s, PartOf(f)) => s[f] = NoSpace)
<1>1. DOMAIN s = AllFields \cup FeatureFields
  BY DEF LegalSpace, AllFields
<1>2. \A f \in CountFields : f \in AllFields /\ f \notin SetFields /\ f \notin FeatureFields
  BY DEF AllFields, CountFields, SetFields, FeatureFields
<1>3. \A f \in SetFields : f \in AllFields /\ f \notin CountFields /\ f \notin FeatureFields
  BY DEF AllFields, CountFields, SetFields, FeatureFields
<1>4. ASSUME NEW f \in AllFields, ~Has(s, PartOf(f)) PROVE s[f] = NoSpace
  BY <1>4, PartFact DEF Has
<1> QED
  BY <1>1, <1>2, <1>3, <1>4 DEF LegalSpace, AllFields

\* The default of a new DiskOptionSettings allows every count.
LEMMA AnyNumberFact ==
  /\ LegalCount(AnyNumber) /\ AnyNumber # NoSpace /\ ~Falsy(AnyNumber) /\ ~ChoosesMax(AnyNumber)
  /\ \A n \in 0..MaxSize : Allows(AnyNumber, n)
<1> DEFINE r == IntRange(0, MaxSize)
<1>1. /\ r \in RangeRecords /\ r.min = 0 /\ r.max = MaxSize /\ r.max_inclusive = TRUE
      /\ r.choose_max_value = FALSE
  BY MaxSizeAssumption DEF IntRange, RangeRecords
<1>2. AnyNumber = InRange(r)
  BY DEF AnyNumber
<1> HIDE DEF r
<1>3. LegalRange(r)
  BY <1>1, MaxSizeAssumption DEF LegalRange, IntRanges
<1>4. LegalCount(InRange(r))
  BY <1>3, KindFacts DEF LegalCount
<1>5. \A n \in 0..MaxSize : InRangeOf(n, r)
  BY <1>1 DEF InRangeOf, Last
<1>6. ~Falsy(InRange(r))
  BY <1>4, FalsyFact, Exceptions, KindFacts
<1> QED
  BY <1>1, <1>2, <1>4, <1>5, <1>6, KindFacts, Exceptions

\* A merged count: a legal space of numbers that both sides allow; or, where both sides set
\* it to nothing, no bound at all.
LEMMA MergeCount ==
  ASSUME NEW req, LegalSpace(req), NEW cap, LegalSpace(cap), NEW f \in CountFields,
         Field("intersect", f, req, cap) \notin {NotMeet, Error}
  PROVE  LET v == Field("intersect", f, req, cap)
         IN  /\ LegalCount(v)
             /\ v = NoSpace => req[f] = NoSpace /\ cap[f] = NoSpace
             /\ \/ \A n \in 0..MaxSize : v # NoSpace /\ Allows(v, n) => Allows(req[f], n) /\ Allows(cap[f], n)
                \/ f \in {"data_disk_count", "data_disk_size"} /\ v = AnyNumber /\ Falsy(req[f]) /\ Falsy(cap[f])
             /\ f = "core_count" /\ ~Falsy(req[f]) /\ ~Falsy(cap[f]) => ~Falsy(v)
<1> DEFINE v == Field("intersect", f, req, cap)
           w == Wanted(f, req, cap)
<1>0. f \in AllFields /\ f \notin FeatureFields /\ LegalCount(req[f]) /\ LegalCount(cap[f])
  BY SpaceFact
<1>1. v = PartField("intersect", f, req, cap)
  BY <1>0 DEF Field
<1>2. CASE ~Has(req, PartOf(f)) /\ ~Has(cap, PartOf(f))
  <2>1. v = NoSpace /\ req[f] = NoSpace /\ cap[f] = NoSpace
    BY <1>0, <1>1, <1>2, SpaceFact DEF PartField
  <2>2. LegalCount(NoSpace) /\ Falsy(NoSpace)
    BY DEF LegalCount, Falsy
  <2> QED
    BY <2>1, <2>2
<1>3. CASE Has(req, PartOf(f)) \/ Has(cap, PartOf(f))
  <2>1. v = CountField("intersect", f, w, cap[f])
    BY <1>0, <1>1, <1>3 DEF PartField
  <2>2. LegalCount(w) /\ (w = req[f] \/ (req[f] = NoSpace /\ w = cap[f]))
    BY <1>0, SpaceFact DEF Wanted
  <2> HIDE DEF w
  <2>3. CASE Falsy(w) /\ Falsy(cap[f]) /\ f # "max_nic_count"
    <3>1. v = Unset(f) /\ Falsy(req[f])
      BY <2>1, <2>2, <2>3 DEF CountField, Falsy
    <3>2. CASE f = "gpu_count"
      <4>1. v = Number(0)
        BY <3>1, <3>2 DEF Unset
      <4>2. LegalCount(Number(0))
        BY KindFacts, MaxSizeAssumption DEF LegalCount
      <4>3. Allows(req[f], 0) /\ Allows(cap[f], 0)
        BY <1>0, <2>3, <3>1, FalsyFact, KindFacts
      <4> QED
        BY <3>2, <4>1, <4>2, <4>3, KindFacts, Exceptions
    <3>3. CASE f \in {"data_disk_count", "data_disk_size"}
      <4>1. v = AnyNumber
        BY <3>1, <3>3 DEF Unset
      <4>2. LegalCount(AnyNumber) /\ AnyNumber # NoSpace
        BY AnyNumberFact
      <4> QED
        BY <2>3, <3>1, <3>3, <4>1, <4>2
    <3>4. CASE f # "gpu_count" /\ f \notin {"data_disk_count", "data_disk_size"}
      BY <3>1, <3>4 DEF Unset
    <3> QED
      BY <3>2, <3>3, <3>4
  <2>4. CASE ~(Falsy(w) /\ Falsy(cap[f]) /\ f # "max_nic_count")
    <3>1. v = IntersectCountspace(w, cap[f])
      BY <2>1, <2>4 DEF CountField
    <3> HIDE DEF v
    <3>2. /\ LegalCount(v) /\ v # NoSpace /\ cap[f] # NoSpace
          /\ \A n \in Int : Allows(v, n) <=> Allows(w, n) /\ Allows(cap[f], n)
          /\ v = Number(0) => w = Number(0) \/ cap[f] = Number(0)
      BY <1>0, <2>2, <3>1, IntersectFact DEF v
    <3>3. \A n \in 0..MaxSize : Allows(v, n) => Allows(req[f], n) /\ Allows(cap[f], n)
      BY <2>2, <3>2, KindFacts, MaxSizeAssumption
    <3>4. ~Falsy(req[f]) /\ ~Falsy(cap[f]) => ~Falsy(v)
      BY <1>0, <2>2, <3>2, FalsyFact
    <3> QED
      BY <3>2, <3>3, <3>4 DEF v
  <2> QED
    BY <2>3, <2>4
<1> QED
  BY <1>2, <1>3

\* A merged set of options: none where neither side has the part, or some of both.
LEMMA MergeOptions ==
  ASSUME NEW req, LegalSpace(req), NEW cap, LegalSpace(cap), NEW f \in SetFields,
         Field("intersect", f, req, cap) \notin {NotMeet, Error}
  PROVE  LET v == Field("intersect", f, req, cap)
         IN  /\ LegalOptions(v, Priority(f))
             /\ v = NoSpace => ~Has(req, PartOf(f)) /\ ~Has(cap, PartOf(f))
             /\ req[f] # NoSpace => v # NoSpace /\ v.items \subseteq req[f].items
             /\ cap[f] # NoSpace => v # NoSpace /\ v.items \subseteq cap[f].items
<1> DEFINE v == Field("intersect", f, req, cap)
           w == Wanted(f, req, cap)
<1>0. f \in AllFields /\ f \notin FeatureFields /\ f \notin CountFields
      /\ LegalOptions(req[f], Priority(f)) /\ LegalOptions(cap[f], Priority(f))
  BY SpaceFact
<1>1. v = PartField("intersect", f, req, cap)
  BY <1>0 DEF Field
<1>2. CASE ~Has(req, PartOf(f)) /\ ~Has(cap, PartOf(f))
  <2>1. v = NoSpace /\ req[f] = NoSpace /\ cap[f] = NoSpace
    BY <1>0, <1>1, <1>2, SpaceFact DEF PartField
  <2>2. LegalOptions(NoSpace, Priority(f))
    BY DEF LegalOptions
  <2> QED
    BY <1>2, <2>1, <2>2
<1>3. CASE Has(req, PartOf(f)) \/ Has(cap, PartOf(f))
  <2>1. v = IntersectSetspace(w, cap[f])
    BY <1>0, <1>1, <1>3 DEF PartField, SetField
  <2>2. LegalOptions(w, Priority(f)) /\ (w = req[f] \/ (req[f] = NoSpace /\ w = cap[f]))
    BY <1>0, SpaceFact DEF Wanted
  <2> HIDE DEF v, w
  <2>3. /\ LegalOptions(v, Priority(f)) /\ v # NoSpace
        /\ v.items \subseteq cap[f].items /\ (w # NoSpace => v.items \subseteq w.items)
    BY <1>0, <2>1, <2>2, IntersectOptions DEF v
  <2> QED
    BY <2>2, <2>3 DEF v
<1> QED
  BY <1>2, <1>3

\* NodeSpace.choose_value and NodeSpace.intersect: an exception, or the value of every
\* field, once the check has passed.
LEMMA MethodFact ==
  ASSUME NEW method, NEW req, LegalSpace(req), NEW cap,
         NodeMethod(method, req, cap) \notin {NotMeet, Error}
  PROVE  /\ NodeCheck(req, cap)
         /\ NodeMethod(method, req, cap) = [f \in AllFields \cup FeatureFields |-> Field(method, f, req, cap)]
         /\ \A f \in AllFields : Field(method, f, req, cap) \notin {NotMeet, Error}
<1> DEFINE value == [f \in AllFields \cup FeatureFields |-> Field(method, f, req, cap)]
           raised == {i \in DOMAIN FieldOrder : value[FieldOrder[i]] \in {NotMeet, Error}}
<1>1. DOMAIN req = AllFields \cup FeatureFields
  BY SpaceFact
<1>2. NodeMethod(method, req, cap) =
        IF ~NodeCheck(req, cap) THEN NotMeet
        ELSE IF raised # {} THEN value[FieldOrder[Min(raised)]] ELSE value
  BY <1>1 DEF NodeMethod
<1>3. DOMAIN FieldOrder = 1..8
  BY DEF FieldOrder
<1>4. raised # {} => value[FieldOrder[Min(raised)]] \in {NotMeet, Error}
  <2>1. raised \in SUBSET Nat
    BY <1>3
  <2>2. raised # {} => Min(raised) \in raised
    <3> HIDE DEF raised
    <3> QED
      BY <2>1, MinFact
  <2> QED
    BY <2>2
<1>5. NodeCheck(req, cap) /\ raised = {} /\ NodeMethod(method, req, cap) = value
  <2> HIDE DEF value, raised
  <2> QED
    BY <1>2, <1>4
<1>6. ASSUME NEW f \in AllFields PROVE \E i \in DOMAIN FieldOrder : FieldOrder[i] = f
  <2>1. f \in {"core_count", "data_disk_type", "data_disk_count", "data_disk_size", "max_nic_count",
               "nic_count", "data_path", "gpu_count"}
    BY DEF AllFields, CountFields, SetFields
  <2>2. /\ FieldOrder[1] = "core_count" /\ FieldOrder[2] = "data_disk_type" /\ FieldOrder[3] = "data_disk_count"
        /\ FieldOrder[4] = "data_disk_size" /\ FieldOrder[5] = "max_nic_count" /\ FieldOrder[6] = "nic_count"
        /\ FieldOrder[7] = "data_path" /\ FieldOrder[8] = "gpu_count"
    BY DEF FieldOrder
  <2>3. 1 \in 1..8 /\ 2 \in 1..8 /\ 3 \in 1..8 /\ 4 \in 1..8 /\ 5 \in 1..8 /\ 6 \in 1..8 /\ 7 \in 1..8 /\ 8 \in 1..8
    OBVIOUS
  <2> QED
    BY <1>3, <2>1, <2>2, <2>3
<1>7. ASSUME NEW f \in AllFields PROVE Field(method, f, req, cap) \notin {NotMeet, Error}
  <2>1. PICK i \in DOMAIN FieldOrder : FieldOrder[i] = f
    BY <1>6
  <2>2. value[f] = Field(method, f, req, cap)
    OBVIOUS
  <2>3. value[f] \notin {NotMeet, Error}
    BY <1>5, <2>1
  <2> HIDE DEF value
  <2> QED
    BY <2>2, <2>3
<1> QED
  BY <1>5, <1>7

-----------------------------------------------------------------------------
(* What makes a check pass *)

\* The space x has what r asks for: a number, or an option, of every checked field, the
\* features, and none of the excluded ones.
Serves(r, x) ==
  /\ ~Falsy(x["core_count"])
  /\ \A f \in AllFields : r[f] # NoSpace => x[f] # NoSpace
  /\ \A f \in CountFields \ Unchecked : r[f] # NoSpace => \E n \in 0..MaxSize : Allows(r[f], n) /\ Allows(x[f], n)
  /\ \A f \in SetFields \ Unchecked :
       /\ Has(r, PartOf(f)) => x[f] # NoSpace
       /\ r[f] # NoSpace => r[f].items \cap x[f].items # {}
  /\ r["features"] \subseteq x["features"]
  /\ r["excluded_features"] \cap x["features"] = {}

\* check_countspace of legal spaces, in counts
LEMMA CheckOfCounts ==
  ASSUME NEW req, LegalCount(req), NEW cap, LegalCount(cap)
  PROVE  CheckCountspace(req, cap) <=>
           req = NoSpace \/ (cap # NoSpace /\ \E n \in 0..MaxSize : Allows(req, n) /\ Allows(cap, n))
<1>1. req \in CountSpaces /\ cap \in CountSpaces
  BY CountKinds
<1>2. (req.kind = "none" <=> req = NoSpace) /\ (cap.kind = "none" <=> cap = NoSpace)
  BY CountKinds, KindFacts
<1>3. ASSUME req # NoSpace, NEW n \in Int, Allows(req, n) PROVE n \in 0..MaxSize
  BY <1>3, CountKinds, KindFacts, LegalRangeFact
<1>4. 0..MaxSize \subseteq Int
  BY MaxSizeAssumption
<1> QED
  BY <1>1, <1>2, <1>3, <1>4, CheckMeansOverlap

\* NodeSpace.check says yes to a space that has what is asked for.
LEMMA ServesMeansCheck ==
  ASSUME NEW r, LegalSpace(r), NEW x, LegalSpace(x), Serves(r, x)
  PROVE  NodeCheck(r, x)
<1>1. ASSUME NEW p \in Parts, Has(r, p) PROVE Has(x, p)
  <2>1. PICK f \in p : r[f] # NoSpace
    BY <1>1 DEF Has
  <2>2. f \in AllFields
    BY <2>1, PartFields
  <2> QED
    BY <2>1, <2>2 DEF Serves, Has
<1>2. ASSUME NEW p \in Parts, Has(r, p), NEW f \in p PROVE FieldCheck(f, r, x)
  <2>0. f \in AllFields /\ PartOf(f) = p
    BY <1>2, PartFields
  <2>1. CASE f \in Unchecked
    BY <2>1 DEF FieldCheck
  <2>2. CASE f \in CountFields \ Unchecked
    <3>1. LegalCount(r[f]) /\ LegalCount(x[f])
      BY <2>2, SpaceFact
    <3>2. r[f] # NoSpace => x[f] # NoSpace /\ \E n \in 0..MaxSize : Allows(r[f], n) /\ Allows(x[f], n)
      BY <2>0, <2>2 DEF Serves
    <3>3. CheckCountspace(r[f], x[f])
      BY <3>1, <3>2, CheckOfCounts
    <3> QED
      BY <2>2, <3>3 DEF FieldCheck
  <2>3. CASE f \in SetFields \ Unchecked
    <3>1. LegalOptions(r[f], Priority(f)) /\ LegalOptions(x[f], Priority(f))
      BY <2>3, SpaceFact
    <3>2. x[f] # NoSpace /\ (r[f] # NoSpace => r[f].items \cap x[f].items # {})
      BY <1>2, <2>0, <2>3 DEF Serves
    <3>3. CheckSetspace(r[f], x[f])
      BY <3>1, <3>2, OptionKinds DEF CheckSetspace
    <3> QED
      BY <2>3, <3>3 DEF FieldCheck
  <2> QED
    BY <2>0, <2>1, <2>2, <2>3 DEF AllFields
<1> QED
  BY <1>1, <1>2 DEF NodeCheck, Serves, Parts

-----------------------------------------------------------------------------
(* The merged requirement *)

\* The requirement e asks for no more than r allows, in the checked fields; where both sides
\* of a merge want no data disk it leaves their number open.
Within(r, e) ==
  /\ \A f \in AllFields : r[f] # NoSpace => e[f] # NoSpace
  /\ \A f \in CountFields \ Unchecked :
       \/ e[f] # NoSpace => \A n \in 0..MaxSize : Allows(e[f], n) => Allows(r[f], n)
       \/ f = "data_disk_count" /\ e[f] = AnyNumber /\ Allows(r[f], 0)
  /\ \A f \in SetFields \ Unchecked :
       /\ Has(r, PartOf(f)) => e[f] # NoSpace
       /\ r[f] # NoSpace => e[f].items \subseteq r[f].items

\* Every legal count space but None holds a count.
LEMMA SomeCount ==
  ASSUME NEW s, LegalCount(s)
  PROVE  \E n \in 0..MaxSize : Allows(s, n)
<1>1. CASE s = NoSpace \/ \E n \in 0..MaxSize : s = Number(n)
  BY <1>1, KindFacts, MaxSizeAssumption
<1>2. CASE \E r : LegalRange(r) /\ s = InRange(r)
  <2>1. PICK r : LegalRange(r) /\ s = InRange(r)
    BY <1>2
  <2>2. r.min \in 0..MaxSize /\ InRangeOf(r.min, r)
    BY <2>1, LegalRangeFact, MaxSizeAssumption DEF InRangeOf
  <2> QED
    BY <2>1, <2>2, KindFacts
<1>3. CASE \E rs : rs # {} /\ (\A r \in rs : LegalRange(r)) /\ s = OneOf(rs)
  <2>1. PICK rs : rs # {} /\ (\A r \in rs : LegalRange(r)) /\ s = OneOf(rs)
    BY <1>3
  <2>2. PICK r \in rs : TRUE
    BY <2>1
  <2>3. r.min \in 0..MaxSize /\ InRangeOf(r.min, r)
    BY <2>1, <2>2, LegalRangeFact, MaxSizeAssumption DEF InRangeOf
  <2> QED
    BY <2>1, <2>2, <2>3, KindFacts
<1> QED
  BY <1>1, <1>2, <1>3, CountKinds

\* A test case passes the check against a requirement within its own.
LEMMA WithinServes ==
  ASSUME NEW r, LegalSpace(r), NEW e, LegalSpace(e), Within(r, e), ~Falsy(e["core_count"]),
         r["features"] \subseteq e["features"], r["excluded_features"] \cap e["features"] = {}
  PROVE  Serves(r, e)
<1>1. ASSUME NEW f \in CountFields \ Unchecked, r[f] # NoSpace
      PROVE  \E n \in 0..MaxSize : Allows(r[f], n) /\ Allows(e[f], n)
  <2>1. LegalCount(e[f]) /\ e[f] # NoSpace
    BY <1>1, SpaceFact DEF Within
  <2>2. CASE \A n \in 0..MaxSize : Allows(e[f], n) => Allows(r[f], n)
    BY <2>1, <2>2, SomeCount
  <2>3. CASE e[f] = AnyNumber /\ Allows(r[f], 0)
    BY <2>3, AnyNumberFact, MaxSizeAssumption
  <2> QED
    BY <1>1, <2>1, <2>2, <2>3 DEF Within
<1>2. ASSUME NEW f \in SetFields \ Unchecked, r[f] # NoSpace PROVE r[f].items \cap e[f].items # {}
  <2>1. e[f] # NoSpace /\ e[f].items \subseteq r[f].items /\ LegalOptions(e[f], Priority(f))
    BY <1>2, SpaceFact DEF Within
  <2>2. e[f].items # {}
    BY <2>1, OptionKinds
  <2> QED
    BY <2>1, <2>2
<1> QED
  BY <1>1, <1>2 DEF Serves, Within

\* NodeSpace.intersect gives a legal requirement within both.
LEMMA MergeFact ==
  ASSUME NEW req, LegalSpace(req), NEW cap, LegalSpace(cap), NEW x,
         x = [f \in AllFields \cup FeatureFields |-> Field("intersect", f, req, cap)],
         \A f \in AllFields : Field("intersect", f, req, cap) \notin {NotMeet, Error}
  PROVE  /\ LegalSpace(x) /\ Within(req, x) /\ Within(cap, x)
         /\ ~Falsy(req["core_count"]) /\ ~Falsy(cap["core_count"]) => ~Falsy(x["core_count"])
         /\ x["features"] = cap["features"] /\ x["excluded_features"] = cap["excluded_features"]
<1>0. /\ CountFields \subseteq AllFields /\ SetFields \subseteq AllFields
      /\ "features" \in FeatureFields /\ "excluded_features" \in FeatureFields
      /\ "core_count" \in CountFields /\ CountFields \cup SetFields = AllFields
  BY DEF AllFields, FeatureFields, CountFields
<1>v. \A f \in AllFields \cup FeatureFields : x[f] = Field("intersect", f, req, cap)
  OBVIOUS
<1>1. ASSUME NEW f \in CountFields
      PROVE  /\ LegalCount(x[f])
             /\ x[f] = NoSpace => req[f] = NoSpace /\ cap[f] = NoSpace
             /\ \/ \A n \in 0..MaxSize : x[f] # NoSpace /\ Allows(x[f], n) => Allows(req[f], n) /\ Allows(cap[f], n)
                \/ f \in {"data_disk_count", "data_disk_size"} /\ x[f] = AnyNumber /\ Falsy(req[f]) /\ Falsy(cap[f])
             /\ f = "core_count" /\ ~Falsy(req[f]) /\ ~Falsy(cap[f]) => ~Falsy(x[f])
  BY <1>0, <1>v, MergeCount
<1>2. ASSUME NEW f \in SetFields
      PROVE  /\ LegalOptions(x[f], Priority(f))
             /\ x[f] = NoSpace => ~Has(req, PartOf(f)) /\ ~Has(cap, PartOf(f))
             /\ req[f] # NoSpace => x[f] # NoSpace /\ x[f].items \subseteq req[f].items
             /\ cap[f] # NoSpace => x[f] # NoSpace /\ x[f].items \subseteq cap[f].items
  BY <1>0, <1>v, MergeOptions
<1>3. x["features"] = cap["features"] /\ x["excluded_features"] = cap["excluded_features"]
  BY <1>0, <1>v DEF Field, FeatureField
<1>4. LegalSpace(x)
  <2>1. x = [f \in CountFields \cup SetFields \cup FeatureFields |-> x[f]]
    BY DEF AllFields
  <2> QED
    BY <1>1, <1>2, <2>1 DEF LegalSpace
<1>5. ASSUME NEW f \in CountFields \ Unchecked, x[f] = AnyNumber, f \in {"data_disk_count", "data_disk_size"},
             Falsy(req[f]), Falsy(cap[f])
      PROVE  f = "data_disk_count" /\ Allows(req[f], 0) /\ Allows(cap[f], 0)
  <2>1. f = "data_disk_count"
    BY <1>5 DEF Unchecked
  <2>2. LegalCount(req[f]) /\ LegalCount(cap[f])
    BY <1>5, SpaceFact
  <2> QED
    BY <1>5, <2>1, <2>2, FalsyFact, KindFacts
<1>6. Within(req, x)
  BY <1>0, <1>1, <1>2, <1>5 DEF Within
<1>7. Within(cap, x)
  BY <1>0, <1>1, <1>2, <1>5 DEF Within
<1> QED
  BY <1>0, <1>1, <1>3, <1>4, <1>6, <1>7

-----------------------------------------------------------------------------
(* The choice of the platform *)

\* The space x is chosen from the requirement e within the capability c.
ChosenFrom(e, c, x) ==
  /\ LegalSpace(x)
  /\ \A f \in CountFields : Best(x[f], e[f], c[f])
  /\ \A f \in SetFields : \E o : x[f] = Options({o}) /\ o \in c[f].items /\ (e[f] # NoSpace => o \in e[f].items)
  /\ x["features"] = c["features"]
  /\ x["excluded_features"] \cap c["features"] = {}

\* NodeSpace.choose_value chooses the best number of every count: the capability stands in
\* for what the requirement leaves out.
LEMMA ChooseCount ==
  ASSUME NEW req, LegalSpace(req), NEW cap \in Capabilities, NEW f \in CountFields,
         Field("choose_value", f, req, cap) \notin {NotMeet, Error}
  PROVE  Best(Field("choose_value", f, req, cap), req[f], cap[f])
<1> DEFINE v == Field("choose_value", f, req, cap)
           w == Wanted(f, req, cap)
<1>0. /\ LegalSpace(cap) /\ \A g \in CountFields \cup SetFields : cap[g] # NoSpace
      /\ cap["data_disk_count"] = AnyNumber /\ ~Falsy(cap["data_disk_size"])
  BY CapabilityAssumption
<1>1. /\ f \in AllFields /\ f \notin FeatureFields /\ LegalCount(req[f]) /\ LegalCount(cap[f])
      /\ cap[f] # NoSpace
  BY <1>0, SpaceFact
<1>2. Has(cap, PartOf(f))
  BY <1>1, PartFact DEF Has
<1>3. v = CountField("choose_value", f, w, cap[f])
  BY <1>1, <1>2 DEF Field, PartField
<1>4. LegalCount(w) /\ (w = req[f] \/ (req[f] = NoSpace /\ w = cap[f]))
  BY <1>1, SpaceFact DEF Wanted
<1> HIDE DEF w
<1>5. CASE Falsy(w) /\ Falsy(cap[f]) /\ f # "max_nic_count"
  <2>1. v = Unset(f) /\ Falsy(req[f])
    BY <1>3, <1>4, <1>5 DEF CountField, Falsy
  <2>2. f \notin {"data_disk_count", "data_disk_size"}
    BY <1>0, <1>5, AnyNumberFact
  <2>3. f = "gpu_count" /\ v = Number(0)
    BY <2>1, <2>2 DEF Unset
  <2>4. Allows(req[f], 0) /\ Allows(cap[f], 0) /\ req[f].kind # "range"
    BY <1>1, <1>5, <2>1, FalsyFact, KindFacts
  <2> QED
    BY <2>3, <2>4, MaxSizeAssumption DEF Best, Least
<1>6. CASE ~(Falsy(w) /\ Falsy(cap[f]) /\ f # "max_nic_count")
  <2>1. v = ChooseValueCountspace(w, cap[f])
    BY <1>3, <1>6 DEF CountField
  <2>2. Best(v, w, cap[f])
    BY <1>1, <1>4, <2>1, ChooseFact DEF v
  <2>3. CASE req[f] = NoSpace /\ w = cap[f]
    <3>1. NoSpace.kind # "range" /\ ~ChoosesMax(NoSpace) /\ \A n : Allows(NoSpace, n)
      BY KindFacts
    <3> QED
      BY <2>2, <2>3, <3>1 DEF Best, Least
  <2> QED
    BY <1>4, <2>2, <2>3
<1> QED
  BY <1>5, <1>6

\* It chooses one option of every set.
LEMMA ChooseOptionOf ==
  ASSUME NEW req, LegalSpace(req), NEW cap, LegalSpace(cap), NEW f \in SetFields, cap[f] # NoSpace,
         Field("choose_value", f, req, cap) \notin {NotMeet, Error}
  PROVE  \E o : /\ Field("choose_value", f, req, cap) = Options({o})
                /\ o \in cap[f].items /\ (req[f] # NoSpace => o \in req[f].items)
<1> DEFINE v == Field("choose_value", f, req, cap)
           w == Wanted(f, req, cap)
<1>1. /\ f \in AllFields /\ f \notin FeatureFields /\ f \notin CountFields
      /\ LegalOptions(req[f], Priority(f)) /\ LegalOptions(cap[f], Priority(f))
  BY SpaceFact
<1>2. Has(cap, PartOf(f))
  BY <1>1, PartFact DEF Has
<1>3. v = ChooseValueSetspace(w, cap[f], Priority(f))
  BY <1>1, <1>2 DEF Field, PartField, SetField
<1>4. LegalOptions(w, Priority(f)) /\ (w = req[f] \/ (req[f] = NoSpace /\ w = cap[f]))
  BY <1>1, SpaceFact DEF Wanted
<1> HIDE DEF w
<1>5. \E o : v = Options({o}) /\ o \in cap[f].items /\ (w # NoSpace => o \in w.items)
  BY <1>1, <1>3, <1>4, ChooseOption DEF v
<1> QED
  BY <1>4, <1>5

\* One option of a legal set is a legal set.
LEMMA OneOption ==
  ASSUME NEW s, NEW priority, LegalOptions(s, priority), s # NoSpace, NEW o \in s.items
  PROVE  LegalOptions(Options({o}), priority) /\ Options({o}).items = {o}
<1>1. Options({o}).kind = "set" /\ Options({o}).items = {o}
  BY DEF Options
<1>2. s.items \subseteq {priority[i] : i \in DOMAIN priority}
  BY OptionKinds
<1> QED
  BY <1>1, <1>2 DEF LegalOptions

\* NodeSpace.choose_value, for the capability of a platform
LEMMA ChoiceFact ==
  ASSUME NEW e, LegalSpace(e), NEW c \in Capabilities, NodeCheck(e, c), NEW x,
         x = [f \in AllFields \cup FeatureFields |-> Field("choose_value", f, e, c)],
         \A f \in AllFields : Field("choose_value", f, e, c) \notin {NotMeet, Error}
  PROVE  ChosenFrom(e, c, x)
<1>0. /\ CountFields \subseteq AllFields /\ SetFields \subseteq AllFields
      /\ "features" \in FeatureFields /\ "excluded_features" \in FeatureFields
  BY DEF AllFields, FeatureFields
<1>v. \A f \in AllFields \cup FeatureFields : x[f] = Field("choose_value", f, e, c)
  OBVIOUS
<1>c. LegalSpace(c) /\ (\A f \in SetFields : c[f] # NoSpace) /\ c["excluded_features"] \cap c["features"] = {}
  BY CapabilityAssumption
<1>1. \A f \in CountFields : Best(x[f], e[f], c[f])
  BY <1>0, <1>v, ChooseCount
<1>2. \A f \in SetFields : \E o : x[f] = Options({o}) /\ o \in c[f].items /\ (e[f] # NoSpace => o \in e[f].items)
  BY <1>0, <1>v, <1>c, ChooseOptionOf
<1>3. e["features"] \subseteq c["features"] /\ e["excluded_features"] \cap c["features"] = {}
  BY DEF NodeCheck
<1>4. x["features"] = c["features"]
  BY <1>0, <1>v, <1>3 DEF Field, FeatureField
<1>5. x["excluded_features"] \cap c["features"] = {}
  BY <1>0, <1>v, <1>c, <1>3 DEF Field, FeatureField
<1>6. LegalSpace(x)
  <2>1. x = [f \in CountFields \cup SetFields \cup FeatureFields |-> x[f]]
    BY DEF AllFields
  <2>2. \A f \in CountFields : LegalCount(x[f])
    <3>1. \A n \in 0..MaxSize : LegalCount(Number(n))
      BY KindFacts DEF LegalCount
    <3> QED
      BY <1>1, <3>1 DEF Best
  <2>3. ASSUME NEW f \in SetFields PROVE LegalOptions(x[f], Priority(f))
    <3>1. PICK o : x[f] = Options({o}) /\ o \in c[f].items
      BY <1>2
    <3>2. LegalOptions(c[f], Priority(f)) /\ c[f] # NoSpace
      BY <1>c, SpaceFact
    <3>3. LegalOptions(Options({o}), Priority(f))
      BY <3>1, <3>2, OneOption, SMTT(30)
    <3> QED
      BY <3>1, <3>3, Zenon
  <2> QED
    BY <2>1, <2>2, <2>3 DEF LegalSpace
<1> QED
  BY <1>1, <1>2, <1>4, <1>5, <1>6 DEF ChosenFrom

\* What is chosen within a requirement serves who the requirement serves.
LEMMA ChoiceServes ==
  ASSUME NEW r, LegalSpace(r), NEW e, LegalSpace(e), Within(r, e), NEW c \in Capabilities, NEW x,
         ChosenFrom(e, c, x), r["features"] \subseteq c["features"], r["excluded_features"] \cap c["features"] = {}
  PROVE  Serves(r, x)
<1>c. ~Allows(c["core_count"], 0) /\ c["data_disk_count"] = AnyNumber
  BY CapabilityAssumption
<1>0. "core_count" \in CountFields /\ "data_disk_count" \in CountFields /\ CountFields \cup SetFields = AllFields
  BY DEF CountFields, AllFields
<1>1. \A f \in CountFields : Best(x[f], e[f], c[f])
  BY DEF ChosenFrom
<1>2. ~Falsy(x["core_count"])
  <2>1. PICK n \in 0..MaxSize : x["core_count"] = Number(n) /\ Allows(c["core_count"], n)
    BY <1>0, <1>1 DEF Best
  <2>2. n # 0 /\ LegalCount(x["core_count"])
    BY <1>c, <1>0, <2>1, SpaceFact DEF ChosenFrom
  <2> QED
    BY <2>1, <2>2, FalsyFact, KindFacts, Exceptions
<1>3. \A f \in AllFields : x[f] # NoSpace
  <2>1. \A f \in CountFields : x[f] # NoSpace
    BY <1>1, Exceptions DEF Best
  <2>2. \A f \in SetFields : x[f] # NoSpace
    BY Exceptions DEF ChosenFrom
  <2> QED
    BY <1>0, <2>1, <2>2
<1>4. ASSUME NEW f \in CountFields \ Unchecked, r[f] # NoSpace
      PROVE  \E n \in 0..MaxSize : Allows(r[f], n) /\ Allows(x[f], n)
  <2>1. PICK n \in 0..MaxSize : x[f] = Number(n) /\ Allows(e[f], n) /\ Allows(c[f], n) /\ Least(n, e[f], c[f])
    BY <1>1 DEF Best
  <2>2. e[f] # NoSpace /\ Allows(x[f], n)
    BY <1>0, <1>4, <2>1, KindFacts DEF Within
  <2>3. CASE \A m \in 0..MaxSize : Allows(e[f], m) => Allows(r[f], m)
    BY <2>1, <2>2, <2>3
  <2>4. CASE f = "data_disk_count" /\ e[f] = AnyNumber /\ Allows(r[f], 0)
    <3>1. n <= 0
      BY <1>c, <2>1, <2>4, AnyNumberFact, MaxSizeAssumption DEF Least
    <3>2. n = 0
      BY <2>1, <3>1
    <3> QED
      BY <2>2, <2>4, <3>2
  <2> QED
    BY <1>4, <2>2, <2>3, <2>4 DEF Within
<1>5. ASSUME NEW f \in SetFields \ Unchecked, r[f] # NoSpace PROVE r[f].items \cap x[f].items # {}
  <2>1. e[f] # NoSpace /\ e[f].items \subseteq r[f].items
    BY <1>0, <1>5 DEF Within
  <2>2. PICK o : x[f] = Options({o}) /\ o \in e[f].items
    BY <2>1, <1>5 DEF ChosenFrom
  <2>3. x[f].items = {o}
    BY <2>2 DEF Options
  <2> QED
    BY <2>1, <2>2, <2>3
<1>6. x["features"] = c["features"]
  BY DEF ChosenFrom
<1> QED
  BY <1>0, <1>2, <1>3, <1>4, <1>5, <1>6 DEF Serves

\* A choice passes the check against the capability it was made from.
LEMMA ChoiceWithinCapability ==
  ASSUME NEW e, NEW c \in Capabilities, NEW x, ChosenFrom(e, c, x)
  PROVE  NodeCheck(x, c)
<1>c. /\ LegalSpace(c) /\ ~Allows(c["core_count"], 0) /\ \A f \in CountFields \cup SetFields : c[f] # NoSpace
  BY CapabilityAssumption
<1>0. "core_count" \in CountFields /\ CountFields \cup SetFields = AllFields
  BY DEF CountFields, AllFields
<1>1. ~Falsy(c["core_count"])
  BY <1>c, <1>0, SpaceFact, FalsyFact, KindFacts
<1>2. ASSUME NEW f \in CountFields \ Unchecked PROVE \E n \in 0..MaxSize : Allows(x[f], n) /\ Allows(c[f], n)
  BY KindFacts DEF ChosenFrom, Best
<1>3. ASSUME NEW f \in SetFields \ Unchecked PROVE x[f].items \cap c[f].items # {}
  <2>1. PICK o : x[f] = Options({o}) /\ o \in c[f].items
    BY <1>3 DEF ChosenFrom
  <2>2. x[f].items = {o}
    BY <2>1 DEF Options
  <2> QED
    BY <2>1, <2>2
<1>4. Serves(x, c)
  BY <1>c, <1>0, <1>1, <1>2, <1>3 DEF Serves, ChosenFrom
<1> QED
  BY <1>c, <1>4, ServesMeansCheck DEF ChosenFrom

-----------------------------------------------------------------------------
(* The nodes *)

\* The node y that is created from the choice x: a disk field that is zero is left open.
NodeOf(x, y) ==
  /\ LegalSpace(y)
  /\ \A f \in CountFields :
       y[f] = x[f] \/ (f \in {"data_disk_count", "data_disk_size"} /\ x[f] = Number(0) /\ y[f] = AnyNumber)
  /\ \A f \in SetFields : y[f] = x[f]
  /\ y["features"] = x["features"]

\* NodeSpace.choose_value of a choice, within the choice
LEMMA NodeFact ==
  ASSUME NEW x, LegalSpace(x), NEW y,
         \A f \in CountFields : \E n \in 0..MaxSize : x[f] = Number(n),
         \A f \in SetFields : \E o : x[f] = Options({o}),
         y = [f \in AllFields \cup FeatureFields |-> Field("choose_value", f, x, x)],
         \A f \in AllFields : Field("choose_value", f, x, x) \notin {NotMeet, Error}
  PROVE  NodeOf(x, y)
<1>0. /\ CountFields \subseteq AllFields /\ SetFields \subseteq AllFields
      /\ "features" \in FeatureFields /\ "excluded_features" \in FeatureFields
  BY DEF AllFields, FeatureFields
<1>v. \A f \in AllFields \cup FeatureFields : y[f] = Field("choose_value", f, x, x)
  OBVIOUS
<1>1. ASSUME NEW f \in CountFields
      PROVE  y[f] = x[f] \/ (f \in {"data_disk_count", "data_disk_size"} /\ x[f] = Number(0) /\ y[f] = AnyNumber)
  <2>1. PICK n \in 0..MaxSize : x[f] = Number(n)
    OBVIOUS
  <2>2. f \in AllFields /\ f \notin FeatureFields /\ LegalCount(x[f]) /\ x[f] # NoSpace
    BY <2>1, SpaceFact, Exceptions
  <2>3. Has(x, PartOf(f))
    BY <2>2, PartFact DEF Has
  <2>4. y[f] = CountField("choose_value", f, x[f], x[f]) /\ y[f] \notin {NotMeet, Error}
    BY <1>v, <2>2, <2>3 DEF Field, PartField, Wanted
  <2>5. CASE Falsy(x[f]) /\ f # "max_nic_count"
    <3>1. x[f] = Number(0) /\ y[f] = Unset(f)
      BY <2>2, <2>4, <2>5, FalsyFact DEF CountField
    <3> QED
      BY <2>4, <3>1 DEF Unset
  <2>6. CASE ~(Falsy(x[f]) /\ f # "max_nic_count")
    <3>1. y[f] = ChooseValueCountspace(x[f], x[f])
      BY <2>4, <2>6 DEF CountField
    <3>2. Best(y[f], x[f], x[f])
      BY <2>2, <2>4, <3>1, ChooseFact
    <3>3. PICK m \in 0..MaxSize : y[f] = Number(m) /\ Allows(x[f], m)
      BY <3>2 DEF Best
    <3>4. m = n
      BY <2>1, <3>3, KindFacts
    <3> QED
      BY <2>1, <3>3, <3>4
  <2> QED
    BY <2>5, <2>6
<1>2. ASSUME NEW f \in SetFields PROVE y[f] = x[f]
  <2>1. PICK o : x[f] = Options({o})
    OBVIOUS
  <2>2. x[f] # NoSpace /\ x[f].items = {o}
    <3>1. Options({o}).items = {o}
      BY DEF Options
    <3> QED
      BY <2>1, <3>1, Exceptions
  <2>3. PICK p : y[f] = Options({p}) /\ p \in x[f].items
    BY <1>0, <1>v, <2>2, ChooseOptionOf
  <2> QED
    BY <2>1, <2>2, <2>3
<1>3. y["features"] = x["features"]
  BY <1>0, <1>v DEF Field, FeatureField
<1>4. LegalSpace(y)
  <2>1. y = [f \in CountFields \cup SetFields \cup FeatureFields |-> y[f]]
    BY DEF AllFields
  <2>2. \A f \in CountFields : LegalCount(y[f])
    BY <1>1, SpaceFact, AnyNumberFact
  <2>3. \A f \in SetFields : LegalOptions(y[f], Priority(f))
    BY <1>2, SpaceFact
  <2> QED
    BY <2>1, <2>2, <2>3 DEF LegalSpace
<1> QED
  BY <1>1, <1>2, <1>3, <1>4 DEF NodeOf

\* A node serves who the choice serves.
LEMMA NodeServes ==
  ASSUME NEW r, NEW x, NEW y, Serves(r, x), NodeOf(x, y)
  PROVE  Serves(r, y)
<1>0. "core_count" \in CountFields /\ CountFields \cup SetFields = AllFields
  BY DEF CountFields, AllFields
<1>1. y["core_count"] = x["core_count"]
  BY <1>0 DEF NodeOf
<1>2. \A f \in AllFields : x[f] # NoSpace => y[f] # NoSpace
  BY <1>0, AnyNumberFact DEF NodeOf
<1>3. ASSUME NEW f \in CountFields, NEW n \in 0..MaxSize, Allows(x[f], n) PROVE Allows(y[f], n)
  BY <1>3, KindFacts, AnyNumberFact DEF NodeOf
<1> QED
  BY <1>0, <1>1, <1>2, <1>3 DEF Serves, NodeOf

-----------------------------------------------------------------------------
(* The inductive invariant *)

Inputs == test \in TestRequirements /\ platform \in PlatformRequirements /\ capability \in Capabilities

\* e is what _merge_test_requirements makes of the test case and the runbook: within both, with
\* the features, wanted and excluded, of both.
Merged(e) ==
  /\ LegalRequirement(e) /\ test.nodes <= e.nodes
  /\ Within(test.space, e.space) /\ ~Falsy(e.space["core_count"])
  /\ test.space["features"] \subseteq e.space["features"]
  /\ test.space["excluded_features"] \subseteq e.space["excluded_features"]
  /\ test.space["excluded_features"] \cap e.space["features"] = {}
  /\ platform = NoSpace => e = test
  /\ platform # NoSpace =>
       /\ Within(platform.space, e.space)
       /\ platform.space["features"] \subseteq e.space["features"]
       /\ platform.space["excluded_features"] \subseteq e.space["excluded_features"]

\* The choice was made from a merged requirement that passed the check.
Prepared ==
  \E e : /\ Merged(e) /\ NodeCheck(e.space, capability)
         /\ ChosenFrom(e.space, capability, chosen.space)
         /\ chosen = [nodes |-> e.nodes, space |-> chosen.space]

RInv ==
  /\ Inputs
  /\ stage = "selected" => environment = test
  /\ stage = "merged" => Merged(environment)
  /\ stage \in {"prepared", "deployed"} => Prepared
  /\ stage = "prepared" => environment = chosen
  /\ stage = "deployed" => environment.nodes = chosen.nodes /\ NodeOf(chosen.space, environment.space)

\* A test case without a runbook requirement is its own merged requirement.
LEMMA MergedAlone ==
  ASSUME Inputs, platform = NoSpace
  PROVE  Merged(test)
<1>1. LegalRequirement(test) /\ NodeCheck(test.space, test.space)
  BY RequirementAssumption DEF Inputs
<1>2. LegalSpace(test.space) /\ test.nodes \in Nat
  BY <1>1 DEF LegalRequirement
<1>3. Within(test.space, test.space)
  <2>1. ASSUME NEW f \in SetFields \ Unchecked, Has(test.space, PartOf(f)) PROVE test.space[f] # NoSpace
    <3>1. f \in AllFields /\ LegalOptions(test.space[f], Priority(f)) /\ f \notin CountFields
      BY <1>2, SpaceFact
    <3>2. FieldCheck(f, test.space, test.space)
      BY <1>1, <2>1, <3>1, PartFact DEF NodeCheck, Parts
    <3>3. CheckSetspace(test.space[f], test.space[f])
      BY <3>1, <3>2 DEF FieldCheck
    <3> QED
      BY <3>1, <3>3, OptionKinds DEF CheckSetspace
  <2> QED
    BY <2>1 DEF Within
<1> QED
  BY <1>1, <1>2, <1>3 DEF Merged, NodeCheck

\* The requirement of the runbook with the features of the test case added
LEMMA JoinFact ==
  ASSUME LegalSpace(test.space), LegalSpace(platform.space)
  PROVE  LET t == test.space
             p == platform.space
             j == JoinTest(platform.space)
         IN  /\ LegalSpace(j) /\ \A f \in AllFields : j[f] = p[f]
             /\ j["features"] = p["features"] \cup t["features"]
             /\ j["excluded_features"] = p["excluded_features"] \cup t["excluded_features"]
<1> DEFINE t == test.space
           p == platform.space
           j == JoinTest(platform.space)
<1>1. DOMAIN p = AllFields \cup FeatureFields
  BY SpaceFact
<1>2. "features" \in DOMAIN p /\ "excluded_features" \in DOMAIN p /\ "features" # "excluded_features"
  BY <1>1 DEF FeatureFields
<1>3. \A f \in AllFields : f # "features" /\ f # "excluded_features"
  BY DEF AllFields, CountFields, SetFields
<1>4. DOMAIN j = DOMAIN p /\ j = [f \in DOMAIN p |-> j[f]]
  BY <1>1 DEF JoinTest, LegalSpace
<1>5. /\ \A f \in AllFields : j[f] = p[f]
      /\ j["features"] = p["features"] \cup t["features"]
      /\ j["excluded_features"] = p["excluded_features"] \cup t["excluded_features"]
  BY <1>1, <1>2, <1>3 DEF JoinTest
<1>6. LegalSpace(p)
  OBVIOUS
<1> HIDE DEF j, p, t
<1>7. LegalSpace(j)
  BY <1>1, <1>4, <1>5, <1>6 DEF LegalSpace, AllFields
<1> QED
  BY <1>5, <1>7 DEF j, p, t

\* _merge_test_requirements with a runbook requirement
LEMMA MergedBoth ==
  ASSUME Inputs, platform # NoSpace, NEW x, x = NodeMethod("intersect", test.space, JoinTest(platform.space)),
         x \notin {NotMeet, Error}
  PROVE  Merged([nodes |-> Larger(test.nodes, platform.nodes), space |-> x])
<1> DEFINE t == test.space
           p == platform.space
           j == JoinTest(platform.space)
           e == [nodes |-> Larger(test.nodes, platform.nodes), space |-> x]
<1>1. /\ LegalRequirement(test) /\ NodeCheck(t, t) /\ LegalRequirement(platform)
      /\ test.nodes \in Nat /\ platform.nodes \in Nat /\ LegalSpace(t) /\ LegalSpace(p)
  BY RequirementAssumption DEF Inputs, LegalRequirement
<1>2. /\ LegalSpace(j) /\ \A f \in AllFields : j[f] = p[f]
      /\ j["features"] = p["features"] \cup t["features"]
      /\ j["excluded_features"] = p["excluded_features"] \cup t["excluded_features"]
  BY <1>1, JoinFact
<1>3. /\ NodeCheck(t, j) /\ x = [f \in AllFields \cup FeatureFields |-> Field("intersect", f, t, j)]
      /\ \A f \in AllFields : Field("intersect", f, t, j) \notin {NotMeet, Error}
  BY <1>1, MethodFact
<1> HIDE DEF j
<1>4. /\ LegalSpace(x) /\ Within(t, x) /\ Within(j, x)
      /\ ~Falsy(t["core_count"]) /\ ~Falsy(j["core_count"]) => ~Falsy(x["core_count"])
      /\ x["features"] = j["features"] /\ x["excluded_features"] = j["excluded_features"]
  BY <1>1, <1>2, <1>3, MergeFact
<1>5. ~Falsy(x["core_count"]) /\ t["excluded_features"] \cap j["features"] = {}
  BY <1>1, <1>3, <1>4 DEF NodeCheck
<1>6. Within(p, x)
  <2>1. \A f \in AllFields : Has(j, PartOf(f)) <=> Has(p, PartOf(f))
    BY <1>2, PartFact, PartFields DEF Has
  <2>2. CountFields \subseteq AllFields /\ SetFields \subseteq AllFields
    BY DEF AllFields
  <2> HIDE DEF p
  <2> QED
    BY <1>2, <1>4, <2>1, <2>2 DEF Within
<1>7. LegalRequirement(e) /\ test.nodes <= e.nodes /\ e.space = x
  BY <1>1, <1>4 DEF LegalRequirement, Larger
<1> QED
  BY <1>2, <1>4, <1>5, <1>6, <1>7 DEF Merged

\* A test case that was selected has no environment yet but its own requirement.
LEMMA InitialRequirement == Init => RInv
  BY DEF Init, RInv, Inputs

\* _merge_test_requirements
LEMMA MergeStep == RInv /\ MergeTestRequirements => RInv'
<1> SUFFICES ASSUME RInv, MergeTestRequirements PROVE RInv'
  OBVIOUS
<1>0. Inputs /\ Inputs' /\ stage = "selected" /\ environment = test
      /\ test' = test /\ platform' = platform /\ capability' = capability
  BY DEF RInv, MergeTestRequirements, Inputs
<1>1. CASE stage' = "merged" /\ Merged(environment')
  <2>1. Merged(environment)'
    BY <1>0, <1>1 DEF Merged
  <2> QED
    BY <1>0, <1>1, <2>1 DEF RInv
<1>2. CASE stage' \in {"skipped", "aborted", "failed"}
  BY <1>0, <1>2 DEF RInv
<1>3. CASE platform = NoSpace
  <2>1. stage' = "merged" /\ environment' = test
    BY <1>0, <1>3 DEF MergeTestRequirements
  <2> QED
    BY <1>0, <1>1, <1>3, <2>1, MergedAlone
<1>4. CASE platform # NoSpace
  <2> DEFINE x == NodeMethod("intersect", test.space, JoinTest(platform.space))
  <2>1. CASE x \in {NotMeet, Error}
    <3>1. stage' \in {"skipped", "aborted", "failed"}
      BY <1>4, <2>1 DEF MergeTestRequirements, Refused
    <3> QED
      BY <1>2, <3>1
  <2>2. CASE x \notin {NotMeet, Error}
    <3>1. stage' = "merged" /\ environment' = [nodes |-> Larger(test.nodes, platform.nodes), space |-> x]
      BY <1>4, <2>2 DEF MergeTestRequirements
    <3>2. Merged([nodes |-> Larger(test.nodes, platform.nodes), space |-> x])
      BY <1>0, <1>4, <2>2, MergedBoth
    <3> QED
      BY <1>1, <3>1, <3>2
  <2> QED
    BY <2>1, <2>2
<1> QED
  BY <1>3, <1>4

\* _prepare_environment
LEMMA PrepareStep == RInv /\ PrepareEnvironment => RInv'
<1> SUFFICES ASSUME RInv, PrepareEnvironment PROVE RInv'
  OBVIOUS
<1>0. Inputs /\ Inputs' /\ stage = "merged" /\ Merged(environment)
      /\ test' = test /\ platform' = platform /\ capability' = capability
  BY DEF RInv, PrepareEnvironment, Inputs
<1> DEFINE x == NodeMethod("choose_value", environment.space, capability)
<1>1. CASE x \in {NotMeet, Error}
  <2>1. stage' \in {"skipped", "aborted", "failed"}
    BY <1>1 DEF PrepareEnvironment, Refused
  <2> QED
    BY <1>0, <2>1 DEF RInv
<1>2. CASE x \notin {NotMeet, Error}
  <2>1. /\ environment = [nodes |-> environment.nodes, space |-> environment.space]
        /\ LegalSpace(environment.space) /\ capability \in Capabilities
    BY <1>0 DEF Merged, LegalRequirement, Inputs
  <2>2. /\ NodeCheck(environment.space, capability)
        /\ x = [f \in AllFields \cup FeatureFields |-> Field("choose_value", f, environment.space, capability)]
        /\ \A f \in AllFields : Field("choose_value", f, environment.space, capability) \notin {NotMeet, Error}
    BY <1>2, <2>1, MethodFact
  <2>3. stage' = "prepared" /\ environment' = [environment EXCEPT !.space = x] /\ chosen' = environment'
    BY <1>2 DEF PrepareEnvironment
  <2> HIDE DEF x
  <2>4. ChosenFrom(environment.space, capability, x)
    BY <2>1, <2>2, ChoiceFact
  <2>5. chosen' = [nodes |-> environment.nodes, space |-> x]
    BY <2>1, <2>3
  <2>6. chosen'.space = x
    BY <2>5
  <2>7. Prepared'
    <3>1. \A e : Merged(e) => Merged(e)'
      BY <1>0 DEF Merged
    <3> QED
      BY <1>0, <2>2, <2>4, <2>5, <2>6, <3>1 DEF Prepared
  <2> QED
    BY <1>0, <2>3, <2>7 DEF RInv
<1> QED
  BY <1>1, <1>2

\* create_node_from_requirement
LEMMA CreateStep == RInv /\ CreateNodes => RInv'
<1> SUFFICES ASSUME RInv, CreateNodes PROVE RInv'
  OBVIOUS
<1>0. Inputs /\ Inputs' /\ stage = "prepared" /\ Prepared /\ environment = chosen
      /\ test' = test /\ platform' = platform /\ capability' = capability /\ chosen' = chosen
  BY DEF RInv, CreateNodes, Inputs
<1> DEFINE x == chosen.space
           y == NodeMethod("choose_value", x, x)
<1>1. CASE y \in {NotMeet, Error}
  <2>1. stage' \in {"skipped", "aborted", "failed"}
    BY <1>1 DEF CreateNodes, Refused
  <2> QED
    BY <1>0, <2>1 DEF RInv
<1>2. CASE y \notin {NotMeet, Error}
  <2>1. PICK e : /\ Merged(e) /\ ChosenFrom(e.space, capability, x)
                 /\ chosen = [nodes |-> e.nodes, space |-> x]
    BY <1>0 DEF Prepared
  <2>2. /\ LegalSpace(x)
        /\ \A f \in CountFields : \E n \in 0..MaxSize : x[f] = Number(n)
        /\ \A f \in SetFields : \E o : x[f] = Options({o})
    BY <2>1 DEF ChosenFrom, Best
  <2>3. stage' = "deployed" /\ environment' = [environment EXCEPT !.space = y]
    BY <1>2 DEF CreateNodes
  <2>4. environment'.nodes = chosen.nodes /\ environment'.space = y
    BY <1>0, <2>1, <2>3
  <2>5. /\ y = [f \in AllFields \cup FeatureFields |-> Field("choose_value", f, x, x)]
        /\ \A f \in AllFields : Field("choose_value", f, x, x) \notin {NotMeet, Error}
    BY <1>2, <2>2, MethodFact
  <2>6. NodeOf(x, y)
    <3> HIDE DEF x, y
    <3> QED
      BY <2>2, <2>5, NodeFact
  <2>7. Prepared'
    <3>1. \A z : Merged(z) => Merged(z)'
      BY <1>0 DEF Merged
    <3> QED
      BY <1>0, <3>1 DEF Prepared
  <2> QED
    BY <1>0, <2>3, <2>4, <2>6, <2>7 DEF RInv
<1> QED
  BY <1>1, <1>2

\* However far the environment of a test case is, it is made from a requirement within those
\* of the test case and the runbook.
THEOREM RequirementInvariance == Spec => []RInv
<1>1. ASSUME RInv, UNCHANGED vars PROVE RInv'
  <2>1. /\ stage' = stage /\ test' = test /\ platform' = platform /\ capability' = capability
        /\ environment' = environment /\ chosen' = chosen
    BY <1>1 DEF vars
  <2> QED
    BY <1>1, <2>1 DEF RInv, Inputs, Merged, Prepared
<1>2. RInv /\ [Next]_vars => RInv'
  BY <1>1, MergeStep, PrepareStep, CreateStep DEF Next, Done
<1> QED
  BY InitialRequirement, <1>2, PTL DEF Spec

-----------------------------------------------------------------------------
(* Theorems *)

\* check_countspace, for the spaces a test case is checked against: it passes exactly when a
\* number is allowed by both.
THEOREM CheckOverlaps == Spec => []CheckIsOverlap
<1>1. ASSUME RInv PROVE CheckIsOverlap
  <2> SUFFICES ASSUME NEW f \in CountFields
               PROVE  LET req == test.space[f]
                          cap == IF platform = NoSpace THEN capability[f] ELSE platform.space[f]
                      IN  CheckCountspace(req, cap) =
                            (req = NoSpace \/ (cap # NoSpace /\ \E n \in Numbers : Allows(req, n) /\ Allows(cap, n)))
    BY DEF CheckIsOverlap
  <2> DEFINE req == test.space[f]
             cap == IF platform = NoSpace THEN capability[f] ELSE platform.space[f]
  <2>1. LegalCount(req)
    BY <1>1, RequirementAssumption, SpaceFact DEF RInv, Inputs, LegalRequirement
  <2>2. LegalCount(cap)
    <3>1. LegalCount(capability[f])
      BY <1>1, CapabilityAssumption, SpaceFact DEF RInv, Inputs
    <3>2. platform # NoSpace => LegalCount(platform.space[f])
      BY <1>1, RequirementAssumption, SpaceFact DEF RInv, Inputs, LegalRequirement
    <3> QED
      BY <3>1, <3>2
  <2>3. CheckCountspace(req, cap) \in BOOLEAN
    BY DEF CheckCountspace
  <2> HIDE DEF req, cap
  <2>4. CheckCountspace(req, cap) <=>
          req = NoSpace \/ (cap # NoSpace /\ \E n \in Numbers : Allows(req, n) /\ Allows(cap, n))
    BY <2>1, <2>2, CheckOfCounts DEF Numbers
  <2>5. CheckCountspace(req, cap) =
          (req = NoSpace \/ (cap # NoSpace /\ \E n \in Numbers : Allows(req, n) /\ Allows(cap, n)))
    BY <2>3, <2>4
  <2> QED
    BY <2>5 DEF req, cap
<1> QED
  BY <1>1, RequirementInvariance, PTL

\* choose_value_countspace chooses the least number that the test case and the capability
\* allow, or the largest for a range that asks for it, lists of ranges included.
THEOREM ChoosesBest == Spec => []ChosenIsBest
<1>1. ASSUME RInv PROVE ChosenIsBest
  <2> SUFFICES ASSUME stage = "prepared", platform = NoSpace, NEW f \in CountFields
               PROVE  LET req == test.space[f]
                          cap == capability[f]
                          both == {n \in Numbers : Allows(req, n) /\ Allows(cap, n)}
                          n == chosen.space[f].value
                      IN  /\ ~ChoosesMax(req) /\ ~ChoosesMax(cap) /\ cap # NoSpace => n = Min(both)
                          /\ ChoosesMax(req) /\ req.kind = "range" => n = Max(both)
    BY DEF ChosenIsBest
  <2> DEFINE req == test.space[f]
             cap == capability[f]
             both == {m \in Numbers : Allows(req, m) /\ Allows(cap, m)}
  <2>1. Best(chosen.space[f], req, cap)
    BY <1>1 DEF RInv, Prepared, Merged, ChosenFrom
  <2> HIDE DEF req, cap
  <2>2. PICK n \in 0..MaxSize :
          /\ chosen.space[f] = Number(n) /\ Allows(req, n) /\ Allows(cap, n) /\ Least(n, req, cap)
          /\ req.kind = "range" /\ ChoosesMax(req) =>
               \A m \in 0..MaxSize : Allows(req, m) /\ Allows(cap, m) => m <= n
    BY <2>1 DEF Best
  <2>3. n \in both /\ both \in SUBSET (0..MaxSize) /\ both \in SUBSET Nat /\ chosen.space[f].value = n
    BY <2>2, KindFacts, MaxSizeAssumption DEF Numbers
  <2>4. ASSUME ~ChoosesMax(req), ~ChoosesMax(cap) PROVE n = Min(both)
    <3>1. \A m \in both : n <= m
      BY <2>2, <2>4 DEF Least, Numbers
    <3> HIDE DEF both
    <3>2. Min(both) \in both /\ Min(both) <= n
      BY <2>3, MinFact
    <3>3. n <= Min(both) /\ Min(both) \in Nat
      BY <2>3, <3>1, <3>2
    <3> QED
      BY <3>2, <3>3
  <2>5. ASSUME ChoosesMax(req), req.kind = "range" PROVE n = Max(both)
    <3>1. \A m \in both : m <= n
      BY <2>2, <2>5 DEF Numbers
    <3> HIDE DEF both
    <3>2. Max(both) \in both /\ n <= Max(both)
      BY <2>3, MaxFact
    <3>3. Max(both) <= n /\ Max(both) \in Nat
      BY <2>3, <3>1, <3>2
    <3> QED
      BY <3>2, <3>3
  <2> QED
    BY <2>3, <2>4, <2>5 DEF req, cap
<1> QED
  BY <1>1, RequirementInvariance, PTL

\* A choice made from a merged requirement serves the test case and the runbook.
LEMMA PreparedServes ==
  ASSUME Inputs, Prepared
  PROVE  /\ LegalSpace(test.space) /\ Serves(test.space, chosen.space)
         /\ test.nodes <= chosen.nodes /\ LegalSpace(chosen.space) /\ NodeCheck(chosen.space, capability)
         /\ \A f \in CountFields : chosen.space[f].kind = "int"
         /\ platform # NoSpace => LegalSpace(platform.space) /\ Serves(platform.space, chosen.space)
<1>1. PICK e : /\ Merged(e) /\ NodeCheck(e.space, capability)
               /\ ChosenFrom(e.space, capability, chosen.space)
               /\ chosen = [nodes |-> e.nodes, space |-> chosen.space]
  BY DEF Prepared
<1>2. /\ capability \in Capabilities /\ LegalSpace(test.space) /\ LegalSpace(e.space)
      /\ platform # NoSpace => LegalSpace(platform.space)
  BY <1>1, RequirementAssumption DEF Inputs, Merged, LegalRequirement
<1>3. e.space["features"] \subseteq capability["features"] /\ e.space["excluded_features"] \cap capability["features"] = {}
  BY <1>1 DEF NodeCheck
<1>4. Serves(test.space, chosen.space)
  <2>1. /\ Within(test.space, e.space) /\ test.space["features"] \subseteq capability["features"]
        /\ test.space["excluded_features"] \cap capability["features"] = {}
    BY <1>1, <1>3 DEF Merged
  <2> QED
    BY <1>1, <1>2, <2>1, ChoiceServes
<1>5. platform # NoSpace => Serves(platform.space, chosen.space)
  <2>1. platform # NoSpace =>
          /\ Within(platform.space, e.space) /\ platform.space["features"] \subseteq capability["features"]
          /\ platform.space["excluded_features"] \cap capability["features"] = {}
    BY <1>1, <1>3 DEF Merged
  <2> QED
    BY <1>1, <1>2, <2>1, ChoiceServes
<1>6. NodeCheck(chosen.space, capability) /\ LegalSpace(chosen.space)
  BY <1>1, <1>2, ChoiceWithinCapability DEF ChosenFrom
<1>7. \A f \in CountFields : chosen.space[f].kind = "int"
  BY <1>1, KindFacts DEF ChosenFrom, Best
<1>8. test.nodes <= chosen.nodes
  <2>1. chosen.nodes = e.nodes
    BY <1>1
  <2> QED
    BY <1>1, <2>1 DEF Merged
<1> QED
  BY <1>2, <1>4, <1>5, <1>6, <1>7, <1>8

\* A test case is never skipped on the environment made for it: it passes the scheduler's
\* check against its merged requirement, the platform's choice and the nodes.
THEOREM ServesItsTest == Spec => []EnvironmentServesItsTest
<1>1. ASSUME RInv PROVE EnvironmentServesItsTest
  <2>0. Inputs
    BY <1>1 DEF RInv
  <2>1. ASSUME stage = "merged" PROVE EnvironmentCheck(test, environment)
    <3>1. Merged(environment)
      BY <1>1, <2>1 DEF RInv
    <3>2. LegalSpace(test.space) /\ LegalSpace(environment.space)
      BY <2>0, <3>1, RequirementAssumption DEF Inputs, Merged, LegalRequirement
    <3>3. Serves(test.space, environment.space)
      BY <3>1, <3>2, WithinServes DEF Merged
    <3> QED
      BY <3>1, <3>2, <3>3, ServesMeansCheck DEF EnvironmentCheck, Merged
  <2>2. ASSUME stage = "prepared" PROVE EnvironmentCheck(test, environment)
    <3>1. Prepared /\ environment = chosen
      BY <1>1, <2>2 DEF RInv
    <3> QED
      BY <2>0, <3>1, PreparedServes, ServesMeansCheck DEF EnvironmentCheck
  <2>3. ASSUME stage = "deployed" PROVE EnvironmentCheck(test, environment)
    <3>1. Prepared /\ environment.nodes = chosen.nodes /\ NodeOf(chosen.space, environment.space)
      BY <1>1, <2>3 DEF RInv
    <3>2. LegalSpace(test.space) /\ Serves(test.space, chosen.space) /\ test.nodes <= chosen.nodes
      BY <2>0, <3>1, PreparedServes
    <3>3. Serves(test.space, environment.space) /\ LegalSpace(environment.space)
      BY <3>1, <3>2, NodeServes DEF NodeOf
    <3> QED
      BY <3>1, <3>2, <3>3, ServesMeansCheck DEF EnvironmentCheck
  <2> QED
    BY <2>1, <2>2, <2>3 DEF EnvironmentServesItsTest
<1> QED
  BY <1>1, RequirementInvariance, PTL

\* The platform chooses one number for each count, within its capability, and the runbook's
\* requirement passes the check against the choice.
THEOREM MeetsPlatform == Spec => []ChoiceMeetsPlatform
<1>1. ASSUME RInv PROVE ChoiceMeetsPlatform
  <2> SUFFICES ASSUME stage \in {"prepared", "deployed"}
               PROVE  /\ \A f \in CountFields : chosen.space[f].kind = "int"
                      /\ NodeCheck(chosen.space, capability)
                      /\ platform # NoSpace => NodeCheck(platform.space, chosen.space)
    BY DEF ChoiceMeetsPlatform
  <2>1. Inputs /\ Prepared
    BY <1>1 DEF RInv
  <2> QED
    BY <2>1, PreparedServes, ServesMeansCheck
<1> QED
  BY <1>1, RequirementInvariance, PTL

-----------------------------------------------------------------------------
(* Why a requirement is refused *)

\* The space starts below sys.maxsize.
Open(s) ==
  /\ s.kind = "int" => s.value < MaxSize
  /\ s.kind = "range" => s.range.min < MaxSize
  /\ OpenLists(s)

\* Both spaces allow a number below sys.maxsize, and the largest is not asked for where
\* they have no bound.
Choosable(s, t) ==
  /\ \E n \in 0..MaxSize : n # MaxSize /\ Allows(s, n) /\ Allows(t, n)
  /\ Allows(s, MaxSize) /\ Allows(t, MaxSize) => ~ChoosesMax(s) /\ ~ChoosesMax(t)

\* A space with a number below sys.maxsize starts below it.
LEMMA OpenFact ==
  ASSUME NEW s, LegalCount(s), OpenLists(s), NEW n \in 0..MaxSize, n # MaxSize, Allows(s, n)
  PROVE  Open(s)
<1>0. n < MaxSize /\ n \in Int
  BY MaxSizeAssumption
<1>1. CASE \E r : LegalRange(r) /\ s = InRange(r)
  <2>1. PICK r : LegalRange(r) /\ s = InRange(r)
    BY <1>1
  <2>2. r.min <= n /\ r.min \in 0..MaxSize
    BY <2>1, KindFacts, LegalRangeFact DEF InRangeOf
  <2>3. r.min < MaxSize
    BY <1>0, <2>2, MaxSizeAssumption
  <2> QED
    BY <2>1, <2>3, KindFacts DEF Open
<1> QED
  BY <1>0, <1>1, CountKinds, KindFacts DEF Open

\* IntRange._choose_value of two ranges that start below sys.maxsize is below it, unless the
\* largest of unbounded ranges is asked for.
LEMMA BelowMax ==
  ASSUME NEW r, LegalRange(r), NEW c, LegalRange(c), RangeCheck(r, c), r.min < MaxSize, c.min < MaxSize,
         InRangeOf(MaxSize, r) /\ InRangeOf(MaxSize, c) => ~r.choose_max_value /\ ~c.choose_max_value
  PROVE  RangeChoose(r, c) # MaxSize
<1> SUFFICES ASSUME RangeChoose(r, c) = MaxSize PROVE FALSE
  OBVIOUS
<1>1. ~r.choose_max_value /\ ~c.choose_max_value
  BY ChooseRange
<1> QED
  BY <1>1, LegalRangeFact, MaxSizeAssumption DEF RangeChoose, Larger

\* IntRange.choose_value gives a number then.
LEMMA RangeGives ==
  ASSUME NEW r, LegalRange(r), r.min < MaxSize, NEW cap, LegalCount(cap), cap # NoSpace, Open(cap),
         IntRangeCheck(r, cap),
         InRangeOf(MaxSize, r) /\ Allows(cap, MaxSize) => ~r.choose_max_value /\ ~ChoosesMax(cap)
  PROVE  IntRangeChoose(r, cap) # NotMeet
<1>1. CASE \E n \in 0..MaxSize : cap = Number(n)
  <2>1. PICK n \in 0..MaxSize : cap = Number(n)
    BY <1>1
  <2>2. IntRangeChoose(r, cap) = Bounded(n) /\ n < MaxSize
    BY <2>1, KindFacts DEF IntRangeChoose, Open
  <2> QED
    BY <2>2, Exceptions, MaxSizeAssumption DEF Bounded
<1>2. CASE \E c : LegalRange(c) /\ cap = InRange(c)
  <2>1. PICK c : LegalRange(c) /\ cap = InRange(c)
    BY <1>2
  <2>2. IntRangeChoose(r, cap) = Bounded(RangeChoose(r, c)) /\ RangeCheck(r, c) /\ c.min < MaxSize
    BY <2>1, KindFacts DEF IntRangeChoose, IntRangeCheck, Open
  <2>3. RangeChoose(r, c) # MaxSize
    BY <2>1, <2>2, BelowMax, KindFacts
  <2> QED
    BY <2>2, <2>3, Exceptions DEF Bounded
<1>3. CASE \E rs : rs # {} /\ (\A c \in rs : LegalRange(c)) /\ cap = OneOf(rs)
  <2>1. PICK rs : rs # {} /\ (\A c \in rs : LegalRange(c)) /\ cap = OneOf(rs)
    BY <1>3
  <2>2. /\ IntRangeChoose(r, cap) = ItemsChoose(r, rs) /\ \E c \in rs : RangeCheck(r, c)
        /\ \A c \in rs : c.min < MaxSize
    BY <2>1, KindFacts DEF IntRangeChoose, IntRangeCheck, Open, OpenLists
  <2>3. ASSUME NEW c \in rs, RangeCheck(r, c) PROVE RangeChoose(r, c) # MaxSize
    <3>1. InRangeOf(MaxSize, r) /\ InRangeOf(MaxSize, c) => ~r.choose_max_value /\ ~c.choose_max_value
      BY <2>1, KindFacts
    <3> QED
      BY <2>1, <2>2, <2>3, <3>1, BelowMax
  <2> QED
    BY <2>1, <2>2, <2>3, ChooseItems
<1> QED
  BY <1>1, <1>2, <1>3, CountKinds

\* So does the choice from a space that is a number, a range or a list.
LEMMA WantedGives ==
  ASSUME NEW w, LegalCount(w), w # NoSpace, Open(w), NEW cap, LegalCount(cap), cap # NoSpace, Open(cap),
         CheckCountspace(w, cap),
         Allows(w, MaxSize) /\ Allows(cap, MaxSize) => ~ChoosesMax(w) /\ ~ChoosesMax(cap)
  PROVE  /\ w.kind \in {"int", "range", "list"}
         /\ w.kind = "int" => w # NotMeet
         /\ w.kind = "range" => IntRangeChoose(w.range, cap) # NotMeet
         /\ w.kind = "list" => ListChoose(w.items, cap) # NotMeet
<1>1. CASE \E n \in 0..MaxSize : w = Number(n)
  BY <1>1, KindFacts, Exceptions
<1>2. CASE \E r : LegalRange(r) /\ w = InRange(r)
  <2>1. PICK r : LegalRange(r) /\ w = InRange(r)
    BY <1>2
  <2>2. w.kind = "range" /\ w.range = r /\ r.min < MaxSize /\ IntRangeCheck(r, cap)
    BY <2>1, KindFacts DEF Open, CheckCountspace
  <2>3. InRangeOf(MaxSize, r) /\ Allows(cap, MaxSize) => ~r.choose_max_value /\ ~ChoosesMax(cap)
    BY <2>1, KindFacts
  <2> QED
    BY <2>1, <2>2, <2>3, RangeGives
<1>3. CASE \E rs : rs # {} /\ (\A r \in rs : LegalRange(r)) /\ w = OneOf(rs)
  <2>1. PICK rs : rs # {} /\ (\A r \in rs : LegalRange(r)) /\ w = OneOf(rs)
    BY <1>3
  <2>2. w.kind = "list" /\ w.items = rs /\ \A r \in rs : r.min < MaxSize
    BY <2>1, KindFacts DEF Open, OpenLists
  <2>3. ASSUME NEW r \in rs, IntRangeCheck(r, cap) PROVE IntRangeChoose(r, cap) # NotMeet
    <3>1. InRangeOf(MaxSize, r) /\ Allows(cap, MaxSize) => ~r.choose_max_value /\ ~ChoosesMax(cap)
      BY <2>1, KindFacts
    <3> QED
      BY <2>1, <2>2, <2>3, <3>1, RangeGives
  <2>4. ListChoose(rs, cap) # NotMeet
    BY <2>3, Exceptions DEF ListChoose
  <2> QED
    BY <2>2, <2>4
<1> QED
  BY <1>1, <1>2, <1>3, CountKinds

\* choose_value_countspace refuses only what cannot be chosen.
LEMMA ChooseMeets ==
  ASSUME NEW req, LegalCount(req), NEW cap, LegalCount(cap), cap # NoSpace, OpenLists(req), OpenLists(cap),
         Choosable(req, cap)
  PROVE  CheckCountspace(req, cap) /\ ChooseValueCountspace(req, cap) # NotMeet
<1>1. PICK n \in 0..MaxSize : n # MaxSize /\ Allows(req, n) /\ Allows(cap, n)
  BY DEF Choosable
<1>2. CheckCountspace(req, cap)
  BY <1>1, CheckOfCounts
<1>3. Open(req) /\ Open(cap)
  BY <1>1, OpenFact
<1>4. CASE req = NoSpace
  <2>1. req.kind = "none" /\ ~ChoosesMax(req) /\ Allows(req, MaxSize)
    BY <1>4, KindFacts
  <2>2. CheckCountspace(cap, cap) /\ (Allows(cap, MaxSize) => ~ChoosesMax(cap))
    BY <2>1, SelfCheck DEF Choosable
  <2>3. /\ cap.kind \in {"int", "range", "list"}
        /\ cap.kind = "int" => cap # NotMeet
        /\ cap.kind = "range" => IntRangeChoose(cap.range, cap) # NotMeet
        /\ cap.kind = "list" => ListChoose(cap.items, cap) # NotMeet
    BY <1>3, <2>2, WantedGives
  <2> QED
    BY <1>2, <2>1, <2>3, Exceptions DEF ChooseValueCountspace
<1>5. CASE req # NoSpace
  <2>1. Allows(req, MaxSize) /\ Allows(cap, MaxSize) => ~ChoosesMax(req) /\ ~ChoosesMax(cap)
    BY DEF Choosable
  <2>2. /\ req.kind \in {"int", "range", "list"}
        /\ req.kind = "int" => req # NotMeet
        /\ req.kind = "range" => IntRangeChoose(req.range, cap) # NotMeet
        /\ req.kind = "list" => ListChoose(req.items, cap) # NotMeet
    BY <1>2, <1>3, <1>5, <2>1, WantedGives
  <2> QED
    BY <1>2, <2>2 DEF ChooseValueCountspace
<1> QED
  BY <1>4, <1>5

\* intersect_countspace refuses only spaces that do not pass the check.
LEMMA IntersectMeets ==
  ASSUME NEW req, LegalCount(req), NEW cap, LegalCount(cap), CheckCountspace(req, cap)
  PROVE  IntersectCountspace(req, cap) # NotMeet
<1>1. CASE req = NoSpace
  <2>1. CASE ~Falsy(cap)
    <3>1. IntersectCountspace(req, cap) = cap
      BY <1>1, <2>1, KindFacts DEF IntersectCountspace
    <3> QED
      BY <3>1, CountKinds, Exceptions
  <2>2. CASE Falsy(cap)
    <3>1. IntersectCountspace(req, cap) = Error
      BY <1>1, <2>2, KindFacts DEF IntersectCountspace
    <3> QED
      BY <3>1, Exceptions
  <2> QED
    BY <2>1, <2>2
<1>2. CASE \E n \in 0..MaxSize : req = Number(n)
  <2>1. IntersectCountspace(req, cap) = req
    BY <1>2, KindFacts DEF IntersectCountspace
  <2> QED
    BY <1>2, <2>1, Exceptions
<1>3. CASE \E r : LegalRange(r) /\ req = InRange(r)
  <2>1. PICK r : LegalRange(r) /\ req = InRange(r)
    BY <1>3
  <2>2. IntersectCountspace(req, cap) = IntRangeIntersect(r, cap) /\ IntRangeCheck(r, cap)
    BY <2>1, KindFacts DEF IntersectCountspace, CheckCountspace
  <2>3. \/ IntRangeIntersect(r, cap) = Error
        \/ IntRangeIntersect(r, cap) = cap
        \/ IntRangeIntersect(r, cap) = InRange(RangeIntersect(r, cap.range))
    BY <2>2 DEF IntRangeIntersect
  <2> QED
    BY <2>2, <2>3, CountKinds, Exceptions
<1>4. CASE \E rs : rs # {} /\ (\A r \in rs : LegalRange(r)) /\ req = OneOf(rs)
  <2>1. IntersectCountspace(req, cap) = Error
    BY <1>4, KindFacts DEF IntersectCountspace
  <2> QED
    BY <2>1, Exceptions
<1> QED
  BY <1>1, <1>2, <1>3, <1>4, CountKinds

\* An intersection asks for the largest only if one of its sides does, and has no list that
\* is not one of theirs.
LEMMA IntersectAsks ==
  ASSUME NEW req, LegalCount(req), OpenLists(req), NEW cap, LegalCount(cap), OpenLists(cap),
         IntersectCountspace(req, cap) \notin {NotMeet, Error}
  PROVE  LET x == IntersectCountspace(req, cap)
         IN  OpenLists(x) /\ (ChoosesMax(x) => ChoosesMax(req) \/ ChoosesMax(cap))
<1> DEFINE x == IntersectCountspace(req, cap)
<1>0. CheckCountspace(req, cap)
  BY DEF IntersectCountspace
<1>1. CASE req = NoSpace
  <2>1. x = cap
    BY <1>0, <1>1, KindFacts DEF IntersectCountspace
  <2> QED
    BY <2>1
<1>2. CASE \E n \in 0..MaxSize : req = Number(n)
  <2>1. x = req
    BY <1>0, <1>2, KindFacts DEF IntersectCountspace
  <2> QED
    BY <2>1
<1>3. CASE \E r : LegalRange(r) /\ req = InRange(r)
  <2>1. PICK r : LegalRange(r) /\ req = InRange(r)
    BY <1>3
  <2>2. x = IntRangeIntersect(r, cap) /\ IntRangeCheck(r, cap) /\ x # Error
    BY <1>0, <2>1, KindFacts DEF IntersectCountspace, CheckCountspace
  <2>3. x = cap \/ (cap.kind = "range" /\ x = InRange(RangeIntersect(r, cap.range)))
    BY <2>2 DEF IntRangeIntersect
  <2>4. CASE x = cap
    BY <2>4
  <2>5. CASE cap.kind = "range" /\ x = InRange(RangeIntersect(r, cap.range))
    <3> DEFINE b == RangeIntersect(r, cap.range)
    <3>1. b.choose_max_value <=> r.choose_max_value \/ cap.range.choose_max_value
      BY <2>1, LegalRangeFact DEF RangeIntersect
    <3> HIDE DEF b
    <3>2. x = InRange(b)
      BY <2>5 DEF b
    <3>3. InRange(b).kind = "range" /\ (ChoosesMax(InRange(b)) <=> b.choose_max_value)
      BY KindFacts
    <3>4. OpenLists(x) /\ (ChoosesMax(x) <=> b.choose_max_value)
      <4> HIDE DEF x
      <4> QED
        BY <3>2, <3>3 DEF OpenLists
    <3> QED
      BY <2>1, <2>5, <3>1, <3>4, KindFacts DEF ChoosesMax
  <2> QED
    BY <2>3, <2>4, <2>5
<1>4. CASE \E rs : rs # {} /\ (\A r \in rs : LegalRange(r)) /\ req = OneOf(rs)
  BY <1>0, <1>4, KindFacts DEF IntersectCountspace
<1> QED
  BY <1>1, <1>2, <1>3, <1>4, CountKinds

\* NodeSpace.choose_value and NodeSpace.intersect refuse only what fails the check, or has a
\* field that is refused.
LEMMA MethodMeets ==
  ASSUME NEW method, NEW req, LegalSpace(req), NEW cap, NodeCheck(req, cap),
         \A f \in AllFields : Field(method, f, req, cap) # NotMeet
  PROVE  NodeMethod(method, req, cap) # NotMeet
<1> DEFINE value == [f \in AllFields \cup FeatureFields |-> Field(method, f, req, cap)]
           raised == {i \in DOMAIN FieldOrder : value[FieldOrder[i]] \in {NotMeet, Error}}
<1>1. DOMAIN req = AllFields \cup FeatureFields
  BY SpaceFact
<1>2. NodeMethod(method, req, cap) = IF raised # {} THEN value[FieldOrder[Min(raised)]] ELSE value
  BY <1>1 DEF NodeMethod
<1>3. DOMAIN FieldOrder = 1..8
  BY DEF FieldOrder
<1>4. ASSUME NEW i \in 1..8 PROVE FieldOrder[i] \in AllFields
  BY DEF FieldOrder, AllFields, CountFields, SetFields
<1>5. raised # {} => Min(raised) \in 1..8
  <2>1. raised \in SUBSET Nat /\ raised \subseteq 1..8
    BY <1>3
  <2> HIDE DEF raised
  <2> QED
    BY <2>1, MinFact
<1>6. value # NotMeet
  <2>1. "features" \in DOMAIN value
    BY DEF FeatureFields
  <2>2. DOMAIN NotMeet = {"kind"}
    BY DEF NotMeet
  <2> HIDE DEF value
  <2> QED
    BY <2>1, <2>2
<1>7. \A f \in AllFields : value[f] # NotMeet
  OBVIOUS
<1> HIDE DEF value, raised
<1> QED
  BY <1>2, <1>4, <1>5, <1>6, <1>7

\* A space that has a core count, a disk type and a data path has every part.
LEMMA HasParts ==
  ASSUME NEW c, c["core_count"] # NoSpace, \A f \in SetFields : c[f] # NoSpace
  PROVE  \A part \in {NodePart, DiskPart, NetworkPart} : Has(c, part)
<1>1. c["data_disk_type"] # NoSpace /\ c["data_path"] # NoSpace
  BY DEF SetFields
<1>2. Has(c, NodePart)
  BY DEF Has, NodePart
<1>3. Has(c, DiskPart)
  BY <1>1 DEF Has, DiskPart
<1>4. Has(c, NetworkPart)
  BY <1>1 DEF Has, NetworkPart
<1> QED
  BY <1>2, <1>3, <1>4

\* NodeSpace.check, of a space that has every part
LEMMA CheckMeets ==
  ASSUME NEW req, LegalSpace(req), NEW cap, LegalSpace(cap), ~Falsy(cap["core_count"]),
         \A f \in SetFields : cap[f] # NoSpace /\ InBoth(req[f], cap[f]) # {},
         \A f \in CountFields : CheckCountspace(req[f], cap[f]),
         req["features"] \subseteq cap["features"],
         req["excluded_features"] \cap cap["features"] = {}
  PROVE  NodeCheck(req, cap)
<1>1. \A part \in {NodePart, DiskPart, NetworkPart} : Has(cap, part)
  BY HasParts DEF Falsy
<1>2. ASSUME NEW f \in SetFields PROVE CheckSetspace(req[f], cap[f])
  <2>1. LegalOptions(req[f], Priority(f)) /\ LegalOptions(cap[f], Priority(f))
    BY SpaceFact
  <2>2. cap[f].kind # "none"
    BY <2>1, OptionKinds
  <2> QED
    BY <2>2 DEF CheckSetspace, InBoth
<1>3. ASSUME NEW f \in AllFields PROVE FieldCheck(f, req, cap)
  BY <1>2 DEF FieldCheck, AllFields
<1> QED
  BY <1>1, <1>3, PartFields DEF NodeCheck, Parts

\* Every count of e can be chosen within c, every set has an option of both, the features
\* are there and none is excluded.
Attainable(e, c) ==
  /\ \A f \in CountFields : OpenLists(e[f]) /\ Choosable(e[f], c[f])
  /\ \A f \in SetFields : InBoth(e[f], c[f]) # {}
  /\ e["features"] \subseteq c["features"]
  /\ e["excluded_features"] \cap c["features"] = {}

\* NodeSpace.choose_value refuses only what is not attainable.
LEMMA ChoiceMeets ==
  ASSUME NEW e, LegalSpace(e), NEW c \in Capabilities, \A f \in CountFields : OpenLists(c[f]),
         Attainable(e, c)
  PROVE  NodeMethod("choose_value", e, c) # NotMeet
<1>0. /\ LegalSpace(c) /\ (\A f \in AllFields : c[f] # NoSpace) /\ ~Falsy(c["core_count"])
      /\ CountFields \subseteq AllFields /\ SetFields \subseteq AllFields
  <2>1. LegalSpace(c) /\ (\A f \in AllFields : c[f] # NoSpace) /\ ~Allows(c["core_count"], 0)
    BY CapabilityAssumption DEF AllFields
  <2>2. "core_count" \in CountFields
    BY DEF CountFields
  <2>3. LegalCount(c["core_count"])
    BY <2>1, <2>2, SpaceFact
  <2> QED
    BY <2>1, <2>3, FalsyFact, KindFacts DEF AllFields
<1>1. ASSUME NEW f \in CountFields
      PROVE  CheckCountspace(e[f], c[f]) /\ Field("choose_value", f, e, c) # NotMeet
  <2> DEFINE w == Wanted(f, e, c)
  <2>0. f \in AllFields /\ f \notin FeatureFields /\ LegalCount(e[f]) /\ LegalCount(c[f])
    BY <1>0, SpaceFact
  <2>1. OpenLists(e[f]) /\ OpenLists(c[f]) /\ Choosable(e[f], c[f]) /\ c[f] # NoSpace
    BY <1>0, <2>0 DEF Attainable
  <2>2. Has(c, PartOf(f))
    BY <2>0, <2>1, PartFact DEF Has
  <2>3. Field("choose_value", f, e, c) = CountField("choose_value", f, w, c[f])
    BY <2>0, <2>2 DEF Field, PartField
  <2>4. w = e[f] \/ (e[f] = NoSpace /\ w = c[f])
    BY <2>0, SpaceFact DEF Wanted
  <2> HIDE DEF w
  <2>5. LegalCount(w) /\ OpenLists(w) /\ Choosable(w, c[f])
    <3>1. e[f] = NoSpace => Choosable(c[f], c[f])
      BY <2>1, KindFacts DEF Choosable
    <3> QED
      BY <2>0, <2>1, <2>4, <3>1
  <2>6. ChooseValueCountspace(w, c[f]) # NotMeet
    BY <2>0, <2>1, <2>5, ChooseMeets
  <2>7. Unset(f) # NotMeet
    BY Exceptions DEF Unset, AnyNumber
  <2>8. CountField("choose_value", f, w, c[f]) # NotMeet
    BY <2>6, <2>7 DEF CountField
  <2> QED
    BY <2>0, <2>1, <2>3, <2>8, ChooseMeets
<1>2. ASSUME NEW f \in SetFields PROVE Field("choose_value", f, e, c) # NotMeet
  <2> DEFINE w == Wanted(f, e, c)
  <2>0. /\ f \in AllFields /\ f \notin FeatureFields /\ f \notin CountFields
        /\ LegalOptions(e[f], Priority(f)) /\ LegalOptions(c[f], Priority(f)) /\ c[f] # NoSpace
    BY <1>0, SpaceFact
  <2>1. Has(c, PartOf(f))
    BY <2>0, PartFact DEF Has
  <2>2. Field("choose_value", f, e, c) = ChooseValueSetspace(w, c[f], Priority(f))
    BY <2>0, <2>1 DEF Field, PartField, SetField
  <2>3. w = e[f] \/ (e[f] = NoSpace /\ w = c[f])
    BY <2>0, SpaceFact DEF Wanted
  <2> HIDE DEF w
  <2>4. c[f].kind # "none" /\ c[f].items # {} /\ InBoth(e[f], c[f]) # {}
    BY <2>0, OptionKinds DEF Attainable
  <2>5. CheckSetspace(w, c[f])
    BY <2>3, <2>4 DEF CheckSetspace, InBoth
  <2> QED
    BY <2>2, <2>5, Exceptions DEF ChooseValueSetspace
<1>3. NodeCheck(e, c)
  <2>1. \A f \in SetFields : c[f] # NoSpace /\ InBoth(e[f], c[f]) # {}
    BY <1>0 DEF Attainable
  <2>2. e["features"] \subseteq c["features"] /\ e["excluded_features"] \cap c["features"] = {}
    BY DEF Attainable
  <2> QED
    BY <1>0, <1>1, <2>1, <2>2, CheckMeets
<1> QED
  BY <1>1, <1>2, <1>3, MethodMeets DEF AllFields

\* NodeSpace.intersect refuses only spaces of which a field has nothing in common.
LEMMA MergeMeets ==
  ASSUME NEW req, LegalSpace(req), NEW cap, LegalSpace(cap), ~Falsy(cap["core_count"]),
         \A f \in SetFields : cap[f] # NoSpace /\ InBoth(req[f], cap[f]) # {},
         \A f \in CountFields : CheckCountspace(req[f], cap[f]),
         req["features"] \subseteq cap["features"],
         req["excluded_features"] \cap cap["features"] = {}
  PROVE  NodeMethod("intersect", req, cap) # NotMeet
<1>0. NodeCheck(req, cap)
  BY CheckMeets
<1>1. ASSUME NEW f \in CountFields PROVE Field("intersect", f, req, cap) # NotMeet
  <2> DEFINE w == Wanted(f, req, cap)
  <2>0. f \in AllFields /\ f \notin FeatureFields /\ LegalCount(req[f]) /\ LegalCount(cap[f])
    BY SpaceFact
  <2>1. \/ Field("intersect", f, req, cap) = NoSpace
        \/ Field("intersect", f, req, cap) = CountField("intersect", f, w, cap[f])
    BY <2>0 DEF Field, PartField
  <2>2. w = req[f] \/ w = cap[f]
    BY DEF Wanted
  <2> HIDE DEF w
  <2>3. LegalCount(w) /\ CheckCountspace(w, cap[f])
    <3>1. CheckCountspace(cap[f], cap[f])
      BY <2>0, SelfCheck, CheckOfCounts
    <3> QED
      BY <2>0, <2>2, <3>1
  <2>4. IntersectCountspace(w, cap[f]) # NotMeet
    BY <2>0, <2>3, IntersectMeets
  <2>5. Unset(f) # NotMeet
    BY Exceptions DEF Unset, AnyNumber
  <2>6. CountField("intersect", f, w, cap[f]) # NotMeet
    BY <2>4, <2>5 DEF CountField
  <2> QED
    BY <2>1, <2>6, Exceptions
<1>2. ASSUME NEW f \in SetFields PROVE Field("intersect", f, req, cap) # NotMeet
  <2> DEFINE w == Wanted(f, req, cap)
  <2>0. /\ f \in AllFields /\ f \notin FeatureFields /\ f \notin CountFields
        /\ LegalOptions(req[f], Priority(f)) /\ LegalOptions(cap[f], Priority(f))
    BY SpaceFact
  <2>1. \/ Field("intersect", f, req, cap) = NoSpace
        \/ Field("intersect", f, req, cap) = IntersectSetspace(w, cap[f])
    BY <2>0 DEF Field, PartField, SetField
  <2>2. w = req[f] \/ w = cap[f]
    BY DEF Wanted
  <2> HIDE DEF w
  <2>3. cap[f].kind # "none" /\ cap[f].items # {} /\ InBoth(req[f], cap[f]) # {}
    BY <2>0, OptionKinds
  <2>4. CheckSetspace(w, cap[f])
    BY <2>2, <2>3 DEF CheckSetspace, InBoth
  <2> QED
    BY <2>1, <2>4, Exceptions DEF IntersectSetspace
<1> QED
  BY <1>0, <1>1, <1>2, MethodMeets DEF AllFields

\* A merged set has the options of both sides.
LEMMA MergedOptions ==
  ASSUME NEW req, LegalSpace(req), NEW cap, LegalSpace(cap), NEW f \in SetFields, cap[f] # NoSpace,
         Field("intersect", f, req, cap) \notin {NotMeet, Error}
  PROVE  LET v == Field("intersect", f, req, cap)
         IN  v.kind # "none" /\ v.items = InBoth(req[f], cap[f])
<1> DEFINE v == Field("intersect", f, req, cap)
           w == Wanted(f, req, cap)
<1>0. /\ f \in AllFields /\ f \notin FeatureFields /\ f \notin CountFields
      /\ LegalOptions(req[f], Priority(f)) /\ LegalOptions(cap[f], Priority(f))
  BY SpaceFact
<1>1. Has(cap, PartOf(f))
  BY <1>0, PartFact DEF Has
<1>2. v = IntersectSetspace(w, cap[f])
  BY <1>0, <1>1 DEF Field, PartField, SetField
<1>3. w = req[f] \/ (req[f] = NoSpace /\ w = cap[f])
  BY <1>0, SpaceFact DEF Wanted
<1>4. InBoth(w, cap[f]) = InBoth(req[f], cap[f])
  <2>1. InBoth(NoSpace, cap[f]) = cap[f].items /\ InBoth(cap[f], cap[f]) = cap[f].items
    BY KindFacts DEF InBoth
  <2> HIDE DEF w
  <2> QED
    BY <1>3, <2>1
<1> HIDE DEF v, w
<1>5. v = Options(InBoth(w, cap[f]))
  BY <1>2 DEF IntersectSetspace, v
<1>6. Options(InBoth(w, cap[f])).kind = "set" /\ Options(InBoth(w, cap[f])).items = InBoth(w, cap[f])
  BY DEF Options
<1> QED
  BY <1>4, <1>5, <1>6 DEF v

\* A merged count is choosable within a capability if what is merged is.
LEMMA MergedCount ==
  ASSUME NEW req, LegalSpace(req), NEW cap, LegalSpace(cap), NEW f \in CountFields, NEW c,
         Field("intersect", f, req, cap) \notin {NotMeet, Error},
         Has(cap, PartOf(f)), OpenLists(req[f]), OpenLists(cap[f]),
         \E n \in 0..MaxSize : n # MaxSize /\ Allows(req[f], n) /\ Allows(cap[f], n) /\ Allows(c, n),
         Allows(req[f], MaxSize) /\ Allows(cap[f], MaxSize) /\ Allows(c, MaxSize) =>
           ~ChoosesMax(req[f]) /\ ~ChoosesMax(cap[f]) /\ ~ChoosesMax(c),
         f = "gpu_count" => Allows(c, 0),
         f \in {"data_disk_count", "data_disk_size"} => ~ChoosesMax(c)
  PROVE  LET v == Field("intersect", f, req, cap)
         IN  OpenLists(v) /\ Choosable(v, c)
<1> DEFINE v == Field("intersect", f, req, cap)
           w == Wanted(f, req, cap)
<1>0. f \in AllFields /\ f \notin FeatureFields /\ LegalCount(req[f]) /\ LegalCount(cap[f])
  BY SpaceFact
<1>1. v = CountField("intersect", f, w, cap[f])
  BY <1>0 DEF Field, PartField
<1>2. w = req[f] \/ (req[f] = NoSpace /\ w = cap[f])
  BY <1>0, SpaceFact DEF Wanted
<1> HIDE DEF w
<1>3. PICK n \in 0..MaxSize : n # MaxSize /\ Allows(req[f], n) /\ Allows(cap[f], n) /\ Allows(c, n)
  OBVIOUS
<1>4. CASE Falsy(w) /\ Falsy(cap[f]) /\ f # "max_nic_count"
  <2>1. v = Unset(f)
    BY <1>1, <1>4 DEF CountField
  <2>2. CASE f = "gpu_count"
    <3>1. v = Number(0)
      BY <2>1, <2>2 DEF Unset
    <3>2. 0 \in 0..MaxSize /\ 0 # MaxSize
      BY <1>3, MaxSizeAssumption
    <3> HIDE DEF v
    <3>3. OpenLists(v) /\ Allows(v, 0) /\ ~Allows(v, MaxSize)
      BY <3>1, <3>2, KindFacts DEF OpenLists
    <3> QED
      BY <2>2, <3>2, <3>3 DEF Choosable, v
  <2>3. CASE f \in {"data_disk_count", "data_disk_size"}
    <3>1. v = AnyNumber
      BY <2>1, <2>3 DEF Unset
    <3> HIDE DEF v
    <3>2. OpenLists(v) /\ ~ChoosesMax(v) /\ Allows(v, n)
      BY <3>1, AnyNumberFact, KindFacts DEF OpenLists, AnyNumber
    <3> QED
      BY <1>3, <2>3, <3>2 DEF Choosable, v
  <2>4. CASE f # "gpu_count" /\ f \notin {"data_disk_count", "data_disk_size"}
    BY <2>1, <2>4 DEF Unset
  <2> QED
    BY <2>2, <2>3, <2>4
<1>5. CASE ~(Falsy(w) /\ Falsy(cap[f]) /\ f # "max_nic_count")
  <2>1. v = IntersectCountspace(w, cap[f])
    BY <1>1, <1>5 DEF CountField
  <2>2. LegalCount(w) /\ OpenLists(w) /\ (ChoosesMax(w) => ChoosesMax(req[f]) \/ ChoosesMax(cap[f]))
    BY <1>0, <1>2
  <2>3. v \notin {NotMeet, Error}
    OBVIOUS
  <2> HIDE DEF v
  <2>4. \A m \in Int : Allows(v, m) <=> Allows(w, m) /\ Allows(cap[f], m)
    BY <1>0, <2>1, <2>2, <2>3, IntersectFact
  <2>5. OpenLists(v) /\ (ChoosesMax(v) => ChoosesMax(w) \/ ChoosesMax(cap[f]))
    BY <1>0, <2>1, <2>2, <2>3, IntersectAsks
  <2>6. \A m \in Int : Allows(v, m) <=> Allows(req[f], m) /\ Allows(cap[f], m)
    BY <1>2, <2>4, KindFacts
  <2>7. n \in Int /\ MaxSize \in Int
    BY MaxSizeAssumption
  <2> QED
    BY <1>3, <2>2, <2>5, <2>6, <2>7 DEF Choosable, v
<1> QED
  BY <1>4, <1>5

\* What it means that a node could meet the requirements, count by count
LEMMA MetCounts ==
  ASSUME ~Unmet, NEW f \in CountFields
  PROVE  /\ \E n \in 0..MaxSize :
              /\ n # MaxSize /\ Allows(test.space[f], n) /\ Allows(capability[f], n)
              /\ platform # NoSpace => Allows(platform.space[f], n)
         /\ platform # NoSpace /\ platform.space[f] = NoSpace => test.space[f] = NoSpace
         /\ /\ Allows(test.space[f], MaxSize) /\ Allows(capability[f], MaxSize)
            /\ platform # NoSpace => Allows(platform.space[f], MaxSize)
            => /\ ~ChoosesMax(test.space[f]) /\ ~ChoosesMax(capability[f])
               /\ platform # NoSpace => ~ChoosesMax(platform.space[f])
<1>1. ~(Common(f) \subseteq {MaxSize}) /\ ~(MaxSize \in Common(f) /\ AsksForMost(f))
  BY DEF Unmet
<1>2. PICK n \in Common(f) : n # MaxSize
  BY <1>1
<1>3. /\ n \in 0..MaxSize /\ Allows(test.space[f], n) /\ Allows(capability[f], n)
      /\ platform # NoSpace => /\ platform.space[f] = NoSpace => test.space[f] = NoSpace
                               /\ Allows(platform.space[f], n)
  BY <1>2 DEF Common, Numbers
<1>4. MaxSize \in 0..MaxSize
  BY MaxSizeAssumption
<1>5. /\ Allows(test.space[f], MaxSize) /\ Allows(capability[f], MaxSize)
      /\ platform # NoSpace => Allows(platform.space[f], MaxSize)
      => MaxSize \in Common(f)
  BY <1>3, <1>4 DEF Common, Numbers
<1> QED
  BY <1>1, <1>2, <1>3, <1>5 DEF AsksForMost

\* The same for the sets and the features
LEMMA MetSets ==
  ASSUME ~Unmet
  PROVE  /\ platform = NoSpace =>
              /\ \A f \in SetFields : InBoth(test.space[f], capability[f]) # {}
              /\ test.space["features"] \subseteq capability["features"]
              /\ test.space["excluded_features"] \cap capability["features"] = {}
         /\ platform # NoSpace =>
              /\ \A f \in SetFields : InBoth(test.space[f], Options(InBoth(platform.space[f], capability[f]))) # {}
              /\ test.space["features"] \cup platform.space["features"] \subseteq capability["features"]
              /\ (test.space["excluded_features"] \cup platform.space["excluded_features"])
                   \cap (test.space["features"] \cup platform.space["features"] \cup capability["features"]) = {}
<1>1. CASE platform = NoSpace
  <2>1. \A f \in SetFields : InBoth(test.space[f], Options(InBoth(NoSpace, capability[f]))) # {}
    BY <1>1 DEF Unmet
  <2>2. \A f : InBoth(NoSpace, capability[f]) = capability[f].items
    BY KindFacts DEF InBoth
  <2>3. \A os : Options(os).items = os
    BY DEF Options
  <2>4. \A f \in SetFields : InBoth(test.space[f], capability[f]) # {}
    BY <2>1, <2>2, <2>3 DEF InBoth
  <2>5. /\ test.space["features"] \subseteq capability["features"]
        /\ test.space["excluded_features"] \cap capability["features"] = {}
    BY <1>1 DEF Unmet
  <2> QED
    BY <1>1, <2>4, <2>5
<1>2. CASE platform # NoSpace
  BY <1>2 DEF Unmet
<1> QED
  BY <1>1, <1>2

\* A requirement that a node could meet is attainable, without a requirement of the runbook
LEMMA AloneAttainable ==
  ASSUME PlainSpaces, Inputs, platform = NoSpace, ~Unmet
  PROVE  Attainable(test.space, capability)
<1>1. ASSUME NEW f \in CountFields PROVE OpenLists(test.space[f]) /\ Choosable(test.space[f], capability[f])
  BY MetCounts DEF Choosable, PlainSpaces, Inputs
<1> QED
  BY <1>1, MetSets DEF Attainable

\* With one, it can be merged and the merged requirement is attainable.
LEMMA BothAttainable ==
  ASSUME PlainSpaces, Inputs, platform # NoSpace, ~Unmet
  PROVE  LET x == NodeMethod("intersect", test.space, JoinTest(platform.space))
         IN  x # NotMeet /\ (x # Error => Attainable(x, capability))
<1> DEFINE t == test.space
           p == platform.space
           j == JoinTest(platform.space)
           c == capability
           x == NodeMethod("intersect", t, j)
<1>1. LegalSpace(t) /\ NodeCheck(t, t) /\ LegalSpace(p) /\ LegalSpace(c) /\ c \in Capabilities
  BY RequirementAssumption, CapabilityAssumption DEF Inputs, LegalRequirement
<1>2. /\ LegalSpace(j) /\ \A f \in AllFields : j[f] = p[f]
      /\ j["features"] = p["features"] \cup t["features"]
      /\ j["excluded_features"] = p["excluded_features"] \cup t["excluded_features"]
  BY <1>1, JoinFact
<1>3. /\ \A f \in CountFields : OpenLists(t[f]) /\ OpenLists(p[f]) /\ f \in AllFields /\ LegalCount(t[f]) /\ LegalCount(p[f])
      /\ \A f \in SetFields : p[f] # NoSpace /\ f \in AllFields /\ LegalOptions(t[f], Priority(f)) /\ LegalOptions(p[f], Priority(f))
      /\ Allows(c["gpu_count"], 0) /\ ~ChoosesMax(c["data_disk_size"]) /\ ~ChoosesMax(c["data_disk_count"])
      /\ ~Allows(c["core_count"], 0)
  <2>1. \A f \in CountFields : OpenLists(t[f]) /\ OpenLists(p[f])
    BY DEF PlainSpaces, Inputs
  <2>2. \A f \in SetFields : p[f] # NoSpace
    BY DEF PlainSpaces, Inputs
  <2>3. Allows(c["gpu_count"], 0) /\ ~ChoosesMax(c["data_disk_size"])
    BY <1>1 DEF PlainSpaces
  <2>4. ~ChoosesMax(c["data_disk_count"]) /\ ~Allows(c["core_count"], 0)
    BY <1>1, CapabilityAssumption, AnyNumberFact
  <2> QED
    BY <1>1, <2>1, <2>2, <2>3, <2>4, SpaceFact
<1>4. ASSUME NEW f \in CountFields
      PROVE  /\ CheckCountspace(t[f], p[f])
             /\ \E n \in 0..MaxSize : n # MaxSize /\ Allows(t[f], n) /\ Allows(p[f], n) /\ Allows(c[f], n)
             /\ p[f] = NoSpace => t[f] = NoSpace
             /\ Allows(t[f], MaxSize) /\ Allows(p[f], MaxSize) /\ Allows(c[f], MaxSize) =>
                  ~ChoosesMax(t[f]) /\ ~ChoosesMax(p[f]) /\ ~ChoosesMax(c[f])
  <2>1. PICK n \in 0..MaxSize : n # MaxSize /\ Allows(t[f], n) /\ Allows(p[f], n) /\ Allows(c[f], n)
    BY MetCounts
  <2>2. p[f] = NoSpace => t[f] = NoSpace
    BY MetCounts
  <2>3. CheckCountspace(t[f], p[f])
    BY <1>3, <2>1, <2>2, CheckOfCounts
  <2>4. Allows(t[f], MaxSize) /\ Allows(p[f], MaxSize) /\ Allows(c[f], MaxSize) =>
          ~ChoosesMax(t[f]) /\ ~ChoosesMax(p[f]) /\ ~ChoosesMax(c[f])
    BY MetCounts
  <2> QED
    BY <2>1, <2>2, <2>3, <2>4
<1>5. ~Falsy(p["core_count"]) /\ p["core_count"] # NoSpace
  <2>1. "core_count" \in CountFields
    BY DEF CountFields
  <2>2. t["core_count"] # NoSpace
    BY <1>1 DEF NodeCheck, Falsy
  <2>3. p["core_count"] # NoSpace
    BY <1>4, <2>1, <2>2
  <2>4. PICK n \in 0..MaxSize : Allows(p["core_count"], n) /\ Allows(c["core_count"], n)
    BY <1>4, <2>1
  <2>5. p["core_count"] # Number(0)
    BY <1>3, <2>4, KindFacts
  <2> QED
    BY <1>3, <2>1, <2>3, <2>5, FalsyFact
<1>6. ASSUME NEW f \in SetFields PROVE InBoth(t[f], p[f]) # {} /\ InBoth(t[f], p[f]) \cap c[f].items # {}
  <2>1. InBoth(t[f], Options(InBoth(p[f], c[f]))) # {}
    BY MetSets
  <2>2. p[f].kind # "none"
    BY <1>3, OptionKinds
  <2>3. \A os : Options(os).items = os
    BY DEF Options
  <2> QED
    BY <2>1, <2>2, <2>3 DEF InBoth
<1>7. /\ t["features"] \cup p["features"] \subseteq c["features"]
      /\ (t["excluded_features"] \cup p["excluded_features"])
           \cap (t["features"] \cup p["features"] \cup c["features"]) = {}
  BY MetSets
<1> HIDE DEF t, p, j, c
<1>8. x # NotMeet
  <2>1. \A f \in CountFields : CheckCountspace(t[f], j[f])
    BY <1>2, <1>3, <1>4
  <2>2. \A f \in SetFields : j[f] # NoSpace /\ InBoth(t[f], j[f]) # {}
    BY <1>2, <1>3, <1>6
  <2>3. ~Falsy(j["core_count"])
    BY <1>2, <1>5 DEF AllFields, CountFields
  <2>4. t["features"] \subseteq j["features"] /\ t["excluded_features"] \cap j["features"] = {}
    BY <1>2, <1>7
  <2> QED
    BY <1>1, <1>2, <2>1, <2>2, <2>3, <2>4, MergeMeets
<1>9. ASSUME x # Error PROVE Attainable(x, c)
  <2>1. /\ x = [f \in AllFields \cup FeatureFields |-> Field("intersect", f, t, j)]
        /\ \A f \in AllFields : Field("intersect", f, t, j) \notin {NotMeet, Error}
    BY <1>1, <1>8, <1>9, MethodFact
  <2>2. \A part \in {NodePart, DiskPart, NetworkPart} : Has(j, part)
    <3>1. j["core_count"] # NoSpace /\ \A f \in SetFields : j[f] # NoSpace
      BY <1>2, <1>3, <1>5 DEF AllFields, CountFields
    <3> QED
      BY <3>1, HasParts
  <2> HIDE DEF x
  <2>3. ASSUME NEW f \in CountFields PROVE OpenLists(x[f]) /\ Choosable(x[f], c[f])
    <3>1. f \in AllFields /\ j[f] = p[f] /\ x[f] = Field("intersect", f, t, j)
      BY <1>2, <1>3, <2>1
    <3>2. Has(j, PartOf(f))
      BY <2>2, <3>1, PartFact DEF Parts
    <3>3. (f = "gpu_count" => Allows(c[f], 0)) /\ (f \in {"data_disk_count", "data_disk_size"} => ~ChoosesMax(c[f]))
      BY <1>3
    <3> QED
      BY <1>1, <1>2, <1>3, <1>4, <2>1, <3>1, <3>2, <3>3, MergedCount
  <2>4. ASSUME NEW f \in SetFields PROVE InBoth(x[f], c[f]) # {}
    <3>1. f \in AllFields /\ j[f] = p[f] /\ j[f] # NoSpace /\ x[f] = Field("intersect", f, t, j)
      BY <1>2, <1>3, <2>1
    <3>2. x[f].kind # "none" /\ x[f].items = InBoth(t[f], j[f])
      BY <1>1, <1>2, <2>1, <3>1, MergedOptions
    <3> QED
      BY <1>6, <3>1, <3>2 DEF InBoth
  <2>5. x["features"] = j["features"] /\ x["excluded_features"] = j["excluded_features"]
    BY <2>1 DEF FeatureFields, Field, FeatureField
  <2> QED
    BY <1>2, <1>7, <2>3, <2>4, <2>5 DEF Attainable
<1> QED
  BY <1>8, <1>9 DEF t, p, j, c

\* The node that is created from a choice is never refused.
LEMMA NodeMeets ==
  ASSUME Inputs, Prepared
  PROVE  NodeMethod("choose_value", chosen.space, chosen.space) # NotMeet
<1> DEFINE x == chosen.space
<1>1. PICK e : Merged(e) /\ ChosenFrom(e.space, capability, x)
  BY DEF Prepared
<1>2. /\ LegalSpace(x)
      /\ \A f \in CountFields : \E n \in 0..MaxSize : x[f] = Number(n) /\ Allows(capability[f], n)
      /\ \A f \in SetFields : \E o : x[f] = Options({o})
      /\ x["excluded_features"] \cap x["features"] = {}
  BY <1>1 DEF ChosenFrom, Best
<1> HIDE DEF x
<1>3. ASSUME NEW f \in CountFields
      PROVE  CheckCountspace(x[f], x[f]) /\ Field("choose_value", f, x, x) # NotMeet
  <2>1. PICK n \in 0..MaxSize : x[f] = Number(n)
    BY <1>2
  <2>2. f \notin FeatureFields /\ LegalCount(x[f]) /\ x[f] # NoSpace /\ x[f] # NotMeet
    BY <1>2, <2>1, SpaceFact, Exceptions
  <2>3. CheckCountspace(x[f], x[f])
    BY <2>2, SelfCheck
  <2>4. ChooseValueCountspace(x[f], x[f]) = x[f]
    BY <2>1, <2>3, KindFacts DEF ChooseValueCountspace
  <2>5. Unset(f) # NotMeet
    BY Exceptions DEF Unset, AnyNumber
  <2>6. CountField("choose_value", f, x[f], x[f]) # NotMeet
    BY <2>2, <2>4, <2>5 DEF CountField
  <2>7. \/ Field("choose_value", f, x, x) = NoSpace
        \/ Field("choose_value", f, x, x) = CountField("choose_value", f, x[f], x[f])
    BY <2>2 DEF Field, PartField, Wanted
  <2> QED
    BY <2>3, <2>6, <2>7, Exceptions
<1>4. ASSUME NEW f \in SetFields
      PROVE  x[f] # NoSpace /\ InBoth(x[f], x[f]) # {} /\ Field("choose_value", f, x, x) # NotMeet
  <2>1. PICK o : x[f] = Options({o})
    BY <1>2
  <2>2. f \notin FeatureFields /\ f \notin CountFields /\ x[f] # NoSpace
    BY <1>2, <2>1, SpaceFact, Exceptions
  <2>3. x[f].kind = "set" /\ x[f].items = {o}
    BY <2>1 DEF Options
  <2>4. CheckSetspace(x[f], x[f]) /\ InBoth(x[f], x[f]) # {}
    BY <2>3 DEF CheckSetspace, InBoth
  <2>5. ChooseValueSetspace(x[f], x[f], Priority(f)) # NotMeet
    BY <2>4, Exceptions DEF ChooseValueSetspace
  <2>6. \/ Field("choose_value", f, x, x) = NoSpace
        \/ Field("choose_value", f, x, x) = ChooseValueSetspace(x[f], x[f], Priority(f))
    BY <2>2 DEF Field, PartField, SetField, Wanted
  <2> QED
    BY <2>2, <2>4, <2>5, <2>6, Exceptions
<1>5. ~Falsy(x["core_count"])
  <2>1. "core_count" \in CountFields /\ ~Allows(capability["core_count"], 0)
    BY CapabilityAssumption DEF CountFields, Inputs
  <2>2. PICK n \in 0..MaxSize : x["core_count"] = Number(n) /\ Allows(capability["core_count"], n)
    BY <1>2, <2>1
  <2>3. n # 0 /\ LegalCount(x["core_count"])
    BY <1>2, <2>1, <2>2, SpaceFact
  <2>4. Number(n) # Number(0)
    BY <2>3, KindFacts
  <2> QED
    BY <2>2, <2>3, <2>4, FalsyFact, Exceptions
<1>6. NodeCheck(x, x)
  BY <1>2, <1>3, <1>4, <1>5, CheckMeets
<1>7. NodeMethod("choose_value", x, x) # NotMeet
  BY <1>2, <1>3, <1>4, <1>6, MethodMeets DEF AllFields
<1> QED
  BY <1>7 DEF x

\* While nothing refused it, a requirement that a node could meet is attainable.
SkipInv ==
  /\ stage = "skipped" => Unmet
  /\ stage = "merged" /\ ~Unmet => Attainable(environment.space, capability)

\* A result is skipped for its requirement only if no node could meet what its test case and
\* the runbook ask for: none of the merge, the platform's choice and the creation of the nodes
\* refuses what some node could have.
THEOREM SkipsOnlyUnmet ==
  ASSUME PlainSpaces
  PROVE  Spec => []SkippedOnlyIfUnmet
<1>1. Init => SkipInv
  BY DEF Init, SkipInv
<1>2. ASSUME RInv, SkipInv, [Next]_vars PROVE SkipInv'
  <2>0. Inputs
    BY <1>2 DEF RInv
  <2>1. test' = test /\ platform' = platform /\ capability' = capability
    BY <1>2 DEF Next, MergeTestRequirements, PrepareEnvironment, CreateNodes, Done, vars
  <2>2. Unmet' <=> Unmet
    BY <2>1 DEF Unmet, Common, AsksForMost
  <2>3. CASE MergeTestRequirements
    <3>1. CASE platform = NoSpace
      <4>1. stage' = "merged" /\ environment' = test
        BY <1>2, <2>3, <3>1 DEF MergeTestRequirements, RInv
      <4> QED
        BY <2>0, <2>1, <2>2, <3>1, <4>1, AloneAttainable DEF SkipInv
    <3>2. CASE platform # NoSpace
      <4> DEFINE x == NodeMethod("intersect", test.space, JoinTest(platform.space))
      <4>1. CASE Unmet
        BY <2>2, <4>1 DEF SkipInv
      <4>2. CASE ~Unmet
        <5>1. x # NotMeet /\ (x # Error => Attainable(x, capability))
          BY <2>0, <3>2, <4>2, BothAttainable
        <5>2. CASE x = Error
          <6>1. stage' \in {"aborted", "failed"}
            BY <2>3, <3>2, <5>2, Exceptions DEF MergeTestRequirements, Refused
          <6> QED
            BY <6>1 DEF SkipInv
        <5>3. CASE x # Error
          <6>1. stage' = "merged" /\ environment'.space = x
            BY <2>3, <3>2, <5>1, <5>3 DEF MergeTestRequirements
          <6> QED
            BY <2>1, <5>1, <5>3, <6>1 DEF SkipInv
        <5> QED
          BY <5>2, <5>3
      <4> QED
        BY <4>1, <4>2
    <3> QED
      BY <3>1, <3>2
  <2>4. CASE PrepareEnvironment
    <3> DEFINE x == NodeMethod("choose_value", environment.space, capability)
    <3>1. stage = "merged" /\ LegalSpace(environment.space)
      BY <1>2, <2>4 DEF PrepareEnvironment, RInv, Merged, LegalRequirement
    <3>2. stage' # "merged" /\ (stage' = "skipped" => x = NotMeet)
      BY <2>4, <3>1 DEF PrepareEnvironment, Refused
    <3>3. ~Unmet => x # NotMeet
      <4>1. capability \in Capabilities /\ \A f \in CountFields : OpenLists(capability[f])
        BY <2>0 DEF Inputs, PlainSpaces
      <4> QED
        BY <1>2, <3>1, <4>1, ChoiceMeets DEF SkipInv
    <3> QED
      BY <2>2, <3>2, <3>3 DEF SkipInv
  <2>5. CASE CreateNodes
    <3> DEFINE x == NodeMethod("choose_value", chosen.space, chosen.space)
    <3>1. x # NotMeet
      BY <1>2, <2>0, <2>5, NodeMeets DEF CreateNodes, RInv
    <3>2. stage' \in {"deployed", "failed", "aborted"}
      BY <2>5, <3>1 DEF CreateNodes, Refused
    <3> QED
      BY <3>2 DEF SkipInv
  <2>6. CASE UNCHANGED vars
    <3>1. stage' = stage /\ environment' = environment
      BY <2>6 DEF vars
    <3> QED
      BY <1>2, <2>1, <2>2, <3>1 DEF SkipInv
  <2> QED
    BY <1>2, <2>3, <2>4, <2>5, <2>6 DEF Next, Done
<1>3. SkipInv => SkippedOnlyIfUnmet
  BY DEF SkipInv, SkippedOnlyIfUnmet
<1> QED
  BY <1>1, <1>2, <1>3, RequirementInvariance, PTL DEF Spec
=============================================================================
