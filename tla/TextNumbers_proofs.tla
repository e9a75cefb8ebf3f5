------------------------- MODULE TextNumbers_proofs -------------------------
(***************************************************************************)
(* Lemmas about the conversions between texts, numbers and times           *)
(* (TextNumbers, TimeTypes) for integer types of any size and all texts.   *)
(* They rest on TextAssumption, which says how the sizes relate.           *)
(***************************************************************************)
EXTENDS TimeTypes, FiniteSetTheorems, SequenceTheorems, WellFoundedInduction, TLAPS

------------------------------------------------------------------------------
(* Integers of a size.                                                     *)

LEMMA SizeOneOf ==
  ASSUME NEW t
  PROVE  Size(t) \in {CharSize, ShortSize, IntSize, LongLongSize}
BY DEF Size

\* The sizes are even numbers, at most that of long long.
LEMMA SizeType ==
  ASSUME NEW t
  PROVE  /\ Size(t) \in Nat /\ 0 < Size(t) /\ Size(t) % 2 = 0
         /\ Size(t) <= LongLongSize
BY TextAssumption, SizeOneOf

LEMMA SizeHalf ==
  ASSUME NEW t
  PROVE  /\ Size(t) \div 2 \in Nat /\ Size(t) = 2 * (Size(t) \div 2)
         /\ Size(t) \div 2 > 0
<1> DEFINE n == Size(t)
<1>1. n \in Nat /\ 0 < n /\ n % 2 = 0
  BY SizeType
<1> HIDE DEF n
<1>2. n \div 2 \in Nat /\ n = 2 * (n \div 2) /\ n \div 2 > 0
  BY <1>1
<1> QED
  BY <1>2 DEF n

LEMMA RangeType ==
  ASSUME NEW t, NEW n \in RangeOf(t)
  PROVE  n \in Int /\ -LongLongSize <= n /\ n < LongLongSize /\ n # Garbage
<1>1. Garbage \in Int /\ Garbage < -10 - LongLongSize /\ LongLongSize \in Nat
  BY TextAssumption
<1>2. n \in Int /\ -Size(t) <= n /\ n < Size(t)
  BY SizeType, SizeHalf DEF RangeOf
<1> QED
  BY <1>1, <1>2, SizeType

\* A conversion yields a value of the type, which is n itself if it is one.
LEMMA WrapInRange ==
  ASSUME NEW t, NEW n \in Int
  PROVE  Wrap(n, t) \in RangeOf(t)
<1> DEFINE size == Size(t)  half == Size(t) \div 2  m == n % Size(t)
<1>1. size \in Nat /\ size > 0 /\ half \in Nat /\ size = 2 * half
  BY SizeType, SizeHalf
<1> HIDE DEF size, half
<1>2. m \in 0 .. size - 1
  BY <1>1 DEF size
<1> HIDE DEF m
<1>3. CASE t \in Unsigned
  BY <1>2, <1>3 DEF Wrap, RangeOf, m, size
<1>4. CASE t \notin Unsigned
  <2>1. RangeOf(t) = -half .. half - 1
    BY <1>4 DEF RangeOf, half
  <2>2. Wrap(n, t) = IF m \in -half .. half - 1 THEN m ELSE m - size
    BY <2>1 DEF Wrap, m, size
  <2> QED
    BY <1>1, <1>2, <2>1, <2>2
<1> QED
  BY <1>3, <1>4

LEMMA WrapKeeps ==
  ASSUME NEW t, NEW n \in RangeOf(t)
  PROVE  Wrap(n, t) = n
<1> DEFINE size == Size(t)  half == Size(t) \div 2  m == n % Size(t)
<1>1. size \in Nat /\ size > 0 /\ half \in Nat /\ size = 2 * half
  BY SizeType, SizeHalf
<1>2. n \in Int
  BY RangeType
<1> HIDE DEF size, half
<1>3. CASE n >= 0
  <2>1. n < size
    BY <1>1, <1>2, <1>3 DEF RangeOf, size, half
  <2>2. m = n
    BY <1>1, <1>2, <1>3, <2>1 DEF size
  <2> QED
    BY <2>2 DEF Wrap
<1>4. CASE n < 0
  <2>1. t \notin Unsigned
    BY <1>1, <1>2, <1>4 DEF RangeOf
  <2>2. RangeOf(t) = -half .. half - 1
    BY <2>1 DEF RangeOf, half
  <2>3. m = n + size
    BY <1>1, <1>2, <1>4, <2>2 DEF size
  <2>4. m \notin -half .. half - 1 /\ m - size = n
    BY <1>1, <1>2, <2>2, <2>3
  <2> QED
    BY <2>2, <2>4 DEF Wrap, m, size
<1> QED
  BY <1>2, <1>3, <1>4

LEMMA Inside ==
  ASSUME NEW size \in Nat, NEW half \in Nat, NEW bound \in Nat,
         size <= bound, half <= bound
  PROVE  /\ (0 .. size - 1) \subseteq (-bound .. bound - 1)
         /\ (-half .. half - 1) \subseteq (-bound .. bound - 1)
OBVIOUS

\* The half of a type is inside the half of one that is twice as large.
LEMMA Halves ==
  ASSUME NEW a \in Nat, NEW b \in Nat, a % 2 = 0, b % 2 = 0, 2 * a <= b
  PROVE  /\ a \div 2 \in Nat /\ b \div 2 \in Nat
         /\ a <= b \div 2 /\ a \div 2 <= b \div 2
OBVIOUS

LEMMA DoubleAgain ==
  ASSUME NEW a \in Nat, NEW b \in Nat, NEW c \in Nat, 2 * a <= b, 2 * b <= c
  PROVE  2 * a <= c
OBVIOUS

LEMMA SmallSizes ==
  ASSUME NEW n \in {CharSize, ShortSize, IntSize}
  PROVE  n \in Nat /\ n % 2 = 0 /\ 2 * n <= LongLongSize
<1>1. 2 * ShortSize <= LongLongSize
  BY TextAssumption, DoubleAgain
<1>2. 2 * CharSize <= LongLongSize
  BY <1>1, TextAssumption, DoubleAgain
<1> QED
  BY <1>1, <1>2, TextAssumption

\* Every integer type but one fits into long long.
LEMMA RangeInLongLong ==
  ASSUME NEW t, t \in Signed \cup Unsigned, t # "unsigned_long_long"
  PROVE  RangeOf(t) \subseteq RangeOf("long_long")
<1> DEFINE size == Size(t)  half == Size(t) \div 2  longHalf == LongLongSize \div 2
<1>1. RangeOf("long_long") = -longHalf .. longHalf - 1
  BY DEF RangeOf, Unsigned, Size
<1>2. CASE t = "long_long"
  BY <1>2
<1>3. CASE t # "long_long"
  <2>1. size \in {CharSize, ShortSize, IntSize}
    BY <1>3 DEF Size, Signed, Unsigned
  <2>2. size \in Nat /\ size % 2 = 0 /\ 2 * size <= LongLongSize
    BY <2>1, SmallSizes
  <2>3. size \in Nat /\ half \in Nat /\ longHalf \in Nat /\ size <= longHalf /\ half <= longHalf
    BY <2>2, TextAssumption, Halves
  <2>4. RangeOf(t) = 0 .. size - 1 \/ RangeOf(t) = -half .. half - 1
    BY DEF RangeOf
  <2>5. /\ (0 .. size - 1) \subseteq (-longHalf .. longHalf - 1)
        /\ (-half .. half - 1) \subseteq (-longHalf .. longHalf - 1)
    BY <2>3, Inside
  <2> QED
    BY <1>1, <2>4, <2>5
<1> QED
  BY <1>2, <1>3

------------------------------------------------------------------------------
(* Texts.                                                                  *)

\* A text that is taken up behind what comes first.
LEMMA Behind ==
  ASSUME NEW S, NEW a \in S, NEW s \in Seq(S)
  PROVE  /\ <<a>> \o s \in Seq(S) /\ <<a>> \o s # <<>>
         /\ Head(<<a>> \o s) = a /\ Tail(<<a>> \o s) = s
         /\ Len(<<a>> \o s) = Len(s) + 1
OBVIOUS

LEMMA BehindTwo ==
  ASSUME NEW S, NEW a \in S, NEW b \in S, NEW s \in Seq(S)
  PROVE  <<a, b>> \o s = <<a>> \o (<<b>> \o s)
<1>1. <<a>> \in Seq(S) /\ <<b>> \in Seq(S) /\ <<a, b>> = Append(<<a>>, b)
  OBVIOUS
<1>2. <<a, b>> = <<a>> \o <<b>>
  BY <1>1, AppendIsConcat
<1> QED
  BY <1>1, <1>2, ConcatAssociative

LEMMA NumberType ==
  ASSUME NEW n \in Int
  PROVE  Number(n) \in Seq(Int) /\ Number(n) # <<>>
BY DEF Number, Dash

\* The number at the front of what to_string printed, whatever follows it.
LEMMA ReadNumber ==
  ASSUME NEW n \in Int, n # Garbage, NEW rest \in Seq(Int)
  PROVE  TakeNumber(Number(n) \o rest) = [val |-> n, good |-> TRUE, rest |-> rest]
<1>1. CASE n < 0
  <2> DEFINE digits == <<-n>> \o rest  text == <<Dash>> \o digits
  <2>1. Number(n) \o rest = text
    BY <1>1, BehindTwo DEF Number, Dash
  <2>2. /\ digits \in Seq(Int) /\ digits # <<>> /\ Head(digits) = -n /\ Tail(digits) = rest
    BY Behind
  <2>3. /\ text # <<>> /\ Head(text) = Dash /\ Tail(text) = digits
    BY <2>2, Behind DEF Dash
  <2>4. IsDigits(-n) /\ -(-n) = n
    BY <1>1 DEF IsDigits
  <2> HIDE DEF digits, text
  <2> QED
    BY <2>1, <2>2, <2>3, <2>4 DEF TakeNumber
<1>2. CASE n >= 0
  <2> DEFINE text == <<n>> \o rest
  <2>1. Number(n) \o rest = text
    BY <1>2 DEF Number
  <2>2. text # <<>> /\ Head(text) = n /\ Tail(text) = rest
    BY Behind
  <2>3. IsDigits(n) /\ n # Dash
    BY <1>2 DEF IsDigits, Dash
  <2> HIDE DEF text
  <2> QED
    BY <2>1, <2>2, <2>3 DEF TakeNumber
<1> QED
  BY <1>1, <1>2

LEMMA ReadNumberAlone ==
  ASSUME NEW n \in Int, n # Garbage
  PROVE  TakeNumber(Number(n)) = [val |-> n, good |-> TRUE, rest |-> <<>>]
<1>1. Number(n) \o <<>> = Number(n) /\ <<>> \in Seq(Int)
  BY NumberType
<1> QED
  BY <1>1, ReadNumber

\* The number at the front of any text.
LEMMA ReadType ==
  ASSUME NEW text \in Seq(Int)
  PROVE  /\ TakeNumber(text).val \in Int /\ TakeNumber(text).good \in BOOLEAN
         /\ TakeNumber(text).rest \in Seq(Int)
<1> DEFINE digits == IF text # <<>> /\ Head(text) = Dash THEN Tail(text) ELSE text
<1>1. digits \in Seq(Int)
  OBVIOUS
<1>2. digits # <<>> => -Head(digits) \in Int /\ Head(digits) \in Int /\ Tail(digits) \in Seq(Int)
  BY <1>1
<1> HIDE DEF digits
<1>3. Garbage \in Int /\ 0 \in Int /\ <<>> \in Seq(Int)
  BY TextAssumption
<1>4. TakeNumber(text) \in [val : Int, good : BOOLEAN, rest : Seq(Int)]
  BY <1>2, <1>3 DEF TakeNumber, digits
<1> QED
  BY <1>4

\* ss >> n of a number that to_string printed, if it is an int, and of any text.
LEMMA ReadIntNumber ==
  ASSUME NEW n \in RangeOf("int"), NEW rest \in Seq(Int)
  PROVE  ReadInt(Number(n) \o rest) = [val |-> n, good |-> TRUE, rest |-> rest]
<1> DEFINE r == TakeNumber(Number(n) \o rest)
<1>1. n \in Int /\ n # Garbage
  BY RangeType
<1>2. r = [val |-> n, good |-> TRUE, rest |-> rest]
  BY <1>1, ReadNumber
<1>3. ReadInt(Number(n) \o rest) =
        IF r.good /\ r.val \notin RangeOf("int")
          THEN [val |-> Nearest(r.val, "int"), good |-> FALSE, rest |-> <<>>] ELSE r
  BY Zenon DEF ReadInt
<1> HIDE DEF r
<1>4. ~(r.good /\ r.val \notin RangeOf("int"))
  BY <1>2
<1> QED
  BY <1>2, <1>3, <1>4, Zenon

LEMMA ReadIntNumberAlone ==
  ASSUME NEW n \in RangeOf("int")
  PROVE  ReadInt(Number(n)) = [val |-> n, good |-> TRUE, rest |-> <<>>]
<1>1. n \in Int
  BY RangeType
<1>2. Number(n) \o <<>> = Number(n) /\ <<>> \in Seq(Int)
  BY <1>1, NumberType
<1> QED
  BY <1>2, ReadIntNumber

LEMMA ReadIntType ==
  ASSUME NEW text \in Seq(Int)
  PROVE  ReadInt(text).val \in Int /\ ReadInt(text).rest \in Seq(Int)
<1> DEFINE r == TakeNumber(text)  near == Nearest(r.val, "int")
<1>1. r.val \in Int /\ r.rest \in Seq(Int)
  BY ReadType
<1>2. ReadInt(text) =
        IF r.good /\ r.val \notin RangeOf("int")
          THEN [val |-> near, good |-> FALSE, rest |-> <<>>] ELSE r
  BY Zenon DEF ReadInt
<1>3. near \in Int
  BY SizeHalf DEF Nearest
<1> HIDE DEF r, near
<1> QED
  BY <1>1, <1>2, <1>3

------------------------------------------------------------------------------
(* The numbers of a set in order.                                          *)

LEMMA Less ==
  ASSUME NEW m \in Nat, NEW n \in Nat, m < n
  PROVE  <<m, n>> \in OpToRel(<, Nat)
<1>1. OpToRel(<, Nat) = {p \in Nat \X Nat : p[1] < p[2]}
  BY Zenon DEF OpToRel
<1>2. <<m, n>> \in {p \in Nat \X Nat : p[1] < p[2]}
  OBVIOUS
<1> QED
  BY <1>1, <1>2, Zenon

\* A set of natural numbers has a least one.
LEMMA Least ==
  ASSUME NEW S \in SUBSET Nat, S # {}
  PROVE  Min(S) \in S /\ \A n \in S : Min(S) <= n
<1>1. PICK least \in S : \A n \in S : ~(<<n, least>> \in OpToRel(<, Nat))
  BY NatLessThanWellFounded, WFMin
<1>2. ASSUME NEW n \in S PROVE least <= n
  <2>1. ~(n < least)
    BY <1>1, Less, Zenon
  <2> QED
    BY <2>1
<1> QED
  BY <1>2 DEF Min

\* The number at which as many have been counted is the only one.
LEMMA NthIs ==
  ASSUME NEW S \in SUBSET Nat, IsFiniteSet(S), NEW e \in S
  PROVE  Nth(S, Cardinality({d \in S : d <= e})) = e
<1> DEFINE Upto(x) == {d \in S : d <= x}
<1>0. \A d \in S : d \in Nat
  OBVIOUS
<1>1. ASSUME NEW f \in S, NEW g \in S, f < g, Cardinality(Upto(f)) = Cardinality(Upto(g))
      PROVE  FALSE
  <2>1. Upto(g) \in SUBSET S /\ g \in Upto(g) /\ g \notin Upto(f)
    BY <1>0, <1>1
  <2>3. ASSUME NEW d \in Upto(f) PROVE d \in Upto(g)
    BY <1>0, <1>1
  <2>4. Upto(f) \in SUBSET Upto(g)
    BY <2>3
  <2>2. IsFiniteSet(Upto(g))
    BY <2>1, FS_Subset
  <2> HIDE DEF Upto
  <2> QED
    BY <1>1, <2>1, <2>2, <2>4, FS_Subset
<1>2. \A f \in S : Cardinality(Upto(f)) = Cardinality(Upto(e)) => f = e
  <2> SUFFICES ASSUME NEW f \in S, Cardinality(Upto(f)) = Cardinality(Upto(e)), f # e
               PROVE  FALSE
    OBVIOUS
  <2>1. f < e \/ e < f
    BY <1>0
  <2> HIDE DEF Upto
  <2> QED
    BY <1>1, <2>1
<1> QED
  BY <1>2, Zenon DEF Nth

LEMMA FirstNth ==
  ASSUME NEW S \in SUBSET Nat, IsFiniteSet(S), NEW e \in S, \A d \in S : e <= d
  PROVE  Nth(S, 1) = e /\ Cardinality(S) >= 1
<1>0. \A d \in S : d \in Nat
  OBVIOUS
<1>1. {d \in S : d <= e} = {e}
  <2>1. \A d \in S : d <= e <=> d = e
    BY <1>0
  <2> QED
    BY <2>1
<1>2. Cardinality({e}) = 1
  BY FS_Singleton
<1>3. {e} \in SUBSET S /\ Cardinality(S) \in Nat
  BY FS_CardinalityType
<1>4. Cardinality({e}) <= Cardinality(S)
  BY <1>3, FS_Subset
<1> QED
  BY <1>1, <1>2, <1>3, <1>4, NthIs

LEMMA SecondNth ==
  ASSUME NEW S \in SUBSET Nat, IsFiniteSet(S), NEW e \in S, NEW f \in S,
         e < f, \A d \in S : d = e \/ f <= d
  PROVE  Nth(S, 2) = f /\ Cardinality(S) >= 2
<1>0. \A d \in S : d \in Nat
  OBVIOUS
<1>1. {d \in S : d <= f} = {e} \cup {f}
  <2>1. \A d \in S : d <= f <=> d = e \/ d = f
    BY <1>0
  <2> QED
    BY <2>1
<1>2. Cardinality({e} \cup {f}) = 2
  <2>1. IsFiniteSet({e}) /\ Cardinality({e}) = 1
    BY FS_Singleton
  <2>2. f \notin {e}
    BY <1>0
  <2>3. Cardinality({e} \cup {f}) =
          IF f \in {e} THEN Cardinality({e}) ELSE Cardinality({e}) + 1
    BY <2>1, FS_AddElement, Zenon
  <2> QED
    BY <2>1, <2>2, <2>3
<1>3. {e} \cup {f} \in SUBSET S /\ Cardinality(S) \in Nat
  BY FS_CardinalityType
<1>4. Cardinality({e} \cup {f}) <= Cardinality(S)
  BY <1>3, FS_Subset
<1> QED
  BY <1>1, <1>2, <1>3, <1>4, NthIs

------------------------------------------------------------------------------
(* Lines.                                                                  *)

LEMMA EndsType ==
  ASSUME NEW text \in Seq(Int), NEW delim
  PROVE  /\ Ends(text, delim) \in SUBSET (1..Len(text) + 1)
         /\ Ends(text, delim) \in SUBSET Nat /\ IsFiniteSet(Ends(text, delim))
         /\ Cardinality(Ends(text, delim)) \in Nat
<1>1. Ends(text, delim) \in SUBSET (1..Len(text) + 1)
  BY DEF Ends
<1>2. IsFiniteSet(1..Len(text) + 1)
  BY FS_Interval
<1> QED
  BY <1>1, <1>2, FS_Subset, FS_CardinalityType

\* The first line goes up to the first end, and the second up to the next.
LEMMA FirstLine ==
  ASSUME NEW text \in Seq(Int), NEW delim, NEW i \in Ends(text, delim),
         \A d \in Ends(text, delim) : i <= d
  PROVE  /\ Len(split(text, delim)) >= 1
         /\ split(text, delim)[1] = SubSeq(text, 1, i - 1)
<1> DEFINE ends == Ends(text, delim)
<1>1. Nth(ends, 1) = i /\ Cardinality(ends) >= 1 /\ Cardinality(ends) \in Nat
  BY EndsType, FirstNth
<1> DEFINE n == Cardinality(ends)
<1>2. split(text, delim) =
        [k \in 1..n |-> SubSeq(text, IF k = 1 THEN 1 ELSE Nth(ends, k - 1) + 1, Nth(ends, k) - 1)]
  BY DEF split
<1> HIDE DEF ends, n
<1>3. n \in Nat /\ 1 \in 1..n
  BY <1>1 DEF n
<1>4. Len(split(text, delim)) = n
  BY <1>2, <1>3
<1>5. \A k \in 1..n : split(text, delim)[k] =
        SubSeq(text, IF k = 1 THEN 1 ELSE Nth(ends, k - 1) + 1, Nth(ends, k) - 1)
  BY <1>2
<1> QED
  BY <1>1, <1>3, <1>4, <1>5 DEF n

LEMMA SecondLine ==
  ASSUME NEW text \in Seq(Int), NEW delim,
         NEW i \in Ends(text, delim), NEW j \in Ends(text, delim),
         i < j, \A d \in Ends(text, delim) : d = i \/ j <= d
  PROVE  /\ Len(split(text, delim)) >= 2
         /\ split(text, delim)[1] = SubSeq(text, 1, i - 1)
         /\ split(text, delim)[2] = SubSeq(text, i + 1, j - 1)
<1> DEFINE ends == Ends(text, delim)
<1>1. Nth(ends, 1) = i /\ Nth(ends, 2) = j /\ Cardinality(ends) >= 2 /\ Cardinality(ends) \in Nat
  <2>1. \A d \in ends : i <= d
    BY EndsType
  <2> QED
    BY <2>1, EndsType, FirstNth, SecondNth
<1> DEFINE n == Cardinality(ends)
<1>2. split(text, delim) =
        [k \in 1..n |-> SubSeq(text, IF k = 1 THEN 1 ELSE Nth(ends, k - 1) + 1, Nth(ends, k) - 1)]
  BY DEF split
<1> HIDE DEF ends, n
<1>3. n \in Nat /\ 1 \in 1..n /\ 2 \in 1..n
  BY <1>1 DEF n
<1>4. Len(split(text, delim)) = n
  BY <1>2, <1>3
<1>5. \A k \in 1..n : split(text, delim)[k] =
        SubSeq(text, IF k = 1 THEN 1 ELSE Nth(ends, k - 1) + 1, Nth(ends, k) - 1)
  BY <1>2
<1> QED
  BY <1>1, <1>3, <1>4, <1>5 DEF n

LEMMA Lines ==
  ASSUME NEW text \in Seq(Int), NEW delim
  PROVE  Len(split(text, delim)) = Cardinality(Ends(text, delim))
<1> DEFINE n == Cardinality(Ends(text, delim))
<1>1. n \in Nat
  BY EndsType
<1> HIDE DEF n
<1> QED
  BY <1>1 DEF split, n

\* Two lines have an end each.
LEMMA TwoLines ==
  ASSUME NEW text \in Seq(Int), NEW delim, Len(split(text, delim)) >= 2
  PROVE  \E i \in Ends(text, delim), j \in Ends(text, delim) :
           i < j /\ \A d \in Ends(text, delim) : d = i \/ j <= d
<1> DEFINE ends == Ends(text, delim)  i == Min(ends)  j == Min(ends \ {i})
<1>1. ends \in SUBSET Nat /\ IsFiniteSet(ends) /\ Cardinality(ends) >= 2
  BY EndsType, Lines
<1> HIDE DEF ends
<1>2. ends # {}
  BY <1>1, FS_EmptySet
<1>3. i \in ends /\ \A n \in ends : i <= n
  BY <1>1, <1>2, Least
<1> HIDE DEF i
<1>4. ends \ {i} # {}
  <2>1. ends # {i}
    <3>1. SUFFICES ASSUME ends = {i} PROVE FALSE
      OBVIOUS
    <3>2. Cardinality(ends) = 1
      BY <3>1, FS_Singleton, Zenon
    <3> QED
      BY <1>1, <3>2
  <2> QED
    BY <1>2, <2>1
<1>5. ends \ {i} \in SUBSET Nat
  BY <1>1
<1>6. j \in ends \ {i} /\ \A n \in ends \ {i} : j <= n
  BY <1>4, <1>5, Least
<1> HIDE DEF j
<1>7. i < j
  BY <1>1, <1>3, <1>6
<1> QED
  BY <1>3, <1>6, <1>7 DEF ends

\* The first two lines of a text with one delimiter before position j, where the
\* second line ends.
LEMMA SplitAt ==
  ASSUME NEW text \in Seq(Int), NEW delim,
         NEW i \in 1..Len(text), NEW j \in 1..Len(text) + 1, i < j, text[i] = delim,
         \A k \in 1..j - 1 : text[k] = delim => k = i,
         IF j = Len(text) + 1 THEN i # Len(text) ELSE text[j] = delim
  PROVE  /\ Len(split(text, delim)) >= 2
         /\ split(text, delim)[1] = SubSeq(text, 1, i - 1)
         /\ split(text, delim)[2] = SubSeq(text, i + 1, j - 1)
<1>1. Len(text) \in Nat /\ i \in Nat /\ j \in Nat
  OBVIOUS
<1>2. i \in Ends(text, delim)
  BY DEF Ends
<1>3. j \in Ends(text, delim)
  <2>1. CASE j = Len(text) + 1
    <3>1. text # <<>> /\ Last(text) # delim
      BY <1>1, <2>1 DEF Last
    <3> QED
      BY <2>1, <3>1 DEF Ends
  <2>2. CASE j # Len(text) + 1
    BY <1>1, <2>2 DEF Ends
  <2> QED
    BY <2>1, <2>2
<1>4. \A d \in Ends(text, delim) : d = i \/ j <= d
  BY <1>1 DEF Ends
<1> QED
  BY <1>2, <1>3, <1>4, SecondLine

\* A text without the delimiter is one line, or none if it is empty.
LEMMA SplitNone ==
  ASSUME NEW text \in Seq(Int), NEW delim, ~Contains(text, delim)
  PROVE  Len(split(text, delim)) = IF text = <<>> THEN 0 ELSE 1
<1>1. {i \in 1..Len(text) : text[i] = delim} = {}
  BY DEF Contains
<1>2. CASE text = <<>>
  <2>1. Ends(text, delim) = {}
    BY <1>1, <1>2 DEF Ends
  <2> QED
    BY <1>2, <2>1, Lines, FS_EmptySet
<1>3. CASE text # <<>>
  <2>1. Last(text) # delim
    BY <1>3 DEF Contains, Last
  <2>2. Ends(text, delim) = {Len(text) + 1}
    BY <1>1, <1>3, <2>1 DEF Ends
  <2>3. Cardinality({Len(text) + 1}) = 1
    BY FS_Singleton
  <2> QED
    BY <1>3, <2>2, <2>3, Lines
<1> QED
  BY <1>2, <1>3

------------------------------------------------------------------------------
(* Dates and times.                                                        *)

LEMMA FieldsType ==
  ASSUME NEW text \in Seq(Int)
  PROVE  ReadFields(text) \in Seq(Int) /\ Len(ReadFields(text)) = 3
<1> DEFINE More(r) == IF r.good /\ r.rest # <<>> THEN ReadInt(Tail(r.rest)) ELSE ReadInt(<<>>)
           first == ReadInt(text)  second == More(first)  third == More(second)
<1>1. ReadInt(<<>>).val \in Int /\ ReadInt(<<>>).rest \in Seq(Int)
  <2>1. <<>> \in Seq(Int)
    OBVIOUS
  <2> QED
    BY <2>1, ReadIntType
<1>2. ASSUME NEW r, r.rest \in Seq(Int)
      PROVE  More(r).val \in Int /\ More(r).rest \in Seq(Int)
  <2>1. r.rest # <<>> => Tail(r.rest) \in Seq(Int)
    BY <1>2
  <2>2. CASE r.good /\ r.rest # <<>>
    BY <2>1, <2>2, ReadIntType
  <2>3. CASE ~(r.good /\ r.rest # <<>>)
    BY <1>1, <2>3
  <2> QED
    BY <2>2, <2>3
<1>3. ReadFields(text) = <<first.val, second.val, third.val>>
  BY DEF ReadFields
<1> HIDE DEF More
<1>4. first.val \in Int /\ first.rest \in Seq(Int)
  BY ReadIntType
<1> HIDE DEF first
<1>5. second.val \in Int /\ second.rest \in Seq(Int)
  BY <1>2, <1>4
<1> HIDE DEF second
<1>6. third.val \in Int
  BY <1>2, <1>5
<1> HIDE DEF third
<1> QED
  BY <1>3, <1>4, <1>5, <1>6

LEMMA ParseType ==
  ASSUME NEW text \in Seq(Int), NEW t
  PROVE  LET r == ParseInteger(text, t)
         IN \/ r = Throws
            \/ /\ r.how = "ok" /\ r.val \in Seq(Int) /\ Len(r.val) = 1
               /\ r.val[1] \in RangeOf(t)
<1>1. TakeNumber(text).val \in Int
  BY ReadType
<1> QED
  BY <1>1 DEF ParseInteger, Ok, Throws

\* A number that to_string printed, if it is in range.
LEMMA ParseNumber ==
  ASSUME NEW n \in Int, n # Garbage, NEW t
  PROVE  ParseInteger(Number(n), t) = IF n \in RangeOf(t) THEN Ok(<<n>>) ELSE Throws
BY ReadNumberAlone DEF ParseInteger

LEMMA FloatType ==
  ASSUME NEW text \in Seq(Int)
  PROVE  \/ ParseFloat(text) = Throws
         \/ ParseFloat(text).how = "ok" /\ ParseFloat(text).val \in Seq(Int)
<1>1. TakeNumber(text).val \in Int
  BY ReadType
<1>2. 2 * TakeNumber(text).val - 1 \in Int /\ 2 * TakeNumber(text).val + 1 \in Int
      /\ 2 * TakeNumber(text).val - 0 \in Int /\ 2 * TakeNumber(text).val + 0 \in Int
  BY <1>1
<1> QED
  BY <1>2 DEF ParseFloat, Ok, Throws

LEMMA ContainsConcat ==
  ASSUME NEW a \in Seq(Int), NEW b \in Seq(Int), NEW e
  PROVE  Contains(a \o b, e) <=> Contains(a, e) \/ Contains(b, e)
<1>1. /\ a \o b \in Seq(Int) /\ Len(a \o b) = Len(a) + Len(b)
      /\ Len(a) \in Nat /\ Len(b) \in Nat
  OBVIOUS
<1>2. \A i \in 1..Len(a) : (a \o b)[i] = a[i]
  OBVIOUS
<1>3. \A i \in 1..Len(b) : (a \o b)[Len(a) + i] = b[i] /\ Len(a) + i \in 1..Len(a \o b)
  BY <1>1
<1>4. \A i \in 1..Len(a \o b) : i \in 1..Len(a) \/ (i - Len(a) \in 1..Len(b) /\ Len(a) + (i - Len(a)) = i)
  BY <1>1
<1>5. ASSUME Contains(a \o b, e) PROVE Contains(a, e) \/ Contains(b, e)
  <2>1. PICK i \in 1..Len(a \o b) : (a \o b)[i] = e
    BY <1>5 DEF Contains
  <2>2. CASE i \in 1..Len(a)
    BY <1>2, <2>1, <2>2 DEF Contains
  <2>3. CASE i - Len(a) \in 1..Len(b) /\ Len(a) + (i - Len(a)) = i
    <3>1. b[i - Len(a)] = e
      BY <1>3, <2>1, <2>3
    <3> QED
      BY <2>3, <3>1 DEF Contains
  <2> QED
    BY <1>4, <2>2, <2>3
<1>6. ASSUME Contains(a, e) PROVE Contains(a \o b, e)
  BY <1>1, <1>2, <1>6 DEF Contains
<1>7. ASSUME Contains(b, e) PROVE Contains(a \o b, e)
  BY <1>1, <1>3, <1>7 DEF Contains
<1> QED
  BY <1>5, <1>6, <1>7

LEMMA ContainsOne ==
  ASSUME NEW a, NEW e
  PROVE  Contains(<<a>>, e) <=> a = e
BY DEF Contains

\* Two texts with the delimiter between them are split into these two, or the second
\* is empty if another delimiter follows.
Halved(a, delim, b) ==
  LET text == a \o <<delim>> \o b
  IN /\ Len(split(text, delim)) >= 2
     /\ split(text, delim)[1] = a
     /\ split(text, delim)[2] = IF b[1] = delim THEN <<>> ELSE b

LEMMA SplitConcat ==
  ASSUME NEW a \in Seq(Int), NEW b \in Seq(Int), NEW delim \in Int,
         ~Contains(a, delim), b # <<>>, ~Contains(b, delim) \/ b[1] = delim
  PROVE  Halved(a, delim, b)
<1> DEFINE text == a \o <<delim>> \o b
           i == Len(a) + 1  j == IF b[1] = delim THEN i + 1 ELSE Len(text) + 1
<1>1. /\ text \in Seq(Int) /\ Len(text) = Len(a) + 1 + Len(b)
      /\ Len(a) \in Nat /\ Len(b) \in Nat /\ Len(b) > 0
  OBVIOUS
<1>2. \A k \in 1..Len(a) : text[k] = a[k] /\ text[k] # delim
  BY DEF Contains
<1>3. text[i] = delim
  OBVIOUS
<1>4. \A k \in 1..Len(b) : text[i + k] = b[k]
  BY <1>1
<1>5. SubSeq(text, 1, i - 1) = a
  OBVIOUS
<1>6. SubSeq(text, i + 1, Len(text)) = b
  OBVIOUS
<1> HIDE DEF text
<1>7. i \in 1..Len(text) /\ j \in 1..Len(text) + 1 /\ i < j
  BY <1>1
<1> DEFINE n == Len(a)  m == Len(b)  len == Len(text)
<1>13. /\ n \in Nat /\ m \in Nat /\ m > 0 /\ i = n + 1 /\ len = n + 1 + m
       /\ \/ j = i + 1 /\ b[1] = delim
          \/ j = len + 1 /\ b[1] # delim /\ ~Contains(b, delim)
  BY <1>1
<1> HIDE DEF n, m, len, i, j
<1>8. \A k \in 1..j - 1 : text[k] = delim => k = i
  <2> SUFFICES ASSUME NEW k \in 1..j - 1, text[k] = delim PROVE k = i
    OBVIOUS
  <2>1. CASE k \in 1..Len(a)
    BY <1>2, <2>1
  <2>2. CASE k > i
    <3>1. k - i \in 1..m /\ i + (k - i) = k /\ ~Contains(b, delim)
      BY <1>13, <2>2
    <3>2. b[k - i] = delim
      BY <1>4, <3>1 DEF m
    <3> QED
      BY <3>1, <3>2 DEF Contains, m
  <2>3. k \in 1..n \/ k > i \/ k = i
    BY <1>13
  <2> QED
    BY <2>1, <2>2, <2>3 DEF n
<1>9. IF j = Len(text) + 1 THEN i # Len(text) ELSE text[j] = delim
  <2>1. CASE j = i + 1 /\ b[1] = delim
    <3>1. text[j] = delim /\ j # len + 1
      BY <1>4, <1>13, <2>1 DEF m
    <3> QED
      BY <3>1 DEF len
  <2>2. CASE j = len + 1
    BY <1>13, <2>2 DEF len
  <2> QED
    BY <1>13, <2>1, <2>2
<1>10. /\ Len(split(text, delim)) >= 2
       /\ split(text, delim)[1] = SubSeq(text, 1, i - 1)
       /\ split(text, delim)[2] = SubSeq(text, i + 1, j - 1)
  <2>1. text \in Seq(Int)
    BY <1>1
  <2> HIDE DEF n, m, len
  <2> QED
    BY <1>3, <1>7, <1>8, <1>9, <2>1, SplitAt, Zenon
<1>11. CASE b[1] = delim
  <2>1. i \in Int /\ j - 1 = i /\ i + 1 > i
    BY <1>11, <1>13
  <2>2. SubSeq(text, i + 1, i) = <<>>
    BY <2>1, SubSeqEmpty
  <2> QED
    BY <1>5, <1>10, <1>11, <2>1, <2>2 DEF text, Halved
<1>12. CASE b[1] # delim
  <2>1. j - 1 = Len(text)
    BY <1>12, <1>13 DEF len
  <2> QED
    BY <1>5, <1>6, <1>10, <1>12, <2>1 DEF text, Halved
<1> QED
  BY <1>11, <1>12

LEMMA Concat ==
  ASSUME NEW a \in Seq(Int), NEW b \in Seq(Int)
  PROVE  a \o b \in Seq(Int)
OBVIOUS

\* The law by name, since the provers find no instance of an equation of texts.
Associates(a, b, c) == (a \o b) \o c = a \o (b \o c)

LEMMA Associative ==
  ASSUME NEW a \in Seq(Int), NEW b \in Seq(Int), NEW c \in Seq(Int)
  PROVE  Associates(a, b, c)
BY ConcatAssociative DEF Associates

LEMMA One ==
  ASSUME NEW a \in Int
  PROVE  <<a>> \in Seq(Int) /\ <<a>> # <<>>
OBVIOUS

\* Three numbers that to_string printed with a character between them.
LEMMA FieldsText ==
  ASSUME NEW f \in Seq(Int), Len(f) >= 3, NEW sep \in Int
  PROVE  /\ Number(f[1]) \in Seq(Int) /\ Number(f[2]) \in Seq(Int)
         /\ Number(f[3]) \in Seq(Int) /\ <<sep>> \in Seq(Int)
         /\ Fields(f, sep) =
              Number(f[1]) \o (<<sep>> \o (Number(f[2]) \o (<<sep>> \o Number(f[3]))))
<1>1. f[1] \in Int /\ f[2] \in Int /\ f[3] \in Int
  OBVIOUS
<1>2. /\ Number(f[1]) \in Seq(Int) /\ Number(f[2]) \in Seq(Int)
      /\ Number(f[3]) \in Seq(Int) /\ <<sep>> \in Seq(Int)
  BY <1>1, NumberType, One
<1> DEFINE a == Number(f[1])  b == Number(f[2])  c == Number(f[3])  s == <<sep>>
           ab == a \o s  abc == ab \o b  de == s \o c  cde == b \o de
<1>3. Fields(f, sep) = abc \o s \o c
  BY DEF Fields
<1>4. a \in Seq(Int) /\ b \in Seq(Int) /\ c \in Seq(Int) /\ s \in Seq(Int)
  BY <1>2
<1> HIDE DEF a, b, c, s
<1>5. ab \in Seq(Int) /\ de \in Seq(Int)
  BY <1>4, Concat
<1> HIDE DEF ab, de
<1>6. abc \in Seq(Int) /\ cde \in Seq(Int)
  BY <1>4, <1>5, Concat
<1> HIDE DEF abc, cde
<1>7. Associates(abc, s, c) /\ Associates(ab, b, de) /\ Associates(a, s, cde)
  BY <1>4, <1>5, <1>6, Associative
<1>8. Fields(f, sep) = a \o (s \o (b \o (s \o c)))
  BY <1>3, <1>7, Zenon DEF Associates, ab, abc, cde, de
<1> QED
  BY <1>4, <1>8, Zenon DEF a, b, c, s

LEMMA FieldsBack ==
  ASSUME NEW f \in Seq(Int), Len(f) >= 3, NEW sep \in Int,
         f[1] \in RangeOf("int"), f[2] \in RangeOf("int"), f[3] \in RangeOf("int")
  PROVE  ReadFields(Fields(f, sep)) = <<f[1], f[2], f[3]>>
<1> DEFINE More(r) == IF r.good /\ r.rest # <<>> THEN ReadInt(Tail(r.rest)) ELSE ReadInt(<<>>)
           b == Number(f[2])  c == Number(f[3])  s == <<sep>>
           text == Fields(f, sep)  first == ReadInt(text)  second == More(first)
<1>1. f[1] \in Int /\ f[2] \in Int /\ f[3] \in Int
  OBVIOUS
<1>2. /\ b \in Seq(Int) /\ c \in Seq(Int) /\ s \in Seq(Int)
  BY <1>1, NumberType, One
<1> DEFINE sc == s \o c  bsc == b \o sc  sbsc == s \o bsc
<1>3. sc \in Seq(Int) /\ sc # <<>> /\ Tail(sc) = c
  BY <1>2, Behind
<1> HIDE DEF sc
<1>4. bsc \in Seq(Int)
  BY <1>2, <1>3, Concat
<1> HIDE DEF bsc
<1>5. sbsc \in Seq(Int) /\ sbsc # <<>> /\ Tail(sbsc) = bsc
  BY <1>4, Behind
<1> HIDE DEF sbsc
<1>6. first = [val |-> f[1], good |-> TRUE, rest |-> sbsc]
  <2>1. text = Number(f[1]) \o sbsc
    BY <1>1, FieldsText, Zenon DEF sc, bsc, sbsc
  <2> QED
    BY <1>1, <1>5, <2>1, ReadIntNumber
<1>7. ReadInt(bsc) = [val |-> f[2], good |-> TRUE, rest |-> sc]
  BY <1>1, <1>3, ReadIntNumber DEF bsc
<1>8. ReadInt(c) = [val |-> f[3], good |-> TRUE, rest |-> <<>>]
  BY <1>1, ReadIntNumberAlone
<1>9. ReadFields(text) = <<first.val, second.val, More(second).val>>
  BY DEF ReadFields
<1> HIDE DEF b, c, s, text, first
<1>10. second = [val |-> f[2], good |-> TRUE, rest |-> sc]
  BY <1>5, <1>6, <1>7
<1> HIDE DEF second
<1>11. More(second) = [val |-> f[3], good |-> TRUE, rest |-> <<>>]
  BY <1>3, <1>8, <1>10
<1> HIDE DEF More
<1> QED
  BY <1>6, <1>9, <1>10, <1>11 DEF text

\* No character but digits, a sign and the separator.
LEMMA NumberContains ==
  ASSUME NEW n \in Int, n # Garbage, NEW e \in Int, e < 0, Contains(Number(n), e)
  PROVE  e = Dash /\ n < 0
<1>1. CASE n < 0
  <2>1. Number(n) = <<Dash, -n>> /\ -n >= 0
    BY <1>1 DEF Number
  <2> QED
    BY <1>1, <2>1 DEF Contains, Dash
<1>2. CASE n >= 0
  <2>1. Number(n) = <<n>>
    BY <1>2 DEF Number
  <2> QED
    BY <1>2, <2>1 DEF Contains
<1> QED
  BY <1>1, <1>2

LEMMA FieldsContain ==
  ASSUME NEW f \in Seq(Int), Len(f) >= 3, NEW sep \in Int,
         f[1] # Garbage, f[2] # Garbage, f[3] # Garbage, NEW e \in Int, e < 0, e # sep, Contains(Fields(f, sep), e)
  PROVE  e = Dash /\ (f[1] < 0 \/ f[2] < 0 \/ f[3] < 0)
<1> DEFINE a == Number(f[1])  b == Number(f[2])  c == Number(f[3])  s == <<sep>>
<1>1. f[1] \in Int /\ f[2] \in Int /\ f[3] \in Int
  OBVIOUS
<1>2. /\ a \in Seq(Int) /\ b \in Seq(Int) /\ c \in Seq(Int) /\ s \in Seq(Int)
  BY <1>1, NumberType, One
<1>3. ~Contains(s, e)
  BY ContainsOne
<1> DEFINE sc == s \o c  bsc == b \o sc  sbsc == s \o bsc
<1>4. Contains(a, e) \/ Contains(sbsc, e)
  <2>1. Fields(f, sep) = a \o sbsc
    BY <1>1, FieldsText, Zenon
  <2>2. sbsc \in Seq(Int)
    BY <1>2, Concat
  <2> HIDE DEF a, sbsc
  <2> QED
    BY <1>2, <2>1, <2>2, ContainsConcat
<1> HIDE DEF a, b, c, s
<1>5. sc \in Seq(Int) /\ (Contains(sc, e) <=> Contains(c, e))
  BY <1>2, <1>3, Concat, ContainsConcat
<1> HIDE DEF sc
<1>6. bsc \in Seq(Int) /\ (Contains(bsc, e) <=> Contains(b, e) \/ Contains(sc, e))
  BY <1>2, <1>5, Concat, ContainsConcat
<1> HIDE DEF bsc
<1>7. Contains(sbsc, e) <=> Contains(bsc, e)
  BY <1>2, <1>3, <1>6, ContainsConcat
<1>8. Contains(a, e) \/ Contains(b, e) \/ Contains(c, e)
  BY <1>4, <1>5, <1>6, <1>7
<1> QED
  BY <1>1, <1>8, NumberContains DEF a, b, c

LEMMA Separate ==
  /\ Dash \in Int /\ Space \in Int /\ Colon \in Int
  /\ Dash < 0 /\ Space < 0 /\ Colon < 0
  /\ Dash # Space /\ Dash # Colon /\ Space # Colon
BY DEF Dash, Space, Colon

LEMMA FieldsNotEmpty ==
  ASSUME NEW f \in Seq(Int), Len(f) >= 3, NEW sep \in Int
  PROVE  Fields(f, sep) \in Seq(Int) /\ Fields(f, sep) # <<>>
<1> DEFINE a == Number(f[1])  rest == <<sep>> \o (Number(f[2]) \o (<<sep>> \o Number(f[3])))
<1>1. f[1] \in Int
  OBVIOUS
<1>2. a \in Seq(Int) /\ a # <<>> /\ rest \in Seq(Int)
  BY <1>1, FieldsText, NumberType, Concat
<1>3. Fields(f, sep) = a \o rest
  BY FieldsText, Zenon
<1> HIDE DEF a, rest
<1> QED
  BY <1>2, <1>3

LEMMA FieldsPrinted ==
  ASSUME NEW f \in Seq(Int), Len(f) >= 3, NEW sep \in {Dash, Colon},
         f[1] \in RangeOf("int"), f[2] \in RangeOf("int"), f[3] \in RangeOf("int")
  PROVE  /\ Fields(f, sep) \in Seq(Int) /\ Fields(f, sep) # <<>>
         /\ ~Contains(Fields(f, sep), Space)
         /\ ReadFields(Fields(f, sep)) = <<f[1], f[2], f[3]>>
         /\ sep = Colon /\ f[1] >= 0 /\ f[2] >= 0 /\ f[3] >= 0 =>
              ~Contains(Fields(f, sep), Dash)
<1>1. /\ sep \in Int /\ Space \in Int /\ Space < 0 /\ Space # sep /\ Space # Dash
      /\ Dash \in Int /\ Dash < 0 /\ Dash # Colon
  BY Separate
<1>2. /\ f[1] \in Int /\ f[2] \in Int /\ f[3] \in Int
      /\ f[1] # Garbage /\ f[2] # Garbage /\ f[3] # Garbage
  BY RangeType
<1>3. Fields(f, sep) \in Seq(Int) /\ Fields(f, sep) # <<>>
  BY <1>1, FieldsNotEmpty
<1>4. ~Contains(Fields(f, sep), Space)
  BY <1>1, <1>2, FieldsContain
<1>5. ReadFields(Fields(f, sep)) = <<f[1], f[2], f[3]>>
  BY <1>1, FieldsBack
<1>6. ASSUME sep = Colon, f[1] >= 0, f[2] >= 0, f[3] >= 0
      PROVE  ~Contains(Fields(f, sep), Dash)
  <2>1. Dash # sep /\ ~(f[1] < 0 \/ f[2] < 0 \/ f[3] < 0)
    BY <1>1, <1>2, <1>6
  <2> QED
    BY <1>1, <1>2, <2>1, FieldsContain
<1> QED
  BY <1>3, <1>4, <1>5, <1>6

\* Seven numbers are a date, a time and a zone.
LEMMA DateAndTime ==
  ASSUME NEW dt \in [1..7 -> Int]
  PROVE  /\ DateOf(dt) \in Seq(Int) /\ TimeOf(dt) \in Seq(Int)
         /\ Len(DateOf(dt)) >= 3 /\ Len(TimeOf(dt)) >= 3
         /\ DateOf(dt)[1] = dt[1] /\ DateOf(dt)[2] = dt[2] /\ DateOf(dt)[3] = dt[3]
         /\ TimeOf(dt)[1] = dt[4] /\ TimeOf(dt)[2] = dt[5] /\ TimeOf(dt)[3] = dt[6]
         /\ ZoneOf(dt) = dt[7]
         /\ dt = <<dt[1], dt[2], dt[3]>> \o <<dt[4], dt[5], dt[6]>> \o <<dt[7]>>
<1>1. /\ SubSeq(dt, 1, 3) \in Seq(Int) /\ Len(SubSeq(dt, 1, 3)) = 3
      /\ \A i \in 1..3 : SubSeq(dt, 1, 3)[i] = dt[i]
  OBVIOUS
<1>2. /\ SubSeq(dt, 4, 6) \in Seq(Int) /\ Len(SubSeq(dt, 4, 6)) = 3
      /\ \A i \in 1..3 : SubSeq(dt, 4, 6)[i] = dt[i + 3]
  OBVIOUS
<1>3. dt = <<dt[1], dt[2], dt[3]>> \o <<dt[4], dt[5], dt[6]>> \o <<dt[7]>>
  OBVIOUS
<1> QED
  BY <1>1, <1>2, <1>3 DEF DateOf, TimeOf, ZoneOf

LEMMA FirstContained ==
  ASSUME NEW a \in Seq(Int), a # <<>>
  PROVE  Contains(a, a[1])
BY DEF Contains

LEMMA LineCount ==
  ASSUME NEW text \in Seq(Int), NEW delim
  PROVE  Len(split(text, delim)) \in Nat
BY EndsType, Lines

\* A DateTime that was printed, if no field of its time is negative.
LEMMA DateTimeBack ==
  ASSUME NEW dt \in [1..7 -> Int], \A i \in 1..7 : dt[i] \in RangeOf("int"),
         dt[4] >= 0, dt[5] >= 0, dt[6] >= 0
  PROVE  DateTimeFromString(DateTimeToString(dt)) =
           IF dt[7] < NoZone THEN Throws ELSE Ok(dt)
<1> DEFINE zone == dt[7]  text == DateTimeToString(dt)
           D == DateToString(DateOf(dt))  T == TimeToString(TimeOf(dt))  sp == <<Space>>
           N == Number(zone)  dash == <<Dash>>
           Z == IF zone = NoZone THEN <<>> ELSE dash \o N
           R == T \o Z  s == split(text, Space)  t == split(R, Dash)
           r == ParseInteger(t[2], "int")
           date == <<dt[1], dt[2], dt[3]>>  time == <<dt[4], dt[5], dt[6]>>
<1>1. zone \in Int /\ zone # Garbage /\ zone \in RangeOf("int")
  BY RangeType
<1>2. D \in Seq(Int) /\ ~Contains(D, Space) /\ ReadFields(D) = date
  <2>1. /\ dt[1] \in RangeOf("int") /\ dt[2] \in RangeOf("int")
        /\ dt[3] \in RangeOf("int")
    OBVIOUS
  <2> DEFINE f == DateOf(dt)
  <2>2. f \in Seq(Int) /\ Len(f) >= 3 /\ f[1] = dt[1] /\ f[2] = dt[2] /\ f[3] = dt[3]
    BY DateAndTime
  <2> HIDE DEF f
  <2> QED
    BY <2>1, <2>2, FieldsPrinted DEF DateToString, f
<1>3. /\ T \in Seq(Int) /\ T # <<>> /\ ~Contains(T, Space) /\ ~Contains(T, Dash)
      /\ ReadFields(T) = time
  <2>1. /\ dt[4] \in RangeOf("int") /\ dt[5] \in RangeOf("int")
        /\ dt[6] \in RangeOf("int")
    OBVIOUS
  <2> DEFINE f == TimeOf(dt)
  <2>2. f \in Seq(Int) /\ Len(f) >= 3 /\ f[1] = dt[4] /\ f[2] = dt[5] /\ f[3] = dt[6]
    BY DateAndTime
  <2> HIDE DEF f
  <2> QED
    BY <2>1, <2>2, FieldsPrinted DEF TimeToString, f
<1>4. N \in Seq(Int) /\ N # <<>> /\ ~Contains(N, Space) /\ (Contains(N, Dash) => zone < 0)
  <2>1. /\ Space \in Int /\ Space < 0 /\ Space # Dash /\ Dash \in Int /\ Dash < 0
    BY Separate
  <2> QED
    BY <1>1, <2>1, NumberType, NumberContains
<1>5. /\ dash \in Seq(Int) /\ sp \in Seq(Int) /\ ~Contains(dash, Space) /\ Contains(dash, Dash)
      /\ Dash \in Int /\ Space \in Int
  <2>1. Contains(dash, Dash) /\ ~Contains(dash, Space)
    BY Separate, ContainsOne
  <2> QED
    BY Separate, <2>1
<1>6. Z \in Seq(Int) /\ ~Contains(Z, Space)
  <2>1. CASE zone = NoZone
    BY <2>1 DEF Contains
  <2>2. CASE zone # NoZone
    <3> HIDE DEF dash, N
    <3> QED
      BY <1>4, <1>5, <2>2, Concat, ContainsConcat
  <2> QED
    BY <2>1, <2>2
<1>7. R \in Seq(Int) /\ R # <<>> /\ ~Contains(R, Space)
  <2> HIDE DEF Z, T
  <2> QED
    BY <1>3, <1>6, ContainsConcat
<1>8. /\ Len(s) \in Nat /\ Len(s) >= 2 /\ s[1] = D /\ s[2] = R
  <2>1. text = D \o sp \o T \o Z
    <3>1. ZoneOf(dt) = zone
      BY DateAndTime
    <3> QED
      BY <3>1, Zenon DEF DateTimeToString
  <2> HIDE DEF D, T, Z, sp, text
  <2>2. D \o sp \in Seq(Int)
    BY <1>2, <1>5
  <2>3. Associates(D \o sp, T, Z)
    BY <1>3, <1>6, <2>2, Associative
  <2>4. text = D \o sp \o R
    BY <2>1, <2>3, Zenon DEF Associates
  <2>5. R[1] # Space
    BY <1>7, FirstContained
  <2> HIDE DEF R
  <2>6. Halved(D, Space, R)
    BY <1>2, <1>5, <1>7, SplitConcat
  <2>7. text \in Seq(Int)
    <3> HIDE DEF sp
    <3> QED
      BY <1>2, <1>5, <1>7, <2>4, Concat
  <2>8. Len(s) \in Nat
    BY <2>7, LineCount
  <2> QED
    BY <2>4, <2>5, <2>6, <2>8, Zenon DEF sp, Halved
<1>9. dt = date \o time \o <<zone>>
  BY DateAndTime
<1>10. CASE zone = NoZone
  <2>1. R = T
    <3>1. Z = <<>>
      BY <1>10
    <3> HIDE DEF T, Z
    <3> QED
      BY <1>3, <3>1
  <2>2. DateTimeFromString(text) = Ok(ReadFields(D) \o ReadFields(T) \o <<NoZone>>)
    <3>1. Len(s) \in Nat
      BY <1>8
    <3>2. ~(Len(s) < 2) /\ ~Contains(s[2], Dash) /\ s[1] = D /\ s[2] = T
      <4> HIDE DEF D, T, R, s
      <4> QED
        BY <1>3, <1>8, <2>1, <3>1
    <3> HIDE DEF D, T, R, Z, zone
    <3> QED
      BY <3>2, Zenon DEF DateTimeFromString, s
  <2> HIDE DEF text, D, T
  <2>3. DateTimeFromString(text) = Ok(date \o time \o <<zone>>)
    BY <1>2, <1>3, <1>10, <2>2
  <2>4. DateTimeFromString(text) = Ok(dt)
    <3> HIDE DEF date, time, zone
    <3> QED
      BY <1>9, <2>3, Zenon
  <2> HIDE DEF zone
  <2>5. ~(zone < NoZone)
    BY <1>1, <1>10
  <2> QED
    BY <2>4, <2>5, Zenon DEF text, zone
<1>11. CASE zone # NoZone
  <2>1. R = T \o dash \o N
    <3>1. Associates(T, dash, N)
      BY <1>3, <1>4, <1>5, Associative
    <3> QED
      BY <1>11, <3>1, Zenon DEF Associates
  <2>2. /\ Len(t) \in Nat /\ Len(t) >= 2 /\ t[1] = T /\ t[2] = IF N[1] = Dash THEN <<>> ELSE N
    <3> HIDE DEF T, N, R
    <3>1. ~Contains(N, Dash) \/ N[1] = Dash
      <4>1. CASE zone >= 0
        BY <1>1, <1>4, <4>1
      <4>2. CASE zone < 0
        BY <1>1, <4>2 DEF Number, N
      <4> QED
        BY <1>1, <4>1, <4>2
    <3>2. Halved(T, Dash, N)
      BY <1>3, <1>4, <1>5, <3>1, SplitConcat
    <3>3. R \in Seq(Int) /\ Len(t) \in Nat
      BY <1>7, LineCount
    <3> QED
      BY <2>1, <3>2, <3>3, Zenon DEF Halved
  <2>3. Contains(R, Dash)
    <3>1. dash \o N \in Seq(Int) /\ Contains(dash \o N, Dash)
      BY <1>4, <1>5, Concat, ContainsConcat
    <3> HIDE DEF dash, N, T
    <3> QED
      BY <1>3, <1>11, <3>1, ContainsConcat
  <2>4. DateTimeFromString(text) =
          IF r.how = "ok" THEN Ok(date \o time \o r.val) ELSE r
    <3>1. ~(Len(s) < 2) /\ s[1] = D /\ s[2] = R /\ Contains(s[2], Dash)
      <4> HIDE DEF D, R, s
      <4> QED
        BY <1>8, <2>3
    <3>2. ~(Len(t) < 2)
      <4> HIDE DEF t
      <4> QED
        BY <2>2
    <3> HIDE DEF R, T, D, Z, N, zone, date, time
    <3> QED
      BY <1>2, <1>3, <2>2, <3>1, <3>2, Zenon DEF DateTimeFromString, Then, s, t, r
  <2>5. CASE zone < NoZone
    <3>1. zone < 0 /\ N[1] = Dash
      BY <1>1, <2>5 DEF NoZone, Number
    <3>2. ParseInteger(<<>>, "int") = Throws
      BY DEF ParseInteger, TakeNumber
    <3>3. r = Throws
      <4> HIDE DEF N, t
      <4> QED
        BY <2>2, <3>1, <3>2
    <3> HIDE DEF N, t, r
    <3> QED
      BY <2>4, <2>5, <3>3 DEF Throws, text
  <2>6. CASE ~(zone < NoZone)
    <3>1. zone >= 0
      BY <1>1, <1>11, <2>6 DEF NoZone
    <3>2. N[1] # Dash
      BY <1>1, <1>4, <3>1, FirstContained
    <3>3. ParseInteger(N, "int") = Ok(<<zone>>)
      BY <1>1, ParseNumber
    <3> HIDE DEF N, t, T, date, time
    <3>4. t[2] = N
      BY <2>2, <3>2
    <3>5. DateTimeFromString(text) = Ok(date \o time \o <<zone>>)
      <4>1. r = Ok(<<zone>>)
        BY <3>3, <3>4
      <4>2. r.how = "ok" /\ r.val = <<zone>>
        BY <4>1 DEF Ok
      <4> QED
        BY <2>4, <4>2, Zenon
    <3> QED
      BY <1>9, <2>6, <3>5 DEF text
  <2> QED
    BY <2>5, <2>6
<1> QED
  BY <1>10, <1>11

\* A line is a text.
LEMMA LineType ==
  ASSUME NEW text \in Seq(Int), NEW delim, ~(Len(split(text, delim)) < 2)
  PROVE  split(text, delim)[1] \in Seq(Int) /\ split(text, delim)[2] \in Seq(Int)
<1>1. Len(split(text, delim)) >= 2
  BY LineCount
<1>2. PICK i \in Ends(text, delim), j \in Ends(text, delim) :
        i < j /\ \A d \in Ends(text, delim) : d = i \/ j <= d
  BY <1>1, TwoLines
<1>3. i \in 1..Len(text) + 1 /\ j \in 1..Len(text) + 1
  BY EndsType
<1>4. SubSeq(text, 1, i - 1) \in Seq(Int) /\ SubSeq(text, i + 1, j - 1) \in Seq(Int)
  <2>1. \A a, b \in Int : 1 <= a /\ b <= Len(text) => SubSeq(text, a, b) \in Seq(Int)
    OBVIOUS
  <2> QED
    BY <1>3, <2>1
<1>5. /\ split(text, delim)[1] = SubSeq(text, 1, i - 1)
      /\ split(text, delim)[2] = SubSeq(text, i + 1, j - 1)
  BY <1>2, SecondLine
<1> QED
  BY <1>4, <1>5

\* A date and a time that were read, if they were.
LEMMA DateTimeType ==
  ASSUME NEW text \in Seq(Int)
  PROVE  LET r == DateTimeFromString(text)
         IN r = Undefined \/ r = Throws \/ (r.how = "ok" /\ r.val \in Seq(Int))
<1> DEFINE s == split(text, Space)  t == split(s[2], Dash)  z == ParseInteger(t[2], "int")
           date == ReadFields(s[1])  r == DateTimeFromString(text)
           whole == date \o ReadFields(s[2]) \o <<NoZone>>
           zoned == date \o ReadFields(t[1]) \o z.val
<1>1. CASE Len(s) < 2
  BY <1>1 DEF DateTimeFromString
<1>2. CASE ~(Len(s) < 2) /\ ~Contains(s[2], Dash)
  <2>1. s[1] \in Seq(Int) /\ s[2] \in Seq(Int)
    BY <1>2, LineType
  <2>2. whole \in Seq(Int)
    <3>1. <<NoZone>> \in Seq(Int) 
      BY One DEF NoZone
    <3>2. date \in Seq(Int) /\ ReadFields(s[2]) \in Seq(Int)
      BY <2>1, FieldsType
    <3> HIDE DEF date
    <3> QED
      BY <3>1, <3>2, Concat
  <2>3. r = Ok(whole)
    BY <1>2, Zenon DEF DateTimeFromString
  <2> HIDE DEF r, whole
  <2> QED
    BY <2>2, <2>3 DEF Ok, r
<1>3. CASE ~(Len(s) < 2) /\ Contains(s[2], Dash) /\ Len(t) < 2
  BY <1>3, Zenon DEF DateTimeFromString
<1>4. CASE ~(Len(s) < 2) /\ Contains(s[2], Dash) /\ ~(Len(t) < 2)
  <2>1. s[1] \in Seq(Int) /\ s[2] \in Seq(Int)
    BY <1>4, LineType
  <2>2. t[1] \in Seq(Int) /\ t[2] \in Seq(Int)
    BY <1>4, <2>1, LineType
  <2>3. z = Throws \/ (z.how = "ok" /\ z.val \in Seq(Int))
    BY <2>2, ParseType
  <2>4. r = IF z.how = "ok" THEN Ok(zoned) ELSE z
    BY <1>4, Zenon DEF DateTimeFromString, Then
  <2>5. CASE z.how = "ok"
    <3>1. zoned \in Seq(Int)
      <4>1. z.val \in Seq(Int)
        BY <2>3, <2>5 DEF Throws
      <4>2. date \in Seq(Int) /\ ReadFields(t[1]) \in Seq(Int)
        BY <2>1, <2>2, FieldsType
      <4> HIDE DEF date, z
      <4> QED
        BY <4>1, <4>2, Concat
    <3> HIDE DEF r, z, zoned
    <3> QED
      BY <2>4, <2>5, <3>1 DEF Ok, r
  <2>6. CASE z.how # "ok"
    <3> HIDE DEF r, z, zoned
    <3> QED
      BY <2>3, <2>4, <2>6 DEF r
  <2> QED
    BY <2>5, <2>6
<1> QED
  BY <1>1, <1>2, <1>3, <1>4

=============================================================================
