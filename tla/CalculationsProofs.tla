------------------------- MODULE CalculationsProofs -------------------------
(***************************************************************************)
(* What the two calculations give for every input: the backoff on a        *)
(* machine word of any width, for every policy and number of attempts; the *)
(* monthly cycle for every anchor, every instant and every resolution of   *)
(* the clock.                                                              *)
(***************************************************************************)
EXTENDS MCCalculations, FiniteSums

(***************************************************************************)
(* Powers of two, counted as the subsets of 1 .. n: adding n + 1 to each   *)
(* of them gives as many again.                                            *)
(***************************************************************************)
LEMMA PowerCounts ==
  ASSUME NEW n \in Nat
  PROVE  /\ IsFiniteSet(SUBSET (1 .. n)) /\ Cardinality(SUBSET (1 .. n)) = 2^n
         /\ 2^n \in Nat
<1>1. IsFiniteSet(1 .. n) /\ Cardinality(1 .. n) = n
  BY FS_Interval
<1>2. IsFiniteSet(SUBSET (1 .. n)) /\ Cardinality(SUBSET (1 .. n)) = 2^n
  BY <1>1, FS_SUBSET
<1>. QED BY <1>2, FS_CardinalityType

LEMMA PowerDoubles ==
  ASSUME NEW n \in Nat
  PROVE  2^(n + 1) = 2 * 2^n
<1> DEFINE Old == SUBSET (1 .. n)
           With(X) == X \cup {n + 1}
           New == {With(X) : X \in Old}
           f == [X \in Old |-> With(X)]
<1>1. \A X \in Old : n + 1 \notin X
  OBVIOUS
<1>2. f \in Bijection(Old, New)
  <2>1. f \in [Old -> New] /\ \A Y \in New : \E X \in Old : f[X] = Y
    OBVIOUS
  <2>2. \A X, Y \in Old : f[X] = f[Y] => X = Y
    BY <1>1
  <2>. QED BY <2>1, <2>2 DEF Bijection, Injection, Surjection, IsInjective
<1>3. SUBSET (1 .. n + 1) = Old \cup New
  <2>1. ASSUME NEW Y \in SUBSET (1 .. n + 1), n + 1 \in Y
        PROVE  Y \in New
    <3>1. Y \ {n + 1} \in Old /\ Y = With(Y \ {n + 1})
      BY <2>1
    <3>. QED BY <3>1
  <2>2. ASSUME NEW Y \in SUBSET (1 .. n + 1), n + 1 \notin Y
        PROVE  Y \in Old
    BY <2>2
  <2>3. Old \cup New \subseteq SUBSET (1 .. n + 1)
    <3>1. 1 .. n \subseteq 1 .. n + 1 /\ n + 1 \in 1 .. n + 1
      OBVIOUS
    <3>2. ASSUME NEW X \in Old
          PROVE  X \in SUBSET (1 .. n + 1) /\ With(X) \in SUBSET (1 .. n + 1)
      BY <3>1
    <3>. HIDE DEF With, Old
    <3>. QED BY <3>2
  <2>. QED BY <2>1, <2>2, <2>3
<1>4. Old \cap New = {}
  BY <1>1
<1>5. IsFiniteSet(Old) /\ Cardinality(Old) = 2^n /\ 2^n \in Nat
  BY PowerCounts
<1>6. Cardinality(SUBSET (1 .. n + 1)) = 2^(n + 1)
  <2>1. \A i \in Nat : Cardinality(SUBSET (1 .. i)) = 2^i
    BY PowerCounts
  <2>2. n + 1 \in Nat
    OBVIOUS
  <2>. QED BY ONLY <2>1, <2>2, Zenon
<1>. HIDE DEF Old, New, f
<1>7. IsFiniteSet(New) /\ Cardinality(New) = Cardinality(Old)
  BY <1>2, <1>5, FS_Bijection DEF ExistsBijection
<1>8. Cardinality(Old \cup New) = Cardinality(Old) + Cardinality(New) - Cardinality(Old \cap New)
  BY <1>5, <1>7, FS_Union
<1>9. Cardinality({}) = 0
  BY FS_EmptySet
<1>10. Cardinality(SUBSET (1 .. n + 1)) = 2 * Cardinality(Old)
  <2>1. Cardinality(Old) \in Nat
    BY <1>5, FS_CardinalityType
  <2>2. Cardinality(SUBSET (1 .. n + 1)) = Cardinality(Old \cup New)
    BY ONLY <1>3, Zenon
  <2>3. Cardinality(Old \cap New) = 0
    BY ONLY <1>4, <1>9, Zenon
  <2>. QED BY ONLY <1>7, <1>8, <2>1, <2>2, <2>3
<1>. QED BY ONLY <1>5, <1>6, <1>10, Zenon

LEMMA PowerZero == 2^0 = 1
  OBVIOUS

LEMMA PowerPositive ==
  ASSUME NEW n \in Nat
  PROVE  2^n \in Nat /\ 2^n > 0
<1> DEFINE Good == {m \in Nat : 2^m > 0}
<1>1. 0 \in Good
  BY PowerZero
<1>2. \A m \in Nat : m \in Good => m + 1 \in Good
  BY PowerDoubles, PowerCounts
<1>. HIDE DEF Good
<1>3. n \in Good
  BY <1>1, <1>2, NaturalInduction
<1>. QED BY <1>3, PowerCounts DEF Good

LEMMA PowerGrows ==
  ASSUME NEW n \in Nat, NEW m \in Nat
  PROVE  2^n <= 2^(n + m)
<1> DEFINE Good == {i \in Nat : 2^n <= 2^(n + i)}
<1>1. 0 \in Good
  BY PowerCounts
<1>2. ASSUME NEW i \in Nat, i \in Good
      PROVE  i + 1 \in Good
  <2>1. n + (i + 1) = (n + i) + 1 /\ n + i \in Nat
    OBVIOUS
  <2>2. 2^(n + (i + 1)) = 2 * 2^(n + i)
    BY <2>1, PowerDoubles
  <2>. QED BY <1>2, <2>1, <2>2, PowerPositive
<1>. HIDE DEF Good
<1>3. m \in Good
  BY <1>1, <1>2, NaturalInduction
<1>. QED BY <1>3 DEF Good
-----------------------------------------------------------------------------
(***************************************************************************)
(* The backoff.  The guard refuses a shift exactly when the product leaves *)
(* the word, and what leaves the word is beyond every policy's maximum.    *)
(***************************************************************************)
LEMMA ProductAscends ==
  ASSUME NEW a \in Int, NEW b \in Int, NEW m \in Nat, a <= b
  PROVE  a * m <= b * m
  OBVIOUS

LEMMA DivisionBounds ==
  ASSUME NEW a \in Nat, NEW m \in Nat \ {0}
  PROVE  /\ a \div m \in Nat /\ (a \div m) * m <= a
         /\ a < (a \div m + 1) * m
<1>1. a = m * (a \div m) + (a % m) /\ a % m \in 0 .. m - 1 /\ a \div m \in Int
  OBVIOUS
<1>2. a \div m >= 0
  <2>. SUFFICES ASSUME a \div m <= -1
                PROVE  FALSE
    BY <1>1
  <2>1. (a \div m) * m <= (-1) * m
    BY <1>1, ProductAscends
  <2>. QED BY <1>1, <2>1
<1>. QED BY <1>1, <1>2

LEMMA WordBounds ==
  /\ MaxInt \in Nat \ {0}
  /\ \A n \in 0 .. MaxInt : Wrapped(n) = n
<1>1. 2^IntBits \in Nat /\ 2^IntBits > 0 /\ 2^(IntBits + 1) = 2 * 2^IntBits
  BY IntBitsAssumption, PowerPositive, PowerDoubles
<1>2. 2^IntBits >= 2
  <2>1. PICK m \in Nat : IntBits = 1 + m
    <3>1. IntBits - 1 \in Nat /\ IntBits = 1 + (IntBits - 1)
      BY IntBitsAssumption
    <3>. QED BY <3>1
  <2>2. 2^1 <= 2^(1 + m)
    BY PowerGrows
  <2>3. 2^1 = 2
    OBVIOUS
  <2>. QED BY <2>1, <2>2, <2>3
<1>3. PICK p \in Nat : p = 2^IntBits
  BY <1>1
<1>4. 2^(IntBits + 1) = 2 * p
  BY <1>1, <1>3
<1>5. p >= 2 /\ MaxInt = p - 1
  BY <1>2, <1>3 DEF MaxInt
<1>6. ASSUME NEW n \in 0 .. MaxInt
      PROVE  Wrapped(n) = n
  <2>1. PICK word \in Nat \ {0} : word = 2 * p
    BY <1>5
  <2>2. n \in Nat /\ n < word /\ n <= MaxInt
    BY <1>5, <2>1
  <2>3. n % word = n
    BY <2>2
  <2>4. Wrapped(n) = IF n % word > MaxInt THEN (n % word) - word ELSE n % word
    BY <1>4, <2>1 DEF Wrapped
  <2>. QED BY <1>5, <2>2, <2>3, <2>4
<1>. QED BY <1>5, <1>6

(***************************************************************************)
(* BackoffPolicy.Delay's cap is min(base * 2^(attempt - 1), max) on a      *)
(* machine word of any width, for every policy the word can hold and       *)
(* however many attempts were consumed.                                    *)
(***************************************************************************)
THEOREM BackoffIsExact ==
  ASSUME NEW b, b.base \in 1 .. MaxInt, b.max \in 1 .. MaxInt, b.attempt \in Int,
         ValidPolicy(b.base, b.max)
  PROVE  Cap(b) = IdealCap(b)
<1>1. PICK shift \in Nat :
        /\ shift = (IF b.attempt < 1 THEN 1 ELSE b.attempt) - 1
        /\ shift = IF b.attempt < 1 THEN 0 ELSE b.attempt - 1
  <2>1. (IF b.attempt < 1 THEN 1 ELSE b.attempt) - 1 \in Nat
    OBVIOUS
  <2>. QED BY <2>1
<1>2. PICK base, max \in 1 .. MaxInt : base = b.base /\ max = b.max /\ base <= max
  BY DEF ValidPolicy
<1>3. PICK p \in Nat \ {0} : p = 2^shift
  BY PowerPositive
<1>4. PICK exact \in Nat : exact = base * p /\ exact >= base
  <2>1. base \in Nat /\ base * p \in Nat
    BY <1>2, WordBounds
  <2>2. 1 * base <= p * base
    BY <2>1, ProductAscends
  <2>. QED BY <2>1, <2>2
<1>5. IdealCap(b) = IF exact < max THEN exact ELSE max
  BY <1>1, <1>2, <1>3, <1>4 DEF IdealCap
<1>6. PICK raw : raw = IF ShiftOverflows(base, shift) THEN max ELSE Wrapped(exact)
  OBVIOUS
<1>7. Cap(b) = IF raw > max \/ raw <= 0 THEN max ELSE raw
  BY <1>1, <1>2, <1>3, <1>4, <1>6 DEF Cap, BackoffCap
<1>8. MaxInt \in Nat /\ base \in Nat /\ max \in Nat /\ base > 0 /\ max > 0 /\ max <= MaxInt
  BY <1>2, WordBounds
<1>9. CASE ShiftOverflows(base, shift)
  <2>1. exact > MaxInt
    <3>1. CASE shift > IntBits - 1
      <4>1. PICK m \in Nat : shift = IntBits + m
        <5>1. shift - IntBits \in Nat /\ shift = IntBits + (shift - IntBits)
          BY <3>1, IntBitsAssumption
        <5>. QED BY <5>1
      <4>2. 2^IntBits <= 2^(IntBits + m) /\ 2^IntBits \in Nat
        BY IntBitsAssumption, PowerGrows, PowerPositive
      <4>3. 2^IntBits <= p
        BY <1>3, <4>1, <4>2
      <4>4. MaxInt < p
        BY <4>2, <4>3 DEF MaxInt
      <4>5. 1 * p <= base * p
        BY <1>8, ProductAscends
      <4>. QED BY <1>4, <1>8, <4>4, <4>5
    <3>2. CASE base > MaxInt \div p
      <4>1. MaxInt \div p \in Nat /\ MaxInt < (MaxInt \div p + 1) * p
        BY <1>8, DivisionBounds
      <4>2. (MaxInt \div p + 1) * p <= base * p
        BY <1>8, <3>2, <4>1, ProductAscends
      <4>. QED BY <1>4, <1>8, <4>1, <4>2
    <3>. QED BY <1>3, <1>9, <3>1, <3>2 DEF ShiftOverflows
  <2>. QED BY <1>5, <1>6, <1>7, <1>8, <1>9, <2>1
<1>10. CASE ~ShiftOverflows(base, shift)
  <2>1. base <= MaxInt \div p
    <3>1. MaxInt \div p \in Nat
      BY <1>8, DivisionBounds
    <3>. QED BY <1>3, <1>8, <1>10, <3>1 DEF ShiftOverflows
  <2>2. exact <= MaxInt
    <3>1. MaxInt \div p \in Nat /\ (MaxInt \div p) * p <= MaxInt
      BY <1>8, DivisionBounds
    <3>2. base * p <= (MaxInt \div p) * p
      BY <1>8, <2>1, <3>1, ProductAscends
    <3>. QED BY <1>4, <1>8, <3>1, <3>2
  <2>3. raw = exact
    BY <1>6, <1>8, <1>10, <2>2, WordBounds
  <2>. QED BY <1>4, <1>5, <1>7, <1>8, <2>3
<1>. QED BY <1>9, <1>10
-----------------------------------------------------------------------------
(***************************************************************************)
(* The calendar.  The months of all years are numbered in one row; the     *)
(* start of the n-th period lies in the n-th month after the anchor's, so  *)
(* the starts ascend whatever day clamping gives them.                     *)
(***************************************************************************)
Instants ==
  {i \in [year : Int, month : 1 .. 12, day : 1 .. 31, time : 0 .. MaxTime] :
     i.day <= daysInMonth(i.year, i.month)}

MonthNumber(i) == (i.year * 12) + i.month - 1

DayNumber(i) == MonthNumber(i) * 31 + i.day - 1

LEMMA InstantFields ==
  ASSUME NEW i \in Instants
  PROVE  /\ i.year \in Int /\ i.month \in 1 .. 12 /\ i.day \in 1 .. 31 /\ i.time \in 0 .. MaxTime
         /\ i.day <= daysInMonth(i.year, i.month)
         /\ MonthNumber(i) \in Int /\ DayNumber(i) \in Int
  BY DEF Instants, MonthNumber, DayNumber

LEMMA MonthLength ==
  ASSUME NEW year, NEW month
  PROVE  daysInMonth(year, month) \in 28 .. 31
  BY DEF daysInMonth

LEMMA MonthNumberNames ==
  ASSUME NEW i \in Instants, NEW j \in Instants, MonthNumber(i) = MonthNumber(j)
  PROVE  i.year = j.year /\ i.month = j.month
  BY InstantFields DEF MonthNumber

\* floorDiv and floorMod are division with remainder for the twelve months.
LEMMA FloorDivision ==
  ASSUME NEW a \in Int
  PROVE  /\ floorDiv(a, 12) \in Int /\ floorMod(a, 12) \in 0 .. 11
         /\ a = 12 * floorDiv(a, 12) + floorMod(a, 12)
  BY DEF floorDiv, floorMod, Quotient, Remainder

LEMMA RankAscends ==
  ASSUME NEW a \in Int, NEW b \in Int, a < b, NEW t \in 0 .. MaxTime, NEW u \in 0 .. MaxTime
  PROVE  a * (MaxTime + 1) + t < b * (MaxTime + 1) + u
<1>1. PICK m \in Nat \ {0} : m = MaxTime + 1
  BY MaxTimeAssumption
<1>2. (a + 1) * m <= b * m /\ (a + 1) * m = a * m + m /\ a * m \in Int /\ b * m \in Int
  BY <1>1, ProductAscends
<1>. QED BY <1>1, <1>2, MaxTimeAssumption

\* Rank orders instants by day first, then by time.
LEMMA Lexicographic ==
  ASSUME NEW i \in Instants, NEW j \in Instants
  PROVE  /\ Rank(i) \in Int
         /\ Before(i, j) <=> \/ DayNumber(i) < DayNumber(j)
                             \/ DayNumber(i) = DayNumber(j) /\ i.time < j.time
<1>1. /\ DayNumber(i) \in Int /\ DayNumber(j) \in Int
      /\ i.time \in 0 .. MaxTime /\ j.time \in 0 .. MaxTime
  BY InstantFields
<1>2. /\ Rank(i) = DayNumber(i) * (MaxTime + 1) + i.time
      /\ Rank(j) = DayNumber(j) * (MaxTime + 1) + j.time
  BY DEF Rank, DayNumber, MonthNumber
<1>3. DayNumber(i) * (MaxTime + 1) \in Int
  BY <1>1, MaxTimeAssumption
<1>4. DayNumber(i) < DayNumber(j) => Rank(i) < Rank(j)
  BY <1>1, <1>2, RankAscends
<1>5. DayNumber(j) < DayNumber(i) => Rank(j) < Rank(i)
  BY <1>1, <1>2, RankAscends
<1>6. Rank(i) \in Int /\ Rank(j) \in Int
  BY <1>1, <1>2, MaxTimeAssumption
<1>7. DayNumber(i) = DayNumber(j) => (Rank(i) < Rank(j) <=> i.time < j.time)
  BY <1>1, <1>2, <1>3
<1>. QED BY <1>1, <1>4, <1>5, <1>6, <1>7 DEF Before

LEMMA EarlierMonth ==
  ASSUME NEW i \in Instants, NEW j \in Instants, MonthNumber(i) < MonthNumber(j)
  PROVE  Before(i, j) /\ ~Before(j, i)
<1>1. DayNumber(i) < DayNumber(j)
  BY InstantFields DEF DayNumber
<1>. QED BY <1>1, InstantFields, Lexicographic

LEMMA StartFacts ==
  ASSUME NEW anchor \in Instants, NEW n \in Int
  PROVE  LET start == Start(anchor, n) IN
         /\ start \in Instants /\ MonthNumber(start) = MonthNumber(anchor) + n
         /\ anchor.day <= daysInMonth(start.year, start.month) => start.day = anchor.day
<1> DEFINE zeroBased == anchor.month - 1 + n
           year == anchor.year + floorDiv(zeroBased, 12)
           month == floorMod(zeroBased, 12) + 1
           lastDay == daysInMonth(year, month)
           day == IF anchor.day > lastDay THEN lastDay ELSE anchor.day
<1>1. /\ anchor.year \in Int /\ anchor.month \in 1 .. 12 /\ anchor.day \in 1 .. 31
      /\ anchor.time \in 0 .. MaxTime
  BY InstantFields
<1>2. zeroBased \in Int
  BY <1>1
<1>3. /\ floorDiv(zeroBased, 12) \in Int /\ floorMod(zeroBased, 12) \in 0 .. 11
      /\ zeroBased = 12 * floorDiv(zeroBased, 12) + floorMod(zeroBased, 12)
  BY <1>2, FloorDivision
<1>4. Start(anchor, n) = Instant(year, month, day, anchor.time)
  BY DEF Start, addClampedMonths
<1>5. year \in Int /\ month \in 1 .. 12 /\ (year * 12) + month - 1 = (anchor.year * 12) + anchor.month - 1 + n
  BY <1>1, <1>3
<1>6. lastDay \in 28 .. 31
  BY MonthLength
<1>. HIDE DEF year, month, lastDay
<1>7. day \in 1 .. 31 /\ day <= lastDay /\ (anchor.day <= lastDay => day = anchor.day)
  BY <1>1, <1>6
<1>. HIDE DEF day
<1>8. lastDay = daysInMonth(year, month)
  BY DEF lastDay
<1>. QED BY <1>1, <1>4, <1>5, <1>7, <1>8 DEF Instant, Instants, MonthNumber

LEMMA StartsAscend ==
  ASSUME NEW anchor \in Instants, NEW n \in Int, NEW m \in Int, n < m
  PROVE  Rank(Start(anchor, n)) < Rank(Start(anchor, m))
<1>1. /\ Start(anchor, n) \in Instants /\ Start(anchor, m) \in Instants
      /\ MonthNumber(Start(anchor, n)) = MonthNumber(anchor) + n
      /\ MonthNumber(Start(anchor, m)) = MonthNumber(anchor) + m
  BY StartFacts
<1>2. MonthNumber(Start(anchor, n)) < MonthNumber(Start(anchor, m))
  BY <1>1, InstantFields
<1>. QED BY <1>1, <1>2, EarlierMonth DEF Before
-----------------------------------------------------------------------------
(***************************************************************************)
(* The period of an instant.  The loop of PeriodFor looks at the month of  *)
(* the instant and at most at the one before.                              *)
(***************************************************************************)
Settles(f, anchor, at) ==
  f = [back \in 0 .. 2 |->
        IF back < 2 /\ Before(at, Start(anchor, calendarMonthDiff(anchor, at) - back))
          THEN f[back + 1] ELSE calendarMonthDiff(anchor, at) - back]

LEMMA PeriodSettles ==
  ASSUME NEW anchor, NEW at
  PROVE  PeriodFor(anchor, at) = (CHOOSE f : Settles(f, anchor, at))[0]
  BY DEF PeriodFor, Settles

LEMMA LoopValue ==
  ASSUME NEW anchor \in Instants, NEW at \in Instants
  PROVE  LET diff == MonthNumber(at) - MonthNumber(anchor) IN
         PeriodFor(anchor, at) = IF ~Before(at, Start(anchor, diff)) THEN diff
                                 ELSE IF ~Before(at, Start(anchor, diff - 1)) THEN diff - 1
                                 ELSE diff - 2
<1>1. PICK diff \in Int : /\ diff = calendarMonthDiff(anchor, at)
                          /\ diff = MonthNumber(at) - MonthNumber(anchor)
  <2>1. /\ calendarMonthDiff(anchor, at) = MonthNumber(at) - MonthNumber(anchor)
        /\ calendarMonthDiff(anchor, at) \in Int
    BY InstantFields DEF calendarMonthDiff, MonthNumber
  <2>. QED BY <2>1
<1> DEFINE Back(i) == Before(at, Start(anchor, diff - i))
           two == diff - 2
           one == IF Back(1) THEN two ELSE diff - 1
           zero == IF Back(0) THEN one ELSE diff
           h == [back \in 0 .. 2 |-> IF back = 0 THEN zero ELSE IF back = 1 THEN one ELSE two]
<1>2. ASSUME NEW f
      PROVE  Settles(f, anchor, at) <=>
               f = [back \in 0 .. 2 |-> IF back < 2 /\ Back(back) THEN f[back + 1] ELSE diff - back]
  BY <1>1 DEF Settles
<1>. HIDE DEF Back
<1>3. Settles(h, anchor, at)
  <2>1. \A back \in 0 .. 2 : h[back] = IF back < 2 /\ Back(back) THEN h[back + 1] ELSE diff - back
    <3>1. h[0] = zero /\ h[1] = one /\ h[2] = two
      OBVIOUS
    <3>. HIDE DEF h
    <3>2. \A back \in 0 .. 2 : back \in {0, 1, 2}
      OBVIOUS
    <3>. QED BY <3>1, <3>2
  <2>2. h = [back \in 0 .. 2 |-> IF back < 2 /\ Back(back) THEN h[back + 1] ELSE diff - back]
    BY <2>1
  <2>. QED BY <1>2, <2>2
<1>4. PICK f : f = (CHOOSE g : Settles(g, anchor, at)) /\ Settles(f, anchor, at)
  BY <1>3
<1>5. f = [back \in 0 .. 2 |-> IF back < 2 /\ Back(back) THEN f[back + 1] ELSE diff - back]
  BY <1>2, <1>4
<1>6. f[2] = two /\ f[1] = one /\ f[0] = zero
  <2>1. f[2] = two
    BY <1>5
  <2>2. f[1] = one
    BY <1>5, <2>1
  <2>3. f[0] = zero
    BY <1>5, <2>2
  <2>. QED BY <2>1, <2>2, <2>3
<1>7. PeriodFor(anchor, at) = zero
  BY <1>4, <1>6, PeriodSettles
<1>8. (Back(0) <=> Before(at, Start(anchor, diff))) /\ (Back(1) <=> Before(at, Start(anchor, diff - 1)))
  <2>1. diff - 0 = diff
    OBVIOUS
  <2>. QED BY <2>1 DEF Back
<1>. QED BY <1>1, <1>7, <1>8

LEMMA PeriodContains ==
  ASSUME NEW anchor \in Instants, NEW at \in Instants
  PROVE  /\ PeriodFor(anchor, at) \in Int
         /\ Contains(anchor, PeriodFor(anchor, at), at)
<1>1. PICK diff \in Int : diff = MonthNumber(at) - MonthNumber(anchor)
  BY InstantFields
<1>2. /\ MonthNumber(at) \in Int /\ MonthNumber(anchor) \in Int
      /\ MonthNumber(at) = MonthNumber(anchor) + diff
  BY <1>1, InstantFields
<1>3. \A n \in Int : /\ Start(anchor, n) \in Instants
                     /\ MonthNumber(Start(anchor, n)) = MonthNumber(anchor) + n
  BY StartFacts
<1>4. Before(at, Start(anchor, diff + 1))
  BY <1>2, <1>3, EarlierMonth
<1>5. ~Before(at, Start(anchor, diff - 1))
  BY <1>2, <1>3, EarlierMonth
<1>6. CASE ~Before(at, Start(anchor, diff))
  <2>1. PeriodFor(anchor, at) = diff
    BY <1>1, <1>6, LoopValue
  <2>. QED BY <1>4, <1>6, <2>1 DEF Contains, End, Start
<1>7. CASE Before(at, Start(anchor, diff))
  <2>1. PeriodFor(anchor, at) = diff - 1
    BY <1>1, <1>5, <1>7, LoopValue
  <2>2. (diff - 1) + 1 = diff
    OBVIOUS
  <2>. QED BY <1>5, <1>7, <2>1, <2>2 DEF Contains, End, Start
<1>. QED BY <1>6, <1>7

LEMMA PeriodsAreDisjoint ==
  ASSUME NEW anchor \in Instants, NEW at \in Instants, NEW n \in Int, NEW m \in Int, n < m,
         Contains(anchor, n, at)
  PROVE  ~Contains(anchor, m, at)
<1>0. \A i \in Int : Start(anchor, i) \in Instants /\ Rank(Start(anchor, i)) \in Int
  BY StartFacts, Lexicographic
<1>1. Rank(at) < Rank(Start(anchor, n + 1))
  BY DEF Contains, End, Start, Before
<1>2. Rank(Start(anchor, n + 1)) <= Rank(Start(anchor, m))
  <2>1. CASE n + 1 < m
    <3>1. Rank(Start(anchor, n + 1)) < Rank(Start(anchor, m))
      BY <2>1, StartsAscend
    <3>2. Rank(Start(anchor, n + 1)) \in Int /\ Rank(Start(anchor, m)) \in Int
      BY <1>0
    <3>. QED BY <3>1, <3>2
  <2>2. CASE n + 1 = m
    <3>1. Rank(Start(anchor, m)) \in Int
      BY <1>0
    <3>. QED BY <2>2, <3>1
  <2>. QED BY <2>1, <2>2
<1>3. /\ Rank(at) \in Int /\ Rank(Start(anchor, n + 1)) \in Int
      /\ Rank(Start(anchor, m)) \in Int
  BY <1>0, Lexicographic
<1>4. Rank(at) < Rank(Start(anchor, m))
  BY <1>1, <1>2, <1>3
<1>. QED BY <1>4 DEF Contains, Before

(***************************************************************************)
(* For every activation and every instant, before or after it, the period  *)
(* PeriodFor names contains the instant and no other period of the whole   *)
(* calendar does: no month is lost or granted twice, whatever the length   *)
(* of the months.                                                          *)
(***************************************************************************)
THEOREM PeriodIsUnique ==
  ASSUME NEW anchor \in Instants, NEW at \in Instants
  PROVE  /\ PeriodFor(anchor, at) \in Int
         /\ \A n \in Int : Contains(anchor, n, at) <=> n = PeriodFor(anchor, at)
<1>1. PICK p \in Int : p = PeriodFor(anchor, at) /\ Contains(anchor, p, at)
  BY PeriodContains
<1>2. ASSUME NEW n \in Int, Contains(anchor, n, at)
      PROVE  n = p
  <2>1. ~(n < p)
    BY <1>1, <1>2, PeriodsAreDisjoint
  <2>2. ~(p < n)
    BY <1>1, <1>2, PeriodsAreDisjoint
  <2>. QED BY <2>1, <2>2
<1>. QED BY <1>1, <1>2
-----------------------------------------------------------------------------
(***************************************************************************)
(* The clock.  Nothing lies between an instant and the next one, so a step *)
(* of the clock cannot jump over the start of a period.                    *)
(***************************************************************************)
LEMMA LaterIsNext ==
  ASSUME NEW at \in Instants
  PROVE  /\ Later(at) \in Instants /\ Rank(at) < Rank(Later(at))
         /\ \A i \in Instants : Rank(at) < Rank(i) => Rank(Later(at)) <= Rank(i)
<1> DEFINE next == Later(at)
<1>1. /\ at.year \in Int /\ at.month \in 1 .. 12 /\ at.day \in 1 .. 31 /\ at.time \in 0 .. MaxTime
      /\ at.day <= daysInMonth(at.year, at.month) /\ DayNumber(at) \in Int /\ MaxTime \in Nat
  BY InstantFields, MaxTimeAssumption
\* What the four cases have in common.
<1>2. ASSUME next \in Instants, Rank(at) < Rank(next),
             \A i \in Instants : Rank(at) < Rank(i) =>
               \/ DayNumber(next) < DayNumber(i)
               \/ DayNumber(next) = DayNumber(i) /\ next.time <= i.time
      PROVE  /\ next \in Instants /\ Rank(at) < Rank(next)
             /\ \A i \in Instants : Rank(at) < Rank(i) => Rank(next) <= Rank(i)
  <2>. SUFFICES ASSUME NEW i \in Instants, Rank(at) < Rank(i)
                PROVE  Rank(next) <= Rank(i)
    BY <1>2
  <2>1. /\ Rank(next) \in Int /\ Rank(i) \in Int
        /\ DayNumber(next) \in Int /\ DayNumber(i) \in Int
        /\ next.time \in Int /\ i.time \in Int
    BY <1>2, InstantFields, Lexicographic, MaxTimeAssumption
  <2>2. Before(i, next) <=> \/ DayNumber(i) < DayNumber(next)
                            \/ DayNumber(i) = DayNumber(next) /\ i.time < next.time
    BY <1>2, Lexicographic
  <2>3. ~Before(i, next)
    BY <1>2, <2>1, <2>2
  <2>. QED BY <2>1, <2>3 DEF Before
<1>3. ASSUME NEW i \in Instants, Rank(at) < Rank(i)
      PROVE  /\ \/ DayNumber(at) < DayNumber(i)
                \/ DayNumber(at) = DayNumber(i) /\ at.time < i.time
             /\ DayNumber(i) \in Int /\ i.time \in 0 .. MaxTime
  BY <1>3, InstantFields, Lexicographic DEF Before
<1>4. CASE at.time < MaxTime
  <2>1. next = [at EXCEPT !.time = @ + 1]
    BY <1>4 DEF Later
  <2>2. /\ next \in Instants /\ DayNumber(next) = DayNumber(at) /\ next.time = at.time + 1
    BY <1>1, <1>4, <2>1 DEF Instants, DayNumber, MonthNumber
  <2>3. Rank(at) < Rank(next)
    BY <1>1, <2>2, Lexicographic DEF Before
  <2>4. \A i \in Instants : Rank(at) < Rank(i) =>
          \/ DayNumber(next) < DayNumber(i)
          \/ DayNumber(next) = DayNumber(i) /\ next.time <= i.time
    BY <1>1, <1>3, <2>2
  <2>. HIDE DEF next
  <2>. QED BY <1>2, <2>2, <2>3, <2>4 DEF next
<1>5. CASE at.time = MaxTime /\ at.day < daysInMonth(at.year, at.month)
  <2>1. next = Instant(at.year, at.month, at.day + 1, 0)
    BY <1>1, <1>5 DEF Later
  <2>2. daysInMonth(at.year, at.month) \in 28 .. 31
    BY MonthLength
  <2>3. /\ next \in Instants /\ DayNumber(next) = DayNumber(at) + 1 /\ next.time = 0
    BY <1>1, <1>5, <2>1, <2>2 DEF Instant, Instants, DayNumber, MonthNumber
  <2>4. Rank(at) < Rank(next)
    BY <1>1, <2>3, Lexicographic DEF Before
  <2>5. \A i \in Instants : Rank(at) < Rank(i) =>
          \/ DayNumber(next) < DayNumber(i)
          \/ DayNumber(next) = DayNumber(i) /\ next.time <= i.time
    BY <1>1, <1>3, <1>5, <2>3
  <2>. QED BY <1>2, <2>3, <2>4, <2>5
<1>6. CASE at.time = MaxTime /\ at.day = daysInMonth(at.year, at.month)
  <2>1. /\ next \in Instants /\ MonthNumber(next) = MonthNumber(at) + 1
        /\ next.day = 1 /\ next.time = 0
    <3>1. \A year, month : 1 <= daysInMonth(year, month)
      BY MonthLength
    <3>2. CASE at.month < 12
      <4>1. next = Instant(at.year, at.month + 1, 1, 0)
        BY <1>1, <1>6, <3>2 DEF Later
      <4>. QED BY <1>1, <3>1, <3>2, <4>1 DEF Instant, Instants, MonthNumber
    <3>3. CASE at.month = 12
      <4>1. next = Instant(at.year + 1, 1, 1, 0)
        BY <1>1, <1>6, <3>3 DEF Later
      <4>. QED BY <1>1, <3>1, <3>3, <4>1 DEF Instant, Instants, MonthNumber
    <3>. QED BY <1>1, <3>2, <3>3
  <2>2. Rank(at) < Rank(next)
    <3>1. MonthNumber(at) < MonthNumber(next)
      BY <2>1, InstantFields
    <3>. QED BY <2>1, <3>1, EarlierMonth DEF Before
  <2>3. ASSUME NEW i \in Instants, Rank(at) < Rank(i)
        PROVE  \/ DayNumber(next) < DayNumber(i)
               \/ DayNumber(next) = DayNumber(i) /\ next.time <= i.time
    <3>1. DayNumber(at) < DayNumber(i) /\ i.time >= 0
      BY <1>1, <1>3, <1>6, <2>3
    <3>2. /\ i.day \in 1 .. 31 /\ MonthNumber(i) \in Int /\ MonthNumber(at) \in Int
          /\ i.day <= daysInMonth(i.year, i.month)
      BY InstantFields
    <3>3. MonthNumber(i) # MonthNumber(at)
      <4>. SUFFICES ASSUME MonthNumber(i) = MonthNumber(at)
                    PROVE  FALSE
        OBVIOUS
      <4>1. i.year = at.year /\ i.month = at.month
        BY MonthNumberNames
      <4>2. i.day <= at.day
        BY <1>6, <3>2, <4>1
      <4>. QED BY <1>1, <3>1, <3>2, <4>2 DEF DayNumber
    <3>4. MonthNumber(i) >= MonthNumber(at) + 1
      BY <1>1, <3>1, <3>2, <3>3 DEF DayNumber
    <3>. QED BY <2>1, <3>1, <3>2, <3>4 DEF DayNumber
  <2>. QED BY <1>2, <2>1, <2>2, <2>3
<1>. QED BY <1>1, <1>4, <1>5, <1>6, MonthLength

LEMMA PeriodFollows ==
  ASSUME NEW anchor \in Instants, NEW at \in Instants
  PROVE  PeriodFor(anchor, Later(at)) - PeriodFor(anchor, at) \in {0, 1}
<1>1. PICK p \in Int : p = PeriodFor(anchor, at) /\ Contains(anchor, p, at)
  BY PeriodContains
<1>2. PICK next \in Instants :
        /\ next = Later(at) /\ Rank(at) < Rank(next)
        /\ \A i \in Instants : Rank(at) < Rank(i) => Rank(next) <= Rank(i)
  BY LaterIsNext
<1>3. PICK q \in Int : q = PeriodFor(anchor, next) /\ Contains(anchor, q, next)
  BY PeriodContains
<1>4. \A n \in Int : Start(anchor, n) \in Instants /\ Rank(Start(anchor, n)) \in Int
  BY StartFacts, Lexicographic
<1>5. Rank(at) \in Int /\ Rank(next) \in Int
  BY Lexicographic
<1>6. /\ Rank(Start(anchor, p)) <= Rank(at) /\ Rank(at) < Rank(Start(anchor, p + 1))
      /\ Rank(Start(anchor, q)) <= Rank(next) /\ Rank(next) < Rank(Start(anchor, q + 1))
  BY <1>1, <1>3, <1>4, <1>5 DEF Contains, End, Start, Before
<1>7. ~(q < p)
  <2>. SUFFICES ASSUME q < p PROVE FALSE
    OBVIOUS
  <2>1. Rank(Start(anchor, q + 1)) <= Rank(Start(anchor, p))
    <3>1. CASE q + 1 < p
      BY <1>4, <3>1, StartsAscend
    <3>2. CASE q + 1 = p
      BY <1>4, <3>2
    <3>. QED BY <3>1, <3>2
  <2>2. q + 1 \in Int
    OBVIOUS
  <2>. QED BY <1>2, <1>4, <1>5, <1>6, <2>1, <2>2
<1>8. ~(p + 1 < q)
  <2>. SUFFICES ASSUME p + 1 < q PROVE FALSE
    OBVIOUS
  <2>1. Rank(Start(anchor, p + 1)) < Rank(Start(anchor, q))
    BY StartsAscend
  <2>2. p + 1 \in Int
    OBVIOUS
  <2>3. Rank(next) <= Rank(Start(anchor, p + 1))
    BY <1>2, <1>4, <1>6, <2>2
  <2>. QED BY <1>4, <1>5, <1>6, <2>1, <2>2, <2>3
<1>9. q - p \in {0, 1}
  BY <1>7, <1>8
<1>. QED BY <1>1, <1>2, <1>3, <1>9
-----------------------------------------------------------------------------
(***************************************************************************)
(* The runs' properties.  A walk takes one valid policy or one anchor and  *)
(* keeps it: that much is inductive, and the calculations above do the     *)
(* rest.                                                                   *)
(***************************************************************************)
BackoffWalks ==
  {b \in [of : {"backoff"}, base : 1 .. MaxInt, max : 1 .. MaxInt, attempt : Nat] :
     ValidPolicy(b.base, b.max)}

CycleWalks == [of : {"cycle"}, anchor : Instants, at : Instants]

WalkInv == walk \in BackoffWalks \cup CycleWalks

LEMMA WalkInvInit == Init => WalkInv
<1>. SUFFICES ASSUME Init PROVE WalkInv
  OBVIOUS
<1>1. CASE walk \in Backoffs
  BY <1>1 DEF Backoffs, BackoffWalks, WalkInv
<1>2. CASE walk \in Cycles
  <2>1. Anchors \subseteq Instants
    BY BoundsAssumption DEF Anchors, Instants
  <2>2. Instant(FirstYear, 1, 1, 0) \in Instants
    BY BoundsAssumption, MaxTimeAssumption, MonthLength DEF Instant, Instants
  <2>. QED BY <1>2, <2>1, <2>2 DEF Cycles, CycleWalks, WalkInv
<1>. QED BY <1>1, <1>2 DEF Init

LEMMA WalkInvNext == WalkInv /\ [NextAttempt \/ NextInstant]_walk => WalkInv'
<1>. SUFFICES ASSUME WalkInv, [NextAttempt \/ NextInstant]_walk PROVE WalkInv'
  OBVIOUS
<1>1. CASE NextAttempt
  <2>1. walk \in BackoffWalks
    BY <1>1 DEF NextAttempt, WalkInv, CycleWalks
  <2>2. walk' \in BackoffWalks
    BY <1>1, <2>1 DEF NextAttempt, BackoffWalks
  <2>. QED BY <2>2 DEF WalkInv
<1>2. CASE NextInstant
  <2>1. walk \in CycleWalks
    BY <1>2 DEF NextInstant, WalkInv, BackoffWalks
  <2>2. Later(walk.at) \in Instants
    BY <2>1, LaterIsNext DEF CycleWalks
  <2>3. walk' \in CycleWalks
    BY <1>2, <2>1, <2>2 DEF NextInstant, CycleWalks
  <2>. QED BY <2>3 DEF WalkInv
<1>3. CASE UNCHANGED walk
  BY <1>3 DEF WalkInv
<1>. QED BY <1>1, <1>2, <1>3

LEMMA WalkInvariant == Spec => []WalkInv
BY WalkInvInit, WalkInvNext, PTL DEF Spec

\* On any machine word the overflow guard of BackoffPolicy.Delay loses nothing.
THEOREM CapStaysIdeal == Spec => []CapIsIdeal
<1>1. WalkInv => CapIsIdeal
  <2>. SUFFICES ASSUME WalkInv, walk.of = "backoff" PROVE Cap(walk) = IdealCap(walk)
    BY DEF CapIsIdeal
  <2>1. walk \in BackoffWalks
    BY DEF WalkInv, CycleWalks
  <2>. QED BY <2>1, BackoffIsExact DEF BackoffWalks
<1>. QED BY <1>1, WalkInvariant, PTL

(***************************************************************************)
(* The half-open months of cycle.PeriodFor cover the calendar once, from   *)
(* any anchor and at any resolution of the clock; a clamped month shifts   *)
(* none of the later ones.                                                 *)
(***************************************************************************)
THEOREM PeriodsPartitionTime == Spec => []ExactlyOnePeriod
<1>1. WalkInv => ExactlyOnePeriod
  <2>. SUFFICES ASSUME WalkInv, walk.of = "cycle" PROVE ExactlyOnePeriod
    BY DEF ExactlyOnePeriod
  <2>1. walk.anchor \in Instants /\ walk.at \in Instants
    BY DEF WalkInv, BackoffWalks, CycleWalks
  <2>2. PICK p \in Int :
          /\ p = Index(walk)
          /\ \A n \in Int : Contains(walk.anchor, n, walk.at) <=> n = p
    BY <2>1, PeriodIsUnique DEF Index
  <2>3. \A i \in p - 2 .. p + 2 : Contains(walk.anchor, i, walk.at) <=> i = p
    BY <2>2
  <2>4. LET start == Start(walk.anchor, p) IN
        walk.anchor.day <= daysInMonth(start.year, start.month) => start.day = walk.anchor.day
    BY <2>1, <2>2, StartFacts
  <2>. QED BY <2>2, <2>3, <2>4 DEF ExactlyOnePeriod
<1>. QED BY <1>1, WalkInvariant, PTL

\* The clock enters the period after the one it leaves, never one further on.
THEOREM NoPeriodIsSkipped == Spec => PeriodsFollowTheClock
<1>1. WalkInv /\ [NextAttempt \/ NextInstant]_walk =>
        [walk.of = "cycle" => Index(walk') - Index(walk) \in {0, 1}]_walk
  <2>. SUFFICES ASSUME WalkInv, NextAttempt \/ NextInstant, walk.of = "cycle"
                PROVE  Index(walk') - Index(walk) \in {0, 1}
    OBVIOUS
  <2>1. walk \in CycleWalks /\ NextInstant
    BY DEF NextAttempt, WalkInv, BackoffWalks
  <2>2. walk'.anchor = walk.anchor /\ walk'.at = Later(walk.at)
    BY <2>1 DEF NextInstant, CycleWalks
  <2>3. walk.anchor \in Instants /\ walk.at \in Instants
    BY <2>1 DEF CycleWalks
  <2>. QED BY <2>2, <2>3, PeriodFollows DEF Index
<1>. QED BY <1>1, WalkInvariant, PTL DEF Spec, PeriodsFollowTheClock
=============================================================================
