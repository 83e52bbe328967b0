--------------------------- MODULE MonthlyPeriods ---------------------------
(***************************************************************************)
(* The months of the free cycle (wallet/domain/period.go): half-open UTC   *)
(* intervals anchored on the activation, with the anchor day clamped to    *)
(* the last day of shorter months.  An instant is a year, a month, a day   *)
(* and a time of day.                                                      *)
(***************************************************************************)
EXTENDS Integers

CONSTANT MaxTime          \* bound: the times of a day are 0 .. MaxTime

ASSUME MaxTimeAssumption == MaxTime \in Nat

\* Go divides towards zero.
Quotient(a, b) == IF a >= 0 THEN a \div b ELSE -((-a) \div b)

Remainder(a, b) == a - b * Quotient(a, b)

Mutant_floorDiv(a, b) == Quotient(a, b)

\* floorDiv and floorMod take the quotient towards minus infinity (b > 0).
floorDiv(a, b) ==
  IF Remainder(a, b) # 0 /\ a < 0 THEN Quotient(a, b) - 1 ELSE Quotient(a, b)

floorMod(a, b) ==
  IF Remainder(a, b) < 0 THEN Remainder(a, b) + b ELSE Remainder(a, b)

IsLeap(year) == year % 4 = 0 /\ (year % 100 # 0 \/ year % 400 = 0)

daysInMonth(year, month) ==
  CASE month = 2 -> IF IsLeap(year) THEN 29 ELSE 28
    [] month \in {4, 6, 9, 11} -> 30
    [] OTHER -> 31

Instant(year, month, day, time) == [year |-> year, month |-> month, day |-> day, time |-> time]

\* The order of instants, as one number.
Rank(i) == (((i.year * 12) + i.month - 1) * 31 + i.day - 1) * (MaxTime + 1) + i.time

Before(i, j) == Rank(i) < Rank(j)

\* The anchor moved by whole months, on the last valid day of a shorter one.
addClampedMonths(anchor, months) ==
  LET zeroBased == anchor.month - 1 + months
      year == anchor.year + floorDiv(zeroBased, 12)
      month == floorMod(zeroBased, 12) + 1
      lastDay == daysInMonth(year, month)
  IN  Instant(year, month, IF anchor.day > lastDay THEN lastDay ELSE anchor.day, anchor.time)

calendarMonthDiff(from, to) == (to.year - from.year) * 12 + to.month - from.month

Start(anchor, index) == addClampedMonths(anchor, index)

End(anchor, index) == addClampedMonths(anchor, index + 1)

Contains(anchor, index, at) ==
  ~Before(at, Start(anchor, index)) /\ Before(at, End(anchor, index))

Mutant_PeriodFor(anchor, at) == calendarMonthDiff(anchor, at)

\* The loop steps back while the instant is before the start it computed; two
\* steps are a bound, since a start one month earlier is never after it.
PeriodFor(anchor, at) ==
  LET diff == calendarMonthDiff(anchor, at)
      settle[back \in 0 .. 2] ==
        IF back < 2 /\ Before(at, Start(anchor, diff - back)) THEN settle[back + 1] ELSE diff - back
  IN  settle[0]
=============================================================================
