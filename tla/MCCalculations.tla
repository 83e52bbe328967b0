--------------------------- MODULE MCCalculations ---------------------------
(***************************************************************************)
(* Checks the two calculations the other modules abstract: the backoff of  *)
(* a failed job, for every valid policy of a small machine word, and the   *)
(* monthly cycle of a wallet, for anchors at both ends of every month of a *)
(* common and a leap year.  A walk takes one policy and counts the         *)
(* attempts of a job, as the worker does between the failures it records;  *)
(* or it takes one anchor and moves an instant day by day.                 *)
(***************************************************************************)
EXTENDS JobBackoff, MonthlyPeriods

CONSTANTS
  AttemptBound,            \* bound: attempts counted
  FirstYear, Months        \* bound: months walked from FirstYear

ASSUME BoundsAssumption == AttemptBound \in Nat /\ FirstYear \in Int /\ Months \in Nat

VARIABLE walk

Backoffs ==
  {b \in [of : {"backoff"}, base : 1 .. MaxInt, max : 1 .. MaxInt, attempt : {0}] :
     ValidPolicy(b.base, b.max)}

Anchors ==
  {i \in [year : {FirstYear, FirstYear + 1}, month : 1 .. 12, day : 1 .. 31, time : 0 .. MaxTime] :
     i.day <= daysInMonth(i.year, i.month) /\ (i.day \in 1 .. 2 \/ i.day >= 27)}

Cycles == [of : {"cycle"}, anchor : Anchors, at : {Instant(FirstYear, 1, 1, 0)}]

Init == walk \in Backoffs \cup Cycles

NextAttempt ==
  /\ walk.of = "backoff" /\ walk.attempt < AttemptBound
  /\ walk' = [walk EXCEPT !.attempt = @ + 1]

Later(at) ==
  IF at.time < MaxTime
    THEN [at EXCEPT !.time = @ + 1]
  ELSE IF at.day < daysInMonth(at.year, at.month)
    THEN Instant(at.year, at.month, at.day + 1, 0)
  ELSE IF at.month < 12
    THEN Instant(at.year, at.month + 1, 1, 0)
    ELSE Instant(at.year + 1, 1, 1, 0)

NextInstant ==
  /\ walk.of = "cycle"
  /\ (walk.at.year - FirstYear) * 12 + walk.at.month <= Months
  /\ walk' = [walk EXCEPT !.at = Later(@)]

Spec == Init /\ [][NextAttempt \/ NextInstant]_walk
-----------------------------------------------------------------------------
Cap(b) == BackoffCap(b.base, b.max, b.attempt)

\* min(base * 2^(attempt - 1), max), computed without any width.
IdealCap(b) ==
  LET exact == b.base * 2^(IF b.attempt < 1 THEN 0 ELSE b.attempt - 1)
  IN  IF exact < b.max THEN exact ELSE b.max

(***************************************************************************)
(* The overflow guard of BackoffPolicy.Delay loses nothing: on the machine *)
(* word the cap is the mathematical one, for every representable policy    *)
(* and however many attempts were consumed.                                *)
(***************************************************************************)
CapIsIdeal == walk.of = "backoff" => Cap(walk) = IdealCap(walk)

Index(c) == PeriodFor(c.anchor, c.at)

(***************************************************************************)
(* An instant belongs to the period PeriodFor names, before or after the   *)
(* activation, and to neither of its neighbours: the half-open intervals   *)
(* cover the calendar without a gap or an overlap, so a renewal can        *)
(* neither lose a month nor grant one twice.  A clamped month does not     *)
(* shift the later ones: one that has the anchor day starts on it.         *)
(***************************************************************************)
ExactlyOnePeriod ==
  walk.of = "cycle" =>
    LET start == Start(walk.anchor, Index(walk)) IN
    /\ \A i \in Index(walk) - 2 .. Index(walk) + 2 :
         Contains(walk.anchor, i, walk.at) <=> i = Index(walk)
    /\ walk.anchor.day <= daysInMonth(start.year, start.month) => start.day = walk.anchor.day

\* As the clock advances the period stays or moves to the next one: the month
\* of a shorter day (31 January, then 28 February) is never skipped or doubled.
PeriodsFollowTheClock ==
  [][walk.of = "cycle" => Index(walk') - Index(walk) \in {0, 1}]_walk
=============================================================================
