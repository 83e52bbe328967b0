---------------------------- MODULE InkAllocation ----------------------------
(***************************************************************************)
(* How a debit is split over the two INK buckets (wallet/domain,           *)
(* allocation.go and ink.go): the plan franchise, FREE_INK, is consumed    *)
(* before any purchased INK.  Quantities are non-negative machine          *)
(* integers, and a sum beyond MaxInk is refused instead of wrapping.       *)
(***************************************************************************)
EXTENDS Integers

CONSTANT MaxInk           \* math.MaxInt64, the ceiling of int64 and bigint

ASSUME MaxInkAssumption == MaxInk \in Nat \ {0}

Ink == 0 .. MaxInk

Balance == [free : Ink, purchased : Ink]

Amounts(free, purchased) == [free |-> free, purchased |-> purchased]

Plus(x, y) == Amounts(x.free + y.free, x.purchased + y.purchased)

Negated(x) == Amounts(-x.free, -x.purchased)

\* Ink.Add refuses a sum that would cross the ceiling.
SumOverflows(a, b) == b > MaxInk - a

\* An amount the franchise covers alone never needs the sum.
AllocationOverflows(amount, available) ==
  amount > available.free /\ SumOverflows(available.free, available.purchased)

Insufficient(amount, available) == amount > available.free + available.purchased

\* AllocateDebit, when it does not refuse.
AllocateDebit(amount, available) ==
  IF amount <= available.free
    THEN Amounts(amount, 0)
    ELSE Amounts(available.free, amount - available.free)
=============================================================================
