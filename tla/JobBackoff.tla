----------------------------- MODULE JobBackoff -----------------------------
(***************************************************************************)
(* The retry delay of the job worker (jobs/application/worker.go, type     *)
(* BackoffPolicy): an exponential cap with full jitter, computed on a      *)
(* signed machine integer of IntBits value bits (63 for time.Duration, few *)
(* in a model, where every policy can be enumerated).                      *)
(***************************************************************************)
EXTENDS Integers

CONSTANT IntBits

ASSUME IntBitsAssumption == IntBits \in Nat \ {0}

MaxInt == 2^IntBits - 1

\* BackoffPolicy.Validate
ValidPolicy(base, max) == base > 0 /\ max > 0 /\ max >= base

\* What is left of n in a signed word of IntBits value bits.
Wrapped(n) ==
  LET word == n % 2^(IntBits + 1)
  IN  IF word > MaxInt THEN word - 2^(IntBits + 1) ELSE word

Mutant_ShiftOverflows(base, shift) == shift > IntBits - 1

\* The shift is refused when a bit of base could leave the word.
ShiftOverflows(base, shift) ==
  shift > IntBits - 1 \/ base > MaxInt \div (2^shift)

(***************************************************************************)
(* The cap after `attempt` consumed attempts.  An attempt below one counts *)
(* as the first; a shift that would overflow, and a cap outside 1 .. max,  *)
(* give max.                                                               *)
(***************************************************************************)
BackoffCap(base, max, attempt) ==
  LET shift == (IF attempt < 1 THEN 1 ELSE attempt) - 1
      raw   == IF ShiftOverflows(base, shift) THEN max ELSE Wrapped(base * 2^shift)
  IN  IF raw > max \/ raw <= 0 THEN max ELSE raw

\* Full jitter: a fraction in [0, 1) of the cap, truncated to a whole tick.
Delays(base, max, attempt) == 0 .. BackoffCap(base, max, attempt) - 1
=============================================================================
