---------------------------- MODULE JobContract ----------------------------
(***************************************************************************)
(* What the durable queue promises to whoever enqueues work, without rows, *)
(* leases, owners or clocks: a job is tried at most its budget of times,   *)
(* succeeds only in a try, dies only when the budget is spent, and an      *)
(* outcome is final unless an operator returns a dead job with a fresh     *)
(* budget.                                                                 *)
(***************************************************************************)
EXTENDS Integers

CONSTANTS Jobs, MaxAttempts

VARIABLES phase,          \* "absent", "pending", "succeeded" or "dead"
          tries           \* tries consumed of the current budget

vars == <<phase, tries>>

Init ==
  /\ phase = [j \in Jobs |-> "absent"]
  /\ tries = [j \in Jobs |-> 0]

Accept(j) ==
  /\ phase[j] = "absent"
  /\ phase' = [phase EXCEPT ![j] = "pending"]
  /\ UNCHANGED tries

Try(j) ==
  /\ phase[j] = "pending"
  /\ tries[j] < MaxAttempts[j]
  /\ tries' = [tries EXCEPT ![j] = @ + 1]
  /\ UNCHANGED phase

Succeed(j) ==
  /\ phase[j] = "pending"
  /\ tries[j] > 0
  /\ phase' = [phase EXCEPT ![j] = "succeeded"]
  /\ UNCHANGED tries

Die(j) ==
  /\ phase[j] = "pending"
  /\ tries[j] = MaxAttempts[j]
  /\ phase' = [phase EXCEPT ![j] = "dead"]
  /\ UNCHANGED tries

Revive(j) ==
  /\ phase[j] = "dead"
  /\ phase' = [phase EXCEPT ![j] = "pending"]
  /\ tries' = [tries EXCEPT ![j] = 0]

Next == \E j \in Jobs : Accept(j) \/ Try(j) \/ Succeed(j) \/ Die(j) \/ Revive(j)

Spec == Init /\ [][Next]_vars
=============================================================================
