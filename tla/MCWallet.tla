------------------------------ MODULE MCWallet ------------------------------
(***************************************************************************)
(* Instances of Wallet for TLC.                                            *)
(***************************************************************************)
EXTENDS Wallet

CONSTANTS ann, bob, c1, c2, d1, d2

Credits(a, k, bucket, amount, admin) ==
  [kind |-> "credit", account |-> a, key |-> k, bucket |-> bucket, amount |-> amount, admin |-> admin]

Debits(a, k, amount, admin) ==
  [kind |-> "debit", account |-> a, key |-> k, bucket |-> "free", amount |-> amount, admin |-> admin]

(***************************************************************************)
(* A scenario is what clients and the calendar do in one behaviour: the    *)
(* requests they send, the wallets they renew, how far the months go and   *)
(* how many faults strike.                                                 *)
(***************************************************************************)
\* One wallet is credited in both buckets and debited by two keys; the other
\* account sends keys that are not its own.
Spending ==
  [requests |-> {Credits(ann, c1, "free", 2, FALSE), Credits(ann, c2, "purchased", 2, FALSE),
                 Debits(ann, d1, 3, FALSE), Debits(ann, d2, 1, FALSE),
                 Debits(bob, d2, 1, FALSE), Credits(bob, c1, "free", 2, FALSE)},
   renewing |-> {}, months |-> 0, faults |-> 1]

\* Two missed months are caught up; there is no free INK but the franchise.
Renewing ==
  [requests |-> {Credits(ann, c1, "purchased", 1, FALSE), Debits(ann, d1, 2, FALSE)},
   renewing |-> {ann}, months |-> 2, faults |-> 1]

\* Adjustments that together cross the ceiling of a bucket.
Adjusting ==
  [requests |-> {Credits(ann, c1, "purchased", 2, TRUE), Credits(ann, c2, "purchased", 2, TRUE),
                 Debits(ann, d1, 1, TRUE), Debits(ann, d2, 2, FALSE)},
   renewing |-> {}, months |-> 0, faults |-> 2]

\* A credit and a debit of one wallet are sent under one key.
Sharing ==
  [requests |-> {Credits(ann, c1, "free", 2, TRUE), Debits(ann, c1, 1, TRUE),
                 Credits(ann, c2, "free", 1, FALSE), Debits(ann, c2, 1, FALSE)},
   renewing |-> {}, months |-> 0, faults |-> 1]

Scenarios == {Spending, Renewing, Adjusting, Sharing}

AllRequests == UNION {x.requests : x \in Scenarios}

VARIABLE scenario

Asked(x) == x.requests \cup {r \in Renewals : r.account \in x.renewing}

Within(x) ==
  /\ faults' <= x.faults /\ month' <= x.months
  /\ \A s \in Sessions : pc[s] = "idle" /\ pc'[s] # "idle" => req'[s] \in Asked(x)

MCInit ==
  /\ scenario \in Scenarios
  /\ Init /\ \A s \in Sessions : Account(s) = ann

InScenario == Within(scenario) /\ UNCHANGED scenario

\* Next, within the scenario; every action is a disjunct, so that TLC counts each.
MCNext ==
  \/ \E s \in Sessions :
       \/ Begin(s) /\ InScenario
       \/ EnsureWallet(s) /\ InScenario
       \/ InsertOperation(s) /\ InScenario
       \/ ApplyBalance(s) /\ InScenario
       \/ LookUpKey(s) /\ InScenario
       \/ LockWallet(s) /\ InScenario
       \/ PlanDebit(s) /\ InScenario
       \/ Commit(s) /\ InScenario
       \/ RecordAudit(s) /\ InScenario
       \/ ReadAnchor(s) /\ InScenario
       \/ LockForRenewal(s) /\ InScenario
       \/ CheckPeriod(s) /\ InScenario
       \/ CommitRenewal(s) /\ InScenario
       \/ BreakDeadlock(s) /\ InScenario
       \/ Abort(s) /\ InScenario
       \/ LoseCommit(s) /\ InScenario
  \/ NextMonth /\ InScenario

MCSpec == MCInit /\ [][MCNext]_<<vars, scenario>> /\ Fairness
=============================================================================
