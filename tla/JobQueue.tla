------------------------------ MODULE JobQueue ------------------------------
(***************************************************************************)
(* The durable job queue: table app.jobs (migration 00029) and the         *)
(* statements of db/queries/jobs.sql, as the use cases of                  *)
(* jobs/application/queue.go issue them.                                   *)
(*                                                                         *)
(* One operator per statement says what the statement does to the row it   *)
(* matches; the specification lets any caller issue any statement with any *)
(* owner name and a clock reading that may lag behind `now`, so it is what *)
(* the table alone guarantees.  JobWorker composes the same statements     *)
(* into the worker pool.                                                   *)
(*                                                                         *)
(* A job stands for one idempotency key: enqueueing a key again returns    *)
(* the row that exists and changes nothing.  Payload, type, version and    *)
(* the redacted error are left out; instants are whole ticks, 0 is NULL.   *)
(***************************************************************************)
EXTENDS JobBackoff

CONSTANTS
  Jobs,             \* row identifiers: numbers, because the claim sorts them
  Owners,           \* lease_owner names
  NoOwner,          \* lease_owner IS NULL
  MaxAttempts,      \* the frozen attempt budget of each row
  LeaseDuration,    \* WorkerConfig.LeaseDuration
  BaseDelay,        \* BackoffPolicy.Base
  MaxDelay,         \* BackoffPolicy.Max
  MaxTime           \* bound: the clock stops here

ASSUME QueueAssumption ==
  /\ Jobs \subseteq Nat \ {0}
  /\ NoOwner \notin Owners
  /\ MaxAttempts \in [Jobs -> Nat \ {0}]
  /\ LeaseDuration \in Nat \ {0}
  /\ BaseDelay \in Nat /\ MaxDelay \in Nat
  /\ ValidPolicy(BaseDelay, MaxDelay)
  /\ MaxTime \in Nat \ {0}

VARIABLES jobs,           \* the table
          now             \* the wall clock

queueVars == <<jobs, now>>

States == {"absent", "queued", "leased", "succeeded", "dead"}

Row == [state       : States,
        availableAt : Nat,
        attempts    : Nat,
        owner       : Owners \cup {NoOwner},
        leasedUntil : Nat]

NoRow == [state |-> "absent", availableAt |-> 0, attempts |-> 0,
          owner |-> NoOwner, leasedUntil |-> 0]

QueueInit ==
  /\ jobs = [j \in Jobs |-> NoRow]
  /\ now = 1
-----------------------------------------------------------------------------
Terminal(j) == jobs[j].state \in {"succeeded", "dead"}

\* Job.WithinAttemptBudget
WithinAttemptBudget(j) == jobs[j].attempts < MaxAttempts[j]

IsDue(j, at) == jobs[j].state = "queued" /\ jobs[j].availableAt <= at

Mutant_LeaseLapsed(j, at) == jobs[j].state = "leased" /\ jobs[j].leasedUntil <= at + 1

LeaseLapsed(j, at) == jobs[j].state = "leased" /\ jobs[j].leasedUntil <= at

Claimable(j, at) == IsDue(j, at) \/ LeaseLapsed(j, at)

\* ORDER BY available_at, id
Precedes(i, j) ==
  \/ jobs[i].availableAt < jobs[j].availableAt
  \/ jobs[i].availableAt = jobs[j].availableAt /\ i <= j

\* LIMIT 1 ... FOR UPDATE SKIP LOCKED: the first claimable row no one has locked.
IsNextClaim(j, at, locked) ==
  /\ j \notin locked /\ Claimable(j, at)
  /\ \A i \in Jobs \ locked : Claimable(i, at) => Precedes(j, i)

NothingToClaim(at, locked) == \A j \in Jobs \ locked : ~Claimable(j, at)

Mutant_Holds(j, o) == jobs[j].state = "leased"

Holds(j, o) == jobs[j].state = "leased" /\ jobs[j].owner = o
-----------------------------------------------------------------------------
(***************************************************************************)
(* The values the statements write.                                        *)
(***************************************************************************)
Enqueued(at) ==
  [state |-> "queued", availableAt |-> at, attempts |-> 0, owner |-> NoOwner, leasedUntil |-> 0]

\* The claim consumes an attempt.
Leased(row, o, at) ==
  [state |-> "leased", availableAt |-> row.availableAt, attempts |-> row.attempts + 1,
   owner |-> o, leasedUntil |-> at + LeaseDuration]

Mutant_Unleased(row, state) ==
  [state |-> state, availableAt |-> row.availableAt, attempts |-> row.attempts,
   owner |-> NoOwner, leasedUntil |-> row.leasedUntil]

\* What every statement that ends a lease writes.
Unleased(row, state) ==
  [state |-> state, availableAt |-> row.availableAt, attempts |-> row.attempts,
   owner |-> NoOwner, leasedUntil |-> 0]

\* A failure, or an operator's retry, also moves available_at.
Requeued(row, at) ==
  [state |-> "queued", availableAt |-> at, attempts |-> row.attempts,
   owner |-> NoOwner, leasedUntil |-> 0]

Mutant_Revived(row, at) == Requeued(row, at)

\* The retry renews the budget.
Revived(row, at) == Enqueued(at)

Mutant_Failed_NeverDead(j, retryAt) == Requeued(jobs[j], retryAt)

\* A failure requeues until the budget is spent.
Failed(j, retryAt) ==
  IF WithinAttemptBudget(j) THEN Requeued(jobs[j], retryAt) ELSE Unleased(jobs[j], "dead")

(***************************************************************************)
(* The statements.  jobs_attempts_check refuses the whole UPDATE of a      *)
(* claim when no attempt is left.                                          *)
(***************************************************************************)
EnqueueRow(j, at) ==
  jobs[j].state = "absent" /\ jobs' = [jobs EXCEPT ![j] = Enqueued(at)]

Mutant_LeaseRow_NoCheck(j, o, at) == jobs' = [jobs EXCEPT ![j] = Leased(@, o, at)]

Mutant_LeaseRow_OffByOne(j, o, at) ==
  jobs[j].attempts + 1 < MaxAttempts[j] /\ jobs' = [jobs EXCEPT ![j] = Leased(@, o, at)]

LeaseRow(j, o, at) ==
  WithinAttemptBudget(j) /\ jobs' = [jobs EXCEPT ![j] = Leased(@, o, at)]

CompleteRow(j, o) ==
  Holds(j, o) /\ jobs' = [jobs EXCEPT ![j] = Unleased(@, "succeeded")]

FailRow(j, o, retryAt) ==
  Holds(j, o) /\ jobs' = [jobs EXCEPT ![j] = Failed(j, retryAt)]

ReleaseLapsedRows(at) ==
  jobs' = [j \in Jobs |-> IF LeaseLapsed(j, at) THEN Unleased(jobs[j], "queued") ELSE jobs[j]]

RetryDeadRow(j, at) ==
  jobs[j].state = "dead" /\ jobs' = [jobs EXCEPT ![j] = Revived(@, at)]
-----------------------------------------------------------------------------
(***************************************************************************)
(* Any caller, any owner name, any lagging clock.                          *)
(***************************************************************************)
Enqueue(j) == (\E at \in 0 .. MaxTime : EnqueueRow(j, at)) /\ UNCHANGED now

Lease(j, o) ==
  /\ \E at \in 0 .. now : Claimable(j, at) /\ LeaseRow(j, o, at)
  /\ UNCHANGED now

Complete(j, o) == CompleteRow(j, o) /\ UNCHANGED now

Fail(j, o) ==
  /\ \E retryAt \in 0 .. MaxTime + MaxDelay : FailRow(j, o, retryAt)
  /\ UNCHANGED now

ReleaseExpiredLeases == (\E at \in 0 .. now : ReleaseLapsedRows(at)) /\ UNCHANGED now

RetryDeadJob(j) == (\E at \in 0 .. now : RetryDeadRow(j, at)) /\ UNCHANGED now

Tick == now < MaxTime /\ now' = now + 1 /\ UNCHANGED jobs

QueueNext ==
  \/ \E j \in Jobs : Enqueue(j) \/ RetryDeadJob(j)
  \/ \E j \in Jobs, o \in Owners : Lease(j, o) \/ Complete(j, o) \/ Fail(j, o)
  \/ ReleaseExpiredLeases
  \/ Tick

QueueSpec == QueueInit /\ [][QueueNext]_queueVars
-----------------------------------------------------------------------------
(***************************************************************************)
(* Every row a statement can leave satisfies the constraints of the table: *)
(* a lease exactly in state leased (jobs_lease_coherence_check), a         *)
(* terminal row without one, an attempt count inside the budget.  A dead   *)
(* row has spent its budget and a succeeded one was tried: no sequence of  *)
(* calls reaches an outcome the attempts do not explain.                   *)
(***************************************************************************)
RowCoherent(row, budget) ==
  /\ row.attempts <= budget
  /\ (row.state = "leased") <=> (row.owner # NoOwner)
  /\ (row.state = "leased") <=> (row.leasedUntil # 0)
  /\ row.state \in {"leased", "succeeded"} => row.attempts > 0
  /\ row.state = "dead" => row.attempts = budget
  /\ row.state = "absent" => row.attempts = 0

QueueTypeOK ==
  /\ jobs \in [Jobs -> Row]
  /\ now \in 1 .. MaxTime

QueueCoherent == \A j \in Jobs : RowCoherent(jobs[j], MaxAttempts[j])

(***************************************************************************)
(* The table implements the contract: absent, queued and leased rows are   *)
(* told apart only by whether the work is still pending.                   *)
(***************************************************************************)
Phase(row) == IF row.state \in {"queued", "leased"} THEN "pending" ELSE row.state

Contract == INSTANCE JobContract
  WITH phase <- [j \in Jobs |-> Phase(jobs[j])],
       tries <- [j \in Jobs |-> jobs[j].attempts]

ContractSpec == Contract!Spec
=============================================================================
