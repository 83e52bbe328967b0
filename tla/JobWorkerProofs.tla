--------------------------- MODULE JobWorkerProofs ---------------------------
(***************************************************************************)
(* What the job system guarantees: first the table by itself, for every    *)
(* set of rows, callers and budgets and whatever the callers do; then the  *)
(* worker pool, for every number of workers, processes and rows, every     *)
(* budget and every bound on faults and retries.                           *)
(***************************************************************************)
EXTENDS JobWorker, TLAPS

QueueInv == QueueTypeOK /\ QueueCoherent

Coherent(row, j) == row \in Row /\ RowCoherent(row, MaxAttempts[j])

-----------------------------------------------------------------------------
(***************************************************************************)
(* What each statement writes is a typed, coherent row.                    *)
(***************************************************************************)
LEMMA EnqueuedCoherent ==
  ASSUME NEW j \in Jobs, NEW at \in Nat
  PROVE  Coherent(Enqueued(at), j)
  BY QueueAssumption DEF Coherent, Enqueued, NoRow, Row, RowCoherent, States

LEMMA LeasedCoherent ==
  ASSUME QueueInv, NEW j \in Jobs, NEW o \in Owners, NEW at \in Nat, WithinAttemptBudget(j)
  PROVE  Coherent(Leased(jobs[j], o, at), j)
  BY QueueAssumption
  DEF QueueInv, QueueTypeOK, QueueCoherent, Coherent, WithinAttemptBudget, Leased, Row, RowCoherent, States

LEMMA SucceededCoherent ==
  ASSUME QueueInv, NEW j \in Jobs, jobs[j].state = "leased"
  PROVE  Coherent(Unleased(jobs[j], "succeeded"), j)
  BY QueueAssumption
  DEF QueueInv, QueueTypeOK, QueueCoherent, Coherent, Unleased, Row, RowCoherent, States

LEMMA ReleasedCoherent ==
  ASSUME QueueInv, NEW j \in Jobs
  PROVE  Coherent(Unleased(jobs[j], "queued"), j)
  BY QueueAssumption
  DEF QueueInv, QueueTypeOK, QueueCoherent, Coherent, Unleased, Row, RowCoherent, States

LEMMA RequeuedCoherent ==
  ASSUME QueueInv, NEW j \in Jobs, NEW at \in Nat
  PROVE  Coherent(Requeued(jobs[j], at), j)
  BY ReleasedCoherent DEF Coherent, Requeued, Unleased, Row, RowCoherent

LEMMA FailedCoherent ==
  ASSUME QueueInv, NEW j \in Jobs, NEW at \in Nat
  PROVE  Coherent(Failed(j, at), j)
<1>1. CASE WithinAttemptBudget(j)
  BY <1>1, RequeuedCoherent DEF Failed
<1>2. CASE ~WithinAttemptBudget(j)
  BY <1>2, QueueAssumption
  DEF Failed, QueueInv, QueueTypeOK, QueueCoherent, Coherent, WithinAttemptBudget,
      Unleased, Row, RowCoherent, States
<1> QED
  BY <1>1, <1>2

LEMMA RevivedCoherent ==
  ASSUME NEW j \in Jobs, NEW at \in Nat
  PROVE  Coherent(Revived(jobs[j], at), j)
  BY EnqueuedCoherent DEF Revived

\* A statement that leaves one coherent row behind preserves the invariant.
LEMMA OneRowUpdate ==
  ASSUME QueueInv, NEW j \in Jobs, NEW row, Coherent(row, j),
         jobs' = [jobs EXCEPT ![j] = row], now' = now
  PROVE  QueueInv'
<1>1. jobs \in [Jobs -> Row] /\ row \in Row
  BY DEF QueueInv, QueueTypeOK, Coherent
<1>2. QueueTypeOK'
  BY <1>1 DEF QueueInv, QueueTypeOK
<1>3. ASSUME NEW k \in Jobs PROVE RowCoherent(jobs'[k], MaxAttempts[k])
  <2>1. CASE k = j
    BY <1>1, <2>1, jobs'[k] = row DEF Coherent
  <2>2. CASE k # j
    BY <1>1, <2>2, jobs'[k] = jobs[k] DEF QueueInv, QueueCoherent
  <2> QED
    BY <2>1, <2>2
<1> QED
  BY <1>2, <1>3 DEF QueueInv, QueueCoherent

-----------------------------------------------------------------------------
LEMMA InitQueueInv == QueueInit => QueueInv
  BY QueueAssumption DEF QueueInit, QueueInv, QueueTypeOK, QueueCoherent,
     RowCoherent, NoRow, Row, States

LEMMA NextQueueInv == QueueInv /\ [QueueNext]_queueVars => QueueInv'
<1> SUFFICES ASSUME QueueInv, [QueueNext]_queueVars PROVE QueueInv'
  OBVIOUS
<1>0. now \in Nat /\ MaxTime \in Nat /\ MaxDelay \in Nat
  BY QueueAssumption DEF QueueInv, QueueTypeOK
<1>1. ASSUME NEW j \in Jobs, Enqueue(j) PROVE QueueInv'
  <2>1. PICK at \in 0 .. MaxTime : EnqueueRow(j, at)
    BY <1>1 DEF Enqueue
  <2>2. at \in Nat
    BY <1>0, <2>1
  <2>3. Coherent(Enqueued(at), j)
    BY <2>1, <2>2, EnqueuedCoherent
  <2> QED
    BY <1>1, <2>1, <2>3, OneRowUpdate DEF Enqueue, EnqueueRow
<1>2. ASSUME NEW j \in Jobs, RetryDeadJob(j) PROVE QueueInv'
  <2>1. PICK at \in 0 .. now : RetryDeadRow(j, at)
    BY <1>2 DEF RetryDeadJob
  <2>2. at \in Nat
    BY <1>0, <2>1
  <2>3. Coherent(Revived(jobs[j], at), j)
    BY <2>1, <2>2, RevivedCoherent
  <2> QED
    BY <1>2, <2>1, <2>3, OneRowUpdate DEF RetryDeadJob, RetryDeadRow
<1>3. ASSUME NEW j \in Jobs, NEW o \in Owners, Lease(j, o) PROVE QueueInv'
  <2>1. PICK at \in 0 .. now : LeaseRow(j, o, at)
    BY <1>3 DEF Lease
  <2>2. at \in Nat
    BY <1>0, <2>1
  <2>3. Coherent(Leased(jobs[j], o, at), j)
    BY <2>1, <2>2, LeasedCoherent DEF LeaseRow
  <2> QED
    BY <1>3, <2>1, <2>3, OneRowUpdate DEF Lease, LeaseRow
<1>4. ASSUME NEW j \in Jobs, NEW o \in Owners, Complete(j, o) PROVE QueueInv'
  BY <1>4, SucceededCoherent, OneRowUpdate DEF Complete, CompleteRow, Holds
<1>5. ASSUME NEW j \in Jobs, NEW o \in Owners, Fail(j, o) PROVE QueueInv'
  <2>1. PICK retryAt \in 0 .. MaxTime + MaxDelay : FailRow(j, o, retryAt)
    BY <1>5 DEF Fail
  <2>2. retryAt \in Nat
    BY <1>0, <2>1
  <2>3. Coherent(Failed(j, retryAt), j)
    BY <2>1, <2>2, FailedCoherent
  <2> QED
    BY <1>5, <2>1, <2>3, OneRowUpdate DEF Fail, FailRow
<1>6. CASE ReleaseExpiredLeases
  BY <1>6, ReleasedCoherent
  DEF ReleaseExpiredLeases, ReleaseLapsedRows, QueueInv, QueueTypeOK, QueueCoherent, Coherent
<1>7. CASE Tick
  BY <1>7, QueueAssumption DEF Tick, QueueInv, QueueTypeOK, QueueCoherent
<1>8. CASE UNCHANGED queueVars
  BY <1>8 DEF queueVars, QueueInv, QueueTypeOK, QueueCoherent
<1> QED
  BY <1>1, <1>2, <1>3, <1>4, <1>5, <1>6, <1>7, <1>8 DEF QueueNext

(***************************************************************************)
(* Whoever calls, in whatever order, with whatever owner name and lagging  *)
(* clock: the rows stay typed and coherent.                                *)
(***************************************************************************)
THEOREM QueueIsCoherent == QueueSpec => [](QueueTypeOK /\ QueueCoherent)
<1>1. QueueSpec => []QueueInv
  BY InitQueueInv, NextQueueInv, PTL DEF QueueSpec
<1> QED
  BY <1>1, PTL DEF QueueInv

-----------------------------------------------------------------------------
(***************************************************************************)
(* Refinement.  A statement that replaces one row replaces one phase and   *)
(* one try count.                                                          *)
(***************************************************************************)
phaseBar == [j \in Jobs |-> Phase(jobs[j])]
triesBar == [j \in Jobs |-> jobs[j].attempts]

LEMMA OneRowMapped ==
  ASSUME QueueTypeOK, NEW j \in Jobs, NEW row, jobs' = [jobs EXCEPT ![j] = row]
  PROVE  /\ phaseBar' = [phaseBar EXCEPT ![j] = Phase(row)]
         /\ triesBar' = [triesBar EXCEPT ![j] = row.attempts]
<1>1. jobs'[j] = row /\ \A k \in Jobs \ {j} : jobs'[k] = jobs[k]
  BY DEF QueueTypeOK
<1>2. \A k \in Jobs : Phase(jobs'[k]) = IF k = j THEN Phase(row) ELSE Phase(jobs[k])
  BY <1>1
<1>3. \A k \in Jobs : jobs'[k].attempts = IF k = j THEN row.attempts ELSE jobs[k].attempts
  BY <1>1
<1>4. phaseBar' = [k \in Jobs |-> Phase(jobs'[k])] /\ triesBar' = [k \in Jobs |-> jobs'[k].attempts]
  BY DEF phaseBar, triesBar
<1> QED
  BY <1>2, <1>3, <1>4 DEF phaseBar, triesBar

\* What the written values map to.
LEMMA Written ==
  ASSUME NEW row, NEW at, NEW o
  PROVE  /\ Phase(Enqueued(at)) = "pending" /\ Enqueued(at).attempts = 0
         /\ Phase(Leased(row, o, at)) = "pending" /\ Leased(row, o, at).attempts = row.attempts + 1
         /\ Phase(Requeued(row, at)) = "pending" /\ Requeued(row, at).attempts = row.attempts
         /\ Phase(Unleased(row, "queued")) = "pending"
         /\ Phase(Unleased(row, "succeeded")) = "succeeded"
         /\ Phase(Unleased(row, "dead")) = "dead"
         /\ \A state : Unleased(row, state).attempts = row.attempts
  BY DEF Enqueued, Leased, Requeued, Unleased, Phase

LEMMA InitContract == QueueInit => Contract!Init
  BY DEF QueueInit, Contract!Init, NoRow, Phase

LEMMA StepContract ==
  QueueInv /\ [QueueNext]_queueVars => [Contract!Next]_(Contract!vars)
<1> SUFFICES ASSUME QueueInv, [QueueNext]_queueVars
             PROVE  [Contract!Next]_(Contract!vars)
  OBVIOUS
<1> DEFINE Stutter == phaseBar' = phaseBar /\ triesBar' = triesBar
<1>0. /\ QueueTypeOK /\ MaxAttempts \in [Jobs -> Nat \ {0}]
      /\ \A j \in Jobs : /\ jobs[j] \in Row /\ RowCoherent(jobs[j], MaxAttempts[j])
                        /\ phaseBar[j] = Phase(jobs[j]) /\ triesBar[j] = jobs[j].attempts
  BY QueueAssumption DEF QueueInv, QueueTypeOK, QueueCoherent, phaseBar, triesBar
<1>1. Stutter => [Contract!Next]_(Contract!vars)
  BY DEF Contract!vars, phaseBar, triesBar
<1>2. ASSUME NEW j \in Jobs, Enqueue(j) PROVE Contract!Accept(j)
  <2>1. PICK at \in 0 .. MaxTime : EnqueueRow(j, at)
    BY <1>2 DEF Enqueue
  <2>2. phaseBar[j] = "absent"
    BY <1>0, <2>1 DEF EnqueueRow, Phase
  <2>3. phaseBar' = [phaseBar EXCEPT ![j] = "pending"] /\ triesBar' = [triesBar EXCEPT ![j] = 0]
    <3>1. jobs' = [jobs EXCEPT ![j] = Enqueued(at)]
      BY <2>1 DEF EnqueueRow
    <3>2. /\ phaseBar' = [phaseBar EXCEPT ![j] = Phase(Enqueued(at))]
          /\ triesBar' = [triesBar EXCEPT ![j] = (Enqueued(at)).attempts]
      BY <1>0, <3>1, OneRowMapped
    <3> QED
      BY <1>0, <3>2, Written
  <2>4. triesBar' = triesBar
    BY <1>0, <2>1, <2>3 DEF EnqueueRow, RowCoherent, triesBar
  <2> QED
    BY <2>2, <2>3, <2>4 DEF Contract!Accept, phaseBar, triesBar
<1>3. ASSUME NEW j \in Jobs, RetryDeadJob(j) PROVE Contract!Revive(j)
  <2>1. PICK at \in 0 .. now : RetryDeadRow(j, at)
    BY <1>3 DEF RetryDeadJob
  <2>2. phaseBar[j] = "dead"
    BY <1>0, <2>1 DEF RetryDeadRow, Phase
  <2>3. phaseBar' = [phaseBar EXCEPT ![j] = "pending"] /\ triesBar' = [triesBar EXCEPT ![j] = 0]
    <3>1. jobs' = [jobs EXCEPT ![j] = Enqueued(at)]
      BY <2>1 DEF RetryDeadRow, Revived
    <3>2. /\ phaseBar' = [phaseBar EXCEPT ![j] = Phase(Enqueued(at))]
          /\ triesBar' = [triesBar EXCEPT ![j] = (Enqueued(at)).attempts]
      BY <1>0, <3>1, OneRowMapped
    <3> QED
      BY <1>0, <3>2, Written
  <2> QED
    BY <2>2, <2>3 DEF Contract!Revive, phaseBar, triesBar
<1>4. ASSUME NEW j \in Jobs, NEW o \in Owners, Lease(j, o) PROVE Contract!Try(j)
  <2>1. PICK at \in 0 .. now : Claimable(j, at) /\ LeaseRow(j, o, at)
    BY <1>4 DEF Lease
  <2>2. phaseBar[j] = "pending" /\ triesBar[j] < MaxAttempts[j]
    BY <1>0, <2>1 DEF Claimable, IsDue, LeaseLapsed, LeaseRow, WithinAttemptBudget, Phase
  <2>3. /\ phaseBar' = [phaseBar EXCEPT ![j] = "pending"]
        /\ triesBar' = [triesBar EXCEPT ![j] = triesBar[j] + 1]
    <3>1. jobs' = [jobs EXCEPT ![j] = Leased(jobs[j], o, at)]
      BY <2>1 DEF LeaseRow
    <3>2. /\ phaseBar' = [phaseBar EXCEPT ![j] = Phase(Leased(jobs[j], o, at))]
          /\ triesBar' = [triesBar EXCEPT ![j] = (Leased(jobs[j], o, at)).attempts]
      BY <1>0, <3>1, OneRowMapped
    <3>3. Phase(Leased(jobs[j], o, at)) = "pending" /\ Leased(jobs[j], o, at).attempts = triesBar[j] + 1
      BY <1>0, Written
    <3> QED
      BY <3>2, <3>3
  <2>4. phaseBar' = phaseBar
    BY <2>2, <2>3 DEF phaseBar
  <2> QED
    BY <2>2, <2>3, <2>4 DEF Contract!Try, phaseBar, triesBar
<1>5. ASSUME NEW j \in Jobs, NEW o \in Owners, Complete(j, o) PROVE Contract!Succeed(j)
  <2>1. jobs[j].state = "leased" /\ jobs' = [jobs EXCEPT ![j] = Unleased(jobs[j], "succeeded")]
    BY <1>5 DEF Complete, CompleteRow, Holds
  <2>2. phaseBar[j] = "pending" /\ triesBar[j] > 0
    BY <1>0, <2>1 DEF Phase, RowCoherent
  <2>3. /\ phaseBar' = [phaseBar EXCEPT ![j] = "succeeded"]
        /\ triesBar' = [triesBar EXCEPT ![j] = triesBar[j]]
    <3>1. jobs' = [jobs EXCEPT ![j] = Unleased(jobs[j], "succeeded")]
      BY <2>1
    <3>2. /\ phaseBar' = [phaseBar EXCEPT ![j] = Phase(Unleased(jobs[j], "succeeded"))]
          /\ triesBar' = [triesBar EXCEPT ![j] = (Unleased(jobs[j], "succeeded")).attempts]
      BY <1>0, <3>1, OneRowMapped
    <3> QED
      BY <1>0, <3>2, Written
  <2>4. triesBar' = triesBar
    BY <2>3 DEF triesBar
  <2> QED
    BY <2>2, <2>3, <2>4 DEF Contract!Succeed, phaseBar, triesBar
<1>6. ASSUME NEW j \in Jobs, NEW o \in Owners, Fail(j, o) PROVE Contract!Die(j) \/ Stutter
  <2>1. PICK retryAt \in 0 .. MaxTime + MaxDelay : FailRow(j, o, retryAt)
    BY <1>6 DEF Fail
  <2>2. jobs[j].state = "leased" /\ jobs' = [jobs EXCEPT ![j] = Failed(j, retryAt)]
    BY <2>1 DEF FailRow, Holds
  <2>3. phaseBar[j] = "pending"
    BY <1>0, <2>2 DEF Phase
  <2>4. CASE WithinAttemptBudget(j)
    <3>1. /\ phaseBar' = [phaseBar EXCEPT ![j] = "pending"]
          /\ triesBar' = [triesBar EXCEPT ![j] = triesBar[j]]
      <4>1. jobs' = [jobs EXCEPT ![j] = Requeued(jobs[j], retryAt)]
        BY <2>2, <2>4 DEF Failed
      <4>2. /\ phaseBar' = [phaseBar EXCEPT ![j] = Phase(Requeued(jobs[j], retryAt))]
            /\ triesBar' = [triesBar EXCEPT ![j] = (Requeued(jobs[j], retryAt)).attempts]
        BY <1>0, <4>1, OneRowMapped
      <4> QED
        BY <1>0, <4>2, Written
    <3> QED
      BY <2>3, <3>1 DEF phaseBar, triesBar
  <2>5. CASE ~WithinAttemptBudget(j)
    <3>1. /\ phaseBar' = [phaseBar EXCEPT ![j] = "dead"]
          /\ triesBar' = [triesBar EXCEPT ![j] = triesBar[j]]
      <4>1. jobs' = [jobs EXCEPT ![j] = Unleased(jobs[j], "dead")]
        BY <2>2, <2>5 DEF Failed
      <4>2. /\ phaseBar' = [phaseBar EXCEPT ![j] = Phase(Unleased(jobs[j], "dead"))]
            /\ triesBar' = [triesBar EXCEPT ![j] = (Unleased(jobs[j], "dead")).attempts]
        BY <1>0, <4>1, OneRowMapped
      <4> QED
        BY <1>0, <4>2, Written
    <3>2. triesBar[j] = MaxAttempts[j]
      BY <1>0, <2>5 DEF WithinAttemptBudget, RowCoherent, Row
    <3>3. triesBar' = triesBar
      BY <3>1 DEF triesBar
    <3> QED
      BY <2>3, <3>1, <3>2, <3>3 DEF Contract!Die, phaseBar, triesBar
  <2> QED
    BY <2>4, <2>5
<1>7. CASE ReleaseExpiredLeases
  <2>1. PICK at \in 0 .. now : ReleaseLapsedRows(at)
    BY <1>7 DEF ReleaseExpiredLeases
  <2>2. ASSUME NEW k \in Jobs
        PROVE  Phase(jobs'[k]) = Phase(jobs[k]) /\ jobs'[k].attempts = jobs[k].attempts
    <3>1. CASE LeaseLapsed(k, at)
      <4>1. jobs'[k] = Unleased(jobs[k], "queued")
        BY <2>1, <3>1 DEF ReleaseLapsedRows
      <4>2. jobs[k].state = "leased"
        BY <3>1 DEF LeaseLapsed
      <4> QED
        BY <4>1, <4>2 DEF Unleased, Phase
    <3>2. CASE ~LeaseLapsed(k, at)
      BY <2>1, <3>2 DEF ReleaseLapsedRows
    <3> QED
      BY <3>1, <3>2
  <2> QED
    BY <2>2, <1>1 DEF phaseBar, triesBar
<1>8. CASE Tick
  BY <1>1, <1>8 DEF Tick, phaseBar, triesBar
<1>9. CASE UNCHANGED queueVars
  BY <1>1, <1>9 DEF queueVars, phaseBar, triesBar
<1> QED
  BY <1>1, <1>2, <1>3, <1>4, <1>5, <1>6, <1>7, <1>8, <1>9 DEF QueueNext, Contract!Next

(***************************************************************************)
(* The table implements the contract: for every set of rows and budgets,   *)
(* no sequence of statements tries a job more often than its budget,       *)
(* succeeds an untried one, kills one with budget left, or takes back an   *)
(* outcome other than by an operator's retry of a dead row.                *)
(***************************************************************************)
THEOREM QueueImplementsContract == QueueSpec => ContractSpec
<1>1. QueueSpec => []QueueInv
  BY InitQueueInv, NextQueueInv, PTL DEF QueueSpec
<1> QED
  BY <1>1, InitContract, StepContract, PTL DEF QueueSpec, ContractSpec, Contract!Spec
-----------------------------------------------------------------------------
(***************************************************************************)
(* A claim in progress holds the only lock on a row that was claimable at  *)
(* the instant the claim read its clock: nobody else can have moved it.    *)
(***************************************************************************)
Claiming(w) == workers[w].pc = "claiming"

Busy(w) == Claiming(w) \/ InFlight(w)

JobInv == \A w \in Workers : Busy(w) => workers[w].job \in Jobs

LookupInv == \A op \in Operators : lookups[op].at \in 0 .. now

LockInv ==
  \A w \in Workers : Claiming(w) =>
    /\ workers[w].at \in 0 .. now
    /\ Claimable(workers[w].job, workers[w].at)
    /\ \A v \in Workers : Claiming(v) /\ workers[v].job = workers[w].job => v = w

LEMMA WorkerStates ==
  ASSUME PoolTypes, NEW w \in Workers
  PROVE  workers[w] \in Worker
  BY DEF PoolTypes

LEMMA LocalFields ==
  ASSUME NEW pc, NEW j, NEW at, NEW g, NEW tries, NEW ok
  PROVE  /\ Local(pc, j, at, g, tries, ok).pc = pc
         /\ Local(pc, j, at, g, tries, ok).job = j
         /\ Local(pc, j, at, g, tries, ok).at = at
         /\ Local(pc, j, at, g, tries, ok).grant = g
         /\ Local(pc, j, at, g, tries, ok).tries = tries
         /\ Local(pc, j, at, g, tries, ok).ok = ok
  BY DEF Local

LEMMA AtStage ==
  ASSUME NEW pc
  PROVE  At(pc).pc = pc
  BY DEF At, Local

LEMMA BecomesOne ==
  ASSUME PoolTypes, NEW w \in Workers, NEW record, Becomes(w, record)
  PROVE  workers'[w] = record /\ \A v \in Workers \ {w} : workers'[v] = workers[v]
  BY DEF PoolTypes, Becomes

LEMMA LockedRows ==
  ASSUME NEW w \in Workers, Claiming(w)
  PROVE  workers[w].job \in Locked
  BY DEF Locked, Claiming

LEMMA RetryInstantsBounded ==
  ASSUME PoolTypes, NEW w \in Workers, NEW retryAt \in RetryInstants(w)
  PROVE  retryAt \in 0 .. MaxTime + MaxDelay
<1>1. now \in 1 .. MaxTime /\ MaxTime \in Nat /\ MaxDelay \in Nat
  BY QueueAssumption DEF PoolTypes, QueueTypeOK
<1>2. CASE retryAt = now
  BY <1>1, <1>2
<1>3. CASE \E d \in Delays(BaseDelay, MaxDelay, workers[w].tries) :
             retryAt = IF now + d < MaxTime THEN now + d ELSE MaxTime
  <2>1. PICK d \in Delays(BaseDelay, MaxDelay, workers[w].tries) :
               retryAt = IF now + d < MaxTime THEN now + d ELSE MaxTime
    BY <1>3
  <2>2. d \in Int /\ 0 <= d
    BY <2>1 DEF Delays
  <2> QED
    BY <1>1, <2>1, <2>2
<1> QED
  BY <1>2, <1>3 DEF RetryInstants

(***************************************************************************)
(* Every step of the pool is a step of the queue, or leaves it alone.      *)
(***************************************************************************)
LEMMA CommitIsLease ==
  ASSUME PoolTypes, JobInv, LockInv, NEW w \in Workers, Claiming(w),
         LeaseRow(workers[w].job, Owner[w], workers[w].at), now' = now
  PROVE  Lease(workers[w].job, Owner[w]) /\ workers[w].job \in Jobs /\ Owner[w] \in Owners
  BY WorkerAssumption DEF JobInv, Busy, LockInv, Lease

LEMMA RecordIsReport ==
  ASSUME PoolTypes, JobInv, NEW w \in Workers, Record(w)
  PROVE  /\ now' = now
         /\ \/ jobs' = jobs
            \/ /\ workers[w].job \in Jobs /\ Owner[w] \in Owners
               /\ Complete(workers[w].job, Owner[w]) \/ Fail(workers[w].job, Owner[w])
<1> DEFINE j == workers[w].job
<1>0. now' = now /\ Owner[w] \in Owners /\ j \in Jobs
  BY WorkerAssumption DEF Record, JobInv, Busy, InFlight
<1>1. CASE ~Holds(j, Owner[w])
  BY <1>0, <1>1 DEF Record
<1>2. CASE Holds(j, Owner[w])
  <2>1. Outcome(w)
    BY <1>2 DEF Record
  <2>2. CASE workers[w].ok
    <3>1. CompleteRow(j, Owner[w])
      BY <2>1, <2>2 DEF Outcome
    <3> QED
      BY <1>0, <3>1 DEF Complete
  <2>3. CASE ~workers[w].ok
    <3>1. PICK retryAt \in RetryInstants(w) : FailRow(j, Owner[w], retryAt)
      BY <2>1, <2>3 DEF Outcome
    <3>2. retryAt \in 0 .. MaxTime + MaxDelay
      BY <3>1, RetryInstantsBounded
    <3> QED
      BY <1>0, <3>1, <3>2 DEF Fail
  <2> QED
    BY <2>2, <2>3
<1> QED
  BY <1>1, <1>2

LEMMA StepUsesTheQueue ==
  ASSUME PoolTypes, JobInv, LookupInv, LockInv, [Next]_vars
  PROVE  [QueueNext]_queueVars
<1>0. now \in 1 .. MaxTime /\ MaxTime \in Nat
  BY QueueAssumption DEF PoolTypes, QueueTypeOK
<1>1. ASSUME NEW j \in Jobs, Produce(j) PROVE Enqueue(j)
  <2>1. PICK at \in now .. MaxTime : EnqueueRow(j, at)
    BY <1>1 DEF Produce
  <2>2. at \in 0 .. MaxTime
    BY <1>0, <2>1
  <2> QED
    BY <1>1, <2>1, <2>2 DEF Produce, Enqueue
<1>2. ASSUME NEW w \in Workers, CommitClaim(w) PROVE QueueNext
  <2>1. Claiming(w) /\ LeaseRow(workers[w].job, Owner[w], workers[w].at) /\ now' = now
    BY <1>2 DEF CommitClaim, Grant, Claiming
  <2> QED
    BY <2>1, CommitIsLease DEF QueueNext
<1>3. ASSUME NEW w \in Workers, LoseClaim(w) PROVE QueueNext \/ UNCHANGED queueVars
  <2>1. Claiming(w) /\ now' = now
    BY <1>3 DEF LoseClaim, Claiming
  <2>2. CASE LeaseRow(workers[w].job, Owner[w], workers[w].at)
    BY <2>1, <2>2, CommitIsLease DEF QueueNext
  <2>3. CASE jobs' = jobs
    BY <2>1, <2>3 DEF queueVars
  <2> QED
    BY <1>3, <2>2, <2>3 DEF LoseClaim, Grant
<1>4. ASSUME NEW w \in Workers, Reclaim(w) PROVE ReleaseExpiredLeases
  <2>1. now \in 0 .. now /\ ReleaseLapsedRows(now) /\ now' = now
    BY <1>0, <1>4 DEF Reclaim
  <2> QED
    BY <2>1 DEF ReleaseExpiredLeases
<1>5. ASSUME NEW w \in Workers, Record(w) PROVE QueueNext \/ UNCHANGED queueVars
  <2>1. CASE jobs' = jobs
    BY <1>5, <2>1, RecordIsReport DEF queueVars
  <2>2. CASE jobs' # jobs
    BY <1>5, <2>2, RecordIsReport DEF QueueNext
  <2> QED
    BY <2>1, <2>2
<1>6. ASSUME NEW op \in Operators, CommitRetry(op) PROVE QueueNext \/ UNCHANGED queueVars
  <2>1. /\ lookups[op].job \in Jobs /\ now' = now
        /\ jobs' = jobs \/ RetryDeadRow(lookups[op].job, lookups[op].at)
    BY <1>6 DEF CommitRetry, PoolTypes
  <2>2. lookups[op].at \in 0 .. now
    BY DEF LookupInv
  <2>3. CASE RetryDeadRow(lookups[op].job, lookups[op].at)
    BY <2>1, <2>2, <2>3 DEF RetryDeadJob, QueueNext
  <2> QED
    BY <2>1, <2>3 DEF queueVars
<1>7. CASE Pass
  BY <1>7 DEF Pass, QueueNext
<1>8. ASSUME NEW w \in Workers,
             \/ LockClaim(w) \/ RefuseClaim(w) \/ FindNothing(w) \/ StopLoop(w)
             \/ LoseReclaim(w) \/ LoseRecord(w) \/ \E ok \in BOOLEAN : HandlerEnds(w, ok)
      PROVE  UNCHANGED queueVars
  BY <1>8 DEF LockClaim, RefuseClaim, FindNothing, StopLoop, LoseReclaim, LoseRecord, HandlerEnds
<1>9. ASSUME NEW p \in Processes, Signal(p) \/ Crash(p) \/ Restart(p)
      PROVE  UNCHANGED queueVars
  BY <1>9 DEF Signal, Crash, Restart
<1>10. ASSUME NEW op \in Operators, LookUpDead(op) PROVE UNCHANGED queueVars
  BY <1>10 DEF LookUpDead
<1>11. CASE UNCHANGED vars
  BY <1>11 DEF vars, queueVars
<1>12. ASSUME NEW j \in Jobs, Produce(j) PROVE QueueNext
  BY <1>1, <1>12 DEF QueueNext
<1>13. ASSUME NEW w \in Workers, Reclaim(w) PROVE QueueNext
  BY <1>4, <1>13 DEF QueueNext
<1> QED
  BY <1>2, <1>3, <1>5, <1>6, <1>7, <1>8, <1>9, <1>10, <1>11, <1>12, <1>13 DEF Next, WorkerStep

-----------------------------------------------------------------------------
(***************************************************************************)
(* Types.                                                                  *)
(***************************************************************************)
LEMMA AtIsWorker ==
  ASSUME NEW pc \in Stages
  PROVE  At(pc) \in Worker
  BY DEF At, Local, Worker

LEMMA BecomesWorker ==
  ASSUME PoolTypes, NEW w \in Workers, NEW record \in Worker, Becomes(w, record)
  PROVE  workers' \in [Workers -> Worker]
  BY DEF PoolTypes, Becomes

LEMMA StepTypes ==
  ASSUME PoolTypes, QueueTypeOK', JobInv, [Next]_vars
  PROVE  PoolTypes'
<1> USE DEF PoolTypes
<1>0. now \in Nat /\ now' \in Nat
  BY DEF QueueTypeOK
<1>s. /\ "idle" \in Stages /\ "reclaiming" \in Stages /\ "stopped" \in Stages /\ "down" \in Stages
      /\ "claiming" \in Stages /\ "running" \in Stages /\ "reporting" \in Stages
  BY DEF Stages
<1>1. ASSUME NEW j \in Jobs, Produce(j) PROVE PoolTypes'
  BY <1>1 DEF Produce, history
<1>2. ASSUME NEW w \in Workers,
             RefuseClaim(w) \/ FindNothing(w) \/ Reclaim(w) \/ StopLoop(w) \/ Record(w)
      PROVE  PoolTypes'
  <2>1. \E pc \in Stages : Becomes(w, At(pc))
    BY <1>2, <1>s DEF RefuseClaim, FindNothing, Reclaim, StopLoop, Record
  <2>2. workers' \in [Workers -> Worker]
    BY <2>1, AtIsWorker, BecomesWorker
  <2> QED
    BY <1>2, <2>2 DEF RefuseClaim, FindNothing, Reclaim, StopLoop, Record, history
<1>3. ASSUME NEW w \in Workers, LockClaim(w) PROVE PoolTypes'
  <2>1. PICK j \in Jobs : Becomes(w, Local("claiming", j, now, 0, 0, FALSE))
    BY <1>3 DEF LockClaim
  <2>2. Local("claiming", j, now, 0, 0, FALSE) \in Worker
    BY <1>0, <1>s DEF Local, Worker
  <2>3. workers' \in [Workers -> Worker]
    BY <2>1, <2>2, BecomesWorker
  <2> QED
    BY <1>3, <2>3 DEF LockClaim, history
<1>4. ASSUME NEW w \in Workers, CommitClaim(w) PROVE PoolTypes'
  <2> DEFINE j == workers[w].job
             record == Local("running", j, workers[w].at, grant[j] + 1, jobs[j].attempts + 1, FALSE)
  <2>1. j \in Jobs /\ workers[w].at \in Nat /\ grant[j] \in Nat /\ jobs[j].attempts \in Nat
    BY <1>4, WorkerStates DEF CommitClaim, JobInv, Busy, Claiming, Worker, QueueTypeOK, Row
  <2>2. record \in Worker
    BY <1>s, <2>1 DEF Local, Worker
  <2>3. workers' \in [Workers -> Worker]
    BY <1>4, <2>2, BecomesWorker DEF CommitClaim
  <2> QED
    BY <1>4, <2>1, <2>3 DEF CommitClaim, Grant, poolVars
<1>5. ASSUME NEW w \in Workers, LoseClaim(w) PROVE PoolTypes'
  <2>1. workers[w].job \in Jobs /\ grant[workers[w].job] \in Nat
    BY <1>5 DEF LoseClaim, JobInv, Busy, Claiming
  <2>2. workers' \in [Workers -> Worker]
    BY <1>5, <1>s, AtIsWorker, BecomesWorker DEF LoseClaim
  <2> QED
    BY <1>5, <2>1, <2>2 DEF LoseClaim, Grant, DatabaseFails
<1>6. ASSUME NEW w \in Workers, LoseReclaim(w) \/ LoseRecord(w) PROVE PoolTypes'
  <2>1. workers' \in [Workers -> Worker]
    BY <1>6, <1>s, AtIsWorker, BecomesWorker DEF LoseReclaim, LoseRecord
  <2> QED
    BY <1>6, <2>1 DEF LoseReclaim, LoseRecord, DatabaseFails, history
<1>7. ASSUME NEW w \in Workers, NEW ok \in BOOLEAN, HandlerEnds(w, ok) PROVE PoolTypes'
  <2> DEFINE record == Local("reporting", workers[w].job, workers[w].at, workers[w].grant,
                             workers[w].tries, ok)
  <2>1. workers[w].job \in Jobs /\ workers[w] \in Worker
    BY <1>7, WorkerStates DEF HandlerEnds, JobInv, Busy, InFlight
  <2>2. record \in Worker /\ At("idle") \in Worker
    BY <1>s, <2>1, AtIsWorker DEF Local, Worker
  <2>3. workers' \in [Workers -> Worker]
    BY <1>7, <2>2, BecomesWorker DEF HandlerEnds
  <2>4. okRuns' \in [Jobs -> SUBSET [grant : Nat, worker : Workers]]
    <3>1. Run(workers[w].grant, w) \in [grant : Nat, worker : Workers]
      BY <2>1 DEF Worker, Run
    <3> QED
      BY <1>7, <2>1, <3>1 DEF HandlerEnds
  <2> QED
    BY <1>7, <2>3, <2>4 DEF HandlerEnds, poolVars
<1>8. ASSUME NEW p \in Processes, Signal(p) PROVE PoolTypes'
  BY <1>8, WorkerAssumption DEF Signal, history
<1>9. ASSUME NEW p \in Processes, Crash(p) \/ Restart(p) PROVE PoolTypes'
  <2>1. workers' \in [Workers -> Worker]
    BY <1>9, <1>s, AtIsWorker DEF Crash, Restart
  <2> QED
    BY <1>9, <2>1 DEF Crash, Restart, history
<1>10. ASSUME NEW op \in Operators, LookUpDead(op) PROVE PoolTypes'
  <2>1. PICK j \in Retryable : lookups' = [lookups EXCEPT ![op] = [job |-> j, at |-> now]]
    BY <1>10 DEF LookUpDead
  <2>2. [job |-> j, at |-> now] \in [job : Jobs \cup {NoJob}, at : Nat]
    BY <1>0, WorkerAssumption
  <2> QED
    BY <1>10, <2>1, <2>2 DEF LookUpDead, history
<1>11. ASSUME NEW op \in Operators, CommitRetry(op) PROVE PoolTypes'
  <2>1. lookups[op].job \in Jobs /\ audit[lookups[op].job] \in Nat
    BY <1>11 DEF CommitRetry
  <2>2. NoLookup \in [job : Jobs \cup {NoJob}, at : Nat]
    BY DEF NoLookup
  <2> QED
    BY <1>11, <2>1, <2>2 DEF CommitRetry, history
<1>12. CASE Pass
  BY <1>12 DEF Pass
<1>13. CASE UNCHANGED vars
  BY <1>13 DEF vars
<1> QED
  BY <1>1, <1>2, <1>3, <1>4, <1>5, <1>6, <1>7, <1>8, <1>9, <1>10, <1>11, <1>12, <1>13
  DEF Next, WorkerStep

-----------------------------------------------------------------------------
(***************************************************************************)
(* The row of a lease names the goroutine the newest lease was granted to. *)
(* A worker in flight whom nobody followed holds that lease, whatever its  *)
(* name; and one that reports a success has run the handler.               *)
(***************************************************************************)
HolderInv ==
  \A j \in Jobs : jobs[j].state = "leased" =>
    holder[j] \in Workers /\ jobs[j].owner = Owner[holder[j]]

FlightInv ==
  \A w \in Workers : InFlight(w) =>
    /\ holder[workers[w].job] = w => workers[w].grant = grant[workers[w].job]
    /\ workers[w].pc = "reporting" /\ workers[w].ok
         => Run(workers[w].grant, w) \in okRuns[workers[w].job]

PoolInv == PoolTypes /\ QueueCoherent /\ JobInv /\ LookupInv /\ LockInv /\ HolderInv /\ FlightInv

Quiet(w) == ~Busy(w)

(***************************************************************************)
(* A step that grants nothing, moves no locked row, leases no row, and     *)
(* only takes workers out of their claim or flight keeps the pool's facts. *)
(***************************************************************************)
LEMMA Settling ==
  ASSUME PoolInv,
         \A w \in Workers : workers'[w] = workers[w] \/ Quiet(w)',
         grant' = grant, holder' = holder,
         \A j \in Jobs : okRuns[j] \subseteq okRuns'[j],
         now' \in Nat, now' >= now,
         \A j \in Jobs : jobs'[j] = jobs[j] \/ (j \notin Locked /\ jobs'[j].state # "leased")
  PROVE  JobInv' /\ LockInv' /\ HolderInv' /\ FlightInv'
<1>1. ASSUME NEW w \in Workers, Busy(w)' PROVE workers'[w] = workers[w] /\ Busy(w)
  BY <1>1 DEF Quiet, Busy, Claiming, InFlight
<1>2. JobInv'
  BY <1>1 DEF PoolInv, JobInv, Busy, Claiming, InFlight
<1>3. LockInv'
  <2> SUFFICES ASSUME NEW w \in Workers, Claiming(w)'
               PROVE  /\ workers'[w].at \in 0 .. now'
                      /\ Claimable(workers[w].job, workers[w].at)'
                      /\ \A v \in Workers : Claiming(v)' /\ workers'[v].job = workers'[w].job => v = w
    BY <1>1 DEF LockInv, Busy
  <2>1. workers'[w] = workers[w] /\ Claiming(w)
    BY <1>1 DEF Busy, Claiming
  <2>2. jobs'[workers[w].job] = jobs[workers[w].job]
    BY <2>1, LockedRows DEF PoolInv, JobInv, Busy
  <2>3. workers[w].at \in 0 .. now /\ Claimable(workers[w].job, workers[w].at)
    BY <2>1 DEF PoolInv, LockInv
  <2>4. workers'[w].at \in 0 .. now'
    BY <2>1, <2>3 DEF PoolInv, PoolTypes, QueueTypeOK
  <2>5. Claimable(workers[w].job, workers[w].at)'
    BY <2>1, <2>2, <2>3 DEF Claimable, IsDue, LeaseLapsed
  <2>6. ASSUME NEW v \in Workers, Claiming(v)', workers'[v].job = workers'[w].job PROVE v = w
    <3>1. workers'[v] = workers[v] /\ Claiming(v)
      BY <1>1, <2>6 DEF Busy, Claiming
    <3> QED
      BY <2>1, <2>6, <3>1 DEF PoolInv, LockInv
  <2> QED
    BY <2>4, <2>5, <2>6
<1>4. FlightInv'
  <2> SUFFICES ASSUME NEW w \in Workers, InFlight(w)'
               PROVE  /\ holder'[workers'[w].job] = w
                           => workers'[w].grant = grant'[workers'[w].job]
                      /\ workers'[w].pc = "reporting" /\ workers'[w].ok
                           => Run(workers'[w].grant, w) \in okRuns'[workers'[w].job]
    BY DEF FlightInv
  <2>1. workers'[w] = workers[w] /\ InFlight(w) /\ workers[w].job \in Jobs
    BY <1>1 DEF PoolInv, JobInv, Busy, Claiming, InFlight
  <2> QED
    BY <2>1 DEF PoolInv, FlightInv
<1>5. HolderInv'
  BY DEF PoolInv, HolderInv
<1> QED
  BY <1>2, <1>3, <1>4, <1>5

\* A worker that becomes idle, stopped or down is quiet.
LEMMA Quieting ==
  ASSUME PoolTypes, NEW w \in Workers, NEW pc, pc \notin {"claiming", "running", "reporting"},
         Becomes(w, At(pc))
  PROVE  \A v \in Workers : workers'[v] = workers[v] \/ Quiet(v)'
<1>1. workers'[w] = At(pc) /\ \A v \in Workers \ {w} : workers'[v] = workers[v]
  BY BecomesOne
<1>2. workers'[w].pc = pc
  BY <1>1, AtStage
<1> QED
  BY <1>1, <1>2 DEF Quiet, Busy, Claiming, InFlight

LEMMA LockedIsClaimable ==
  ASSUME PoolInv, NEW j \in Locked
  PROVE  jobs[j].state \in {"queued", "leased"}
  BY DEF PoolInv, LockInv, Locked, Claiming, Claimable, IsDue, LeaseLapsed

\* The claim of w commits, whether or not w learns it.
LEMMA Granting ==
  ASSUME PoolInv, NEW w \in Workers, NEW j \in Jobs,
         Claiming(w), workers[w].job = j,
         Grant(j, w), okRuns' = okRuns, now' = now,
         \A v \in Workers \ {w} : workers'[v] = workers[v],
         ~Claiming(w)',
         InFlight(w)' => /\ workers'[w].job = j /\ workers'[w].grant = grant'[j]
                         /\ workers'[w].pc = "running"
  PROVE  JobInv' /\ LockInv' /\ HolderInv' /\ FlightInv'
<1>1. /\ jobs'[j] = Leased(jobs[j], Owner[w], workers[w].at)
      /\ grant'[j] = grant[j] + 1 /\ holder'[j] = w
      /\ \A k \in Jobs \ {j} :
           jobs'[k] = jobs[k] /\ grant'[k] = grant[k] /\ holder'[k] = holder[k]
  BY DEF Grant, LeaseRow, PoolInv, PoolTypes, QueueTypeOK
<1>2. \A v \in Workers \ {w} : (Busy(v)' => Busy(v)) /\ (Claiming(v) => workers[v].job # j)
  BY DEF Busy, Claiming, InFlight, PoolInv, LockInv
<1>3. JobInv'
  BY <1>2 DEF PoolInv, JobInv, Busy
<1>4. LockInv'
  <2> SUFFICES ASSUME NEW v \in Workers, Claiming(v)'
               PROVE  /\ workers'[v].at \in 0 .. now'
                      /\ Claimable(workers[v].job, workers[v].at)'
                      /\ \A u \in Workers : Claiming(u)' /\ workers'[u].job = workers'[v].job => u = v
    BY DEF LockInv
  <2>1. v # w /\ workers'[v] = workers[v] /\ Claiming(v)
    BY DEF Claiming
  <2>2. workers[v].job \in Jobs \ {j}
    BY <1>2, <2>1 DEF PoolInv, JobInv, Busy
  <2>3. Claimable(workers[v].job, workers[v].at)'
    BY <1>1, <2>1, <2>2 DEF PoolInv, LockInv, Claimable, IsDue, LeaseLapsed
  <2>4. ASSUME NEW u \in Workers, Claiming(u)', workers'[u].job = workers'[v].job PROVE u = v
    <3>1. workers'[u] = workers[u] /\ Claiming(u)
      BY <2>4 DEF Claiming
    <3> QED
      BY <2>1, <2>4, <3>1 DEF PoolInv, LockInv
  <2> QED
    BY <2>1, <2>3, <2>4 DEF PoolInv, LockInv
<1>5. FlightInv'
  <2> SUFFICES ASSUME NEW v \in Workers, InFlight(v)'
               PROVE  /\ holder'[workers'[v].job] = v
                           => workers'[v].grant = grant'[workers'[v].job]
                      /\ workers'[v].pc = "reporting" /\ workers'[v].ok
                           => Run(workers'[v].grant, v) \in okRuns'[workers'[v].job]
    BY DEF FlightInv
  <2>1. CASE v = w
    BY <2>1
  <2>2. CASE v # w
    <3>1. workers'[v] = workers[v] /\ InFlight(v) /\ workers[v].job \in Jobs
      BY <2>2 DEF PoolInv, JobInv, Busy, InFlight
    <3>2. CASE workers[v].job = j
      BY <1>1, <2>2, <3>1, <3>2 DEF PoolInv, FlightInv
    <3>3. CASE workers[v].job # j
      BY <1>1, <3>1, <3>3 DEF PoolInv, FlightInv
    <3> QED
      BY <3>2, <3>3
  <2> QED
    BY <2>1, <2>2
<1>6. HolderInv'
  <2>1. jobs'[j].owner = Owner[w]
    BY <1>1 DEF Leased
  <2> QED
    BY <1>1, <2>1 DEF PoolInv, HolderInv
<1> QED
  BY <1>3, <1>4, <1>5, <1>6

LEMMA Locking ==
  ASSUME PoolInv, NEW w \in Workers, LockClaim(w)
  PROVE  JobInv' /\ LockInv' /\ HolderInv' /\ FlightInv'
<1>1. PICK j \in Jobs : IsNextClaim(j, now, Locked) /\ Becomes(w, Local("claiming", j, now, 0, 0, FALSE))
  BY DEF LockClaim
<1>2. /\ workers'[w].pc = "claiming" /\ workers'[w].job = j /\ workers'[w].at = now
      /\ \A v \in Workers \ {w} : workers'[v] = workers[v]
  <2>1. /\ workers'[w] = Local("claiming", j, now, 0, 0, FALSE)
        /\ \A v \in Workers \ {w} : workers'[v] = workers[v]
    BY <1>1, BecomesOne DEF PoolInv
  <2> QED
    BY <2>1 DEF Local
<1>3. UNCHANGED <<jobs, now, grant, holder, okRuns>>
  BY DEF LockClaim, queueVars, history
<1>4. j \notin Locked /\ Claimable(j, now)
  BY <1>1 DEF IsNextClaim
<1>5. JobInv'
  BY <1>2 DEF PoolInv, JobInv, Busy, Claiming, InFlight
<1>6. LockInv'
  <2> SUFFICES ASSUME NEW v \in Workers, Claiming(v)'
               PROVE  /\ workers'[v].at \in 0 .. now'
                      /\ Claimable(workers[v].job, workers[v].at)'
                      /\ \A u \in Workers : Claiming(u)' /\ workers'[u].job = workers'[v].job => u = v
    BY DEF LockInv
  <2>1. \A u \in Workers \ {w} : Claiming(u)' => Claiming(u) /\ workers[u].job # j
    BY <1>2, <1>4, LockedRows DEF Claiming
  <2>2. now \in 0 .. now
    BY DEF PoolInv, PoolTypes, QueueTypeOK
  <2>3. CASE v = w
    BY <1>2, <1>3, <1>4, <2>1, <2>2, <2>3 DEF Claimable, IsDue, LeaseLapsed
  <2>4. CASE v # w
    BY <1>2, <1>3, <2>1, <2>4 DEF PoolInv, LockInv, Claimable, IsDue, LeaseLapsed
  <2> QED
    BY <2>3, <2>4
<1>7. FlightInv'
  BY <1>2, <1>3 DEF PoolInv, FlightInv, InFlight
<1>8. HolderInv'
  BY <1>3 DEF PoolInv, HolderInv
<1> QED
  BY <1>5, <1>6, <1>7, <1>8

LEMMA Ending ==
  ASSUME PoolInv, NEW w \in Workers, NEW ok \in BOOLEAN, HandlerEnds(w, ok)
  PROVE  JobInv' /\ LockInv' /\ HolderInv' /\ FlightInv'
<1> DEFINE j == workers[w].job
<1>1. InFlight(w) /\ ~Claiming(w) /\ j \in Jobs
  BY DEF HandlerEnds, InFlight, Claiming, PoolInv, JobInv, Busy
<1>2. UNCHANGED <<jobs, now, grant, holder>> /\ \A k \in Jobs : okRuns[k] \subseteq okRuns'[k]
  BY <1>1 DEF HandlerEnds, queueVars, PoolInv, PoolTypes
<1>3. CASE Stopping(w)
  <2>1. Becomes(w, At("idle"))
    BY <1>3 DEF HandlerEnds
  <2>2. \A v \in Workers : workers'[v] = workers[v] \/ Quiet(v)'
    BY <2>1, Quieting, "idle" \notin {"claiming", "running", "reporting"} DEF PoolInv
  <2>3. now \in Nat
    BY DEF PoolInv, PoolTypes, QueueTypeOK
  <2> QED
    BY <1>2, <2>2, <2>3, Settling
<1>4. CASE ~Stopping(w)
  <2>1. /\ workers'[w].pc = "reporting" /\ workers'[w].job = j /\ workers'[w].grant = workers[w].grant
        /\ workers'[w].ok = ok /\ \A v \in Workers \ {w} : workers'[v] = workers[v]
    BY <1>4, BecomesOne, LocalFields DEF HandlerEnds, PoolInv
  <2>2. ok => Run(workers[w].grant, w) \in okRuns'[j]
    BY <1>1 DEF HandlerEnds, PoolInv, PoolTypes
  <2>3. JobInv'
    BY <1>1, <2>1 DEF PoolInv, JobInv, Busy, Claiming, InFlight
  <2>4. LockInv'
    BY <1>1, <1>2, <2>1 DEF PoolInv, LockInv, Claiming, Claimable, IsDue, LeaseLapsed
  <2>5. FlightInv'
    <3> SUFFICES ASSUME NEW v \in Workers, InFlight(v)'
                 PROVE  /\ holder'[workers'[v].job] = v
                             => workers'[v].grant = grant'[workers'[v].job]
                        /\ workers'[v].pc = "reporting" /\ workers'[v].ok
                             => Run(workers'[v].grant, v) \in okRuns'[workers'[v].job]
      BY DEF FlightInv
    <3>1. InFlight(v) /\ workers'[v].job = workers[v].job /\ workers'[v].grant = workers[v].grant
          /\ workers[v].job \in Jobs
      BY <1>1, <2>1 DEF InFlight, PoolInv, JobInv, Busy
    <3>2. CASE v = w
      BY <1>2, <2>1, <2>2, <3>1, <3>2 DEF PoolInv, FlightInv
    <3>3. CASE v # w
      BY <1>2, <2>1, <3>1, <3>3 DEF PoolInv, FlightInv
    <3> QED
      BY <3>2, <3>3
  <2>6. HolderInv'
    BY <1>2 DEF PoolInv, HolderInv
  <2> QED
    BY <2>3, <2>4, <2>5, <2>6
<1> QED
  BY <1>3, <1>4

-----------------------------------------------------------------------------
LEMMA InitPoolInv == Init => PoolInv
<1> SUFFICES ASSUME Init PROVE PoolInv
  OBVIOUS
<1>1. QueueTypeOK /\ QueueCoherent
  BY InitQueueInv DEF Init, QueueInv
<1>2. At("idle") \in Worker /\ At("idle").pc = "idle"
  BY AtIsWorker, AtStage DEF Stages
<1>3. now \in Nat
  BY <1>1 DEF QueueTypeOK
<1>4. PoolTypes
  BY <1>1, <1>2 DEF Init, PoolTypes, NoLookup
<1>5. \A w \in Workers : workers[w].pc = "idle"
  BY <1>2 DEF Init
<1>6. LookupInv
  BY <1>3 DEF Init, LookupInv, NoLookup
<1>7. HolderInv
  BY DEF Init, QueueInit, NoRow, HolderInv
<1> QED
  BY <1>1, <1>4, <1>5, <1>6, <1>7 DEF PoolInv, JobInv, LockInv, FlightInv, Busy, Claiming, InFlight

\* The steps that only settle: everything but the claim and the handler's end.
LEMMA SettlingSteps ==
  ASSUME PoolInv, PoolTypes', [Next]_vars
  PROVE  \/ JobInv' /\ LockInv' /\ HolderInv' /\ FlightInv'
         \/ \E w \in Workers :
              LockClaim(w) \/ CommitClaim(w) \/ LoseClaim(w) \/ \E ok \in BOOLEAN : HandlerEnds(w, ok)
<1> DEFINE Goal == JobInv' /\ LockInv' /\ HolderInv' /\ FlightInv'
           SameHistory == grant' = grant /\ holder' = holder /\ okRuns' = okRuns
           SameWorkers == workers' = workers
           QuietWorkers == \A w \in Workers : workers'[w] = workers[w] \/ Quiet(w)'
           CalmRows == \A j \in Jobs :
                         jobs'[j] = jobs[j] \/ (j \notin Locked /\ jobs'[j].state # "leased")
<1>0. PoolTypes /\ now \in Nat /\ now' \in Nat
  BY DEF PoolInv, PoolTypes, QueueTypeOK
<1>1. SameHistory /\ QuietWorkers /\ CalmRows /\ now' >= now => Goal
  BY <1>0, Settling
<1>2. SameWorkers => QuietWorkers
  OBVIOUS
<1>3. jobs' = jobs => CalmRows
  OBVIOUS
<1>4. \A j \in Locked : jobs[j].state \in {"queued", "leased"}
  BY LockedIsClaimable
<1>5. ASSUME NEW j \in Jobs, NEW row, jobs[j].state \in {"absent", "dead"} \/ j \notin Locked,
             row.state # "leased", jobs' = [jobs EXCEPT ![j] = row]
      PROVE  CalmRows
  BY <1>0, <1>4, <1>5 DEF PoolTypes, QueueTypeOK
<1>6. ASSUME NEW w \in Workers, NEW pc \in {"idle", "reclaiming", "stopped"}, Becomes(w, At(pc))
      PROVE  QuietWorkers
  BY <1>0, <1>6, Quieting
<1>7. ASSUME NEW j \in Jobs, Produce(j) PROVE Goal
  <2>1. PICK at \in now .. MaxTime : EnqueueRow(j, at)
    BY <1>7 DEF Produce
  <2>2. Enqueued(at).state = "queued"
    BY DEF Enqueued
  <2>3. CalmRows
    BY <1>5, <2>1, <2>2 DEF EnqueueRow
  <2>4. SameHistory /\ SameWorkers /\ now' = now
    BY <1>7 DEF Produce, history
  <2> QED
    BY <1>0, <1>1, <1>2, <2>3, <2>4
<1>8. ASSUME NEW w \in Workers, RefuseClaim(w) \/ FindNothing(w) \/ StopLoop(w)
                               \/ LoseReclaim(w) \/ LoseRecord(w) PROVE Goal
  <2>1. QuietWorkers
    BY <1>6, <1>8 DEF RefuseClaim, FindNothing, StopLoop, LoseReclaim, LoseRecord
  <2>2. SameHistory /\ jobs' = jobs /\ now' = now
    BY <1>8 DEF RefuseClaim, FindNothing, StopLoop, LoseReclaim, LoseRecord, history, queueVars
  <2> QED
    BY <1>0, <1>1, <1>3, <2>1, <2>2
<1>9. ASSUME NEW w \in Workers, Reclaim(w) PROVE Goal
  <2>1. QuietWorkers
    BY <1>6, <1>9 DEF Reclaim
  <2>2. SameHistory /\ now' = now /\ ReleaseLapsedRows(now) /\ \A j \in Locked : ~LeaseLapsed(j, now)
    BY <1>9 DEF Reclaim, history
  <2>3. \A j \in Jobs : Unleased(jobs[j], "queued").state = "queued"
    BY DEF Unleased
  <2>4. CalmRows
    BY <2>2, <2>3 DEF ReleaseLapsedRows
  <2> QED
    BY <1>0, <1>1, <2>1, <2>2, <2>4
<1>10. ASSUME NEW w \in Workers, Record(w) PROVE Goal
  <2> DEFINE j == workers[w].job
  <2>1. QuietWorkers
    BY <1>6, <1>10 DEF Record
  <2>2. SameHistory /\ now' = now /\ j \notin Locked /\ j \in Jobs
    BY <1>10 DEF Record, history, PoolInv, JobInv, Busy, InFlight
  <2>3. CASE jobs' = jobs
    BY <1>0, <1>1, <1>3, <2>1, <2>2, <2>3
  <2>4. CASE jobs' # jobs
    <3>1. CompleteRow(j, Owner[w]) \/ \E retryAt \in RetryInstants(w) : FailRow(j, Owner[w], retryAt)
      BY <1>10, <2>4 DEF Record, Outcome
    <3>2. /\ Unleased(jobs[j], "succeeded").state # "leased"
          /\ \A retryAt : Failed(j, retryAt).state # "leased"
      BY DEF Unleased, Failed, Requeued
    <3>3. CalmRows
      BY <1>5, <2>2, <3>1, <3>2 DEF CompleteRow, FailRow
    <3> QED
      BY <1>0, <1>1, <2>1, <2>2, <3>3
  <2> QED
    BY <2>3, <2>4
<1>11. ASSUME NEW p \in Processes, Signal(p) PROVE Goal
  BY <1>0, <1>1, <1>2, <1>3, <1>11 DEF Signal, queueVars, history
<1>12. ASSUME NEW p \in Processes, Crash(p) \/ Restart(p) PROVE Goal
  <2>1. At("down").pc = "down" /\ At("idle").pc = "idle"
    BY AtStage
  <2>2. QuietWorkers
    BY <1>12, <2>1 DEF Crash, Restart, Quiet, Busy, Claiming, InFlight
  <2>3. SameHistory /\ jobs' = jobs /\ now' = now
    BY <1>12 DEF Crash, Restart, history, queueVars
  <2> QED
    BY <1>0, <1>1, <1>3, <2>2, <2>3
<1>13. ASSUME NEW op \in Operators, LookUpDead(op) PROVE Goal
  BY <1>0, <1>1, <1>2, <1>3, <1>13 DEF LookUpDead, queueVars, history
<1>14. ASSUME NEW op \in Operators, CommitRetry(op) PROVE Goal
  <2> DEFINE j == lookups[op].job
  <2>1. SameHistory /\ SameWorkers /\ now' = now /\ j \in Jobs
    BY <1>0, <1>14 DEF CommitRetry, PoolTypes
  <2>2. CASE jobs' = jobs
    BY <1>0, <1>1, <1>2, <1>3, <2>1, <2>2
  <2>3. CASE jobs' # jobs
    <3>1. RetryDeadRow(j, lookups[op].at)
      BY <1>14, <2>3 DEF CommitRetry
    <3>2. Revived(jobs[j], lookups[op].at).state = "queued"
      BY DEF Revived, Enqueued
    <3>3. CalmRows
      BY <1>5, <2>1, <3>1, <3>2 DEF RetryDeadRow
    <3> QED
      BY <1>0, <1>1, <1>2, <2>1, <3>3
  <2> QED
    BY <2>2, <2>3
<1>15. CASE Pass
  BY <1>0, <1>1, <1>2, <1>3, <1>15 DEF Pass, Tick
<1>16. CASE UNCHANGED vars
  BY <1>0, <1>1, <1>2, <1>3, <1>16 DEF vars
<1> QED
  BY <1>7, <1>8, <1>9, <1>10, <1>11, <1>12, <1>13, <1>14, <1>15, <1>16 DEF Next, WorkerStep

LEMMA ClockMoves ==
  ASSUME [Next]_vars
  PROVE  now' = now \/ now' = now + 1
<1>1. ASSUME NEW w \in Workers,
             WorkerStep(w) \/ LoseClaim(w) \/ LoseReclaim(w) \/ LoseRecord(w)
      PROVE  now' = now
  BY <1>1 DEF WorkerStep, LockClaim, CommitClaim, RefuseClaim, FindNothing, Reclaim, StopLoop,
              HandlerEnds, Record, LoseClaim, LoseReclaim, LoseRecord, queueVars
<1>2. ASSUME NEW p \in Processes, Signal(p) \/ Crash(p) \/ Restart(p) PROVE now' = now
  BY <1>2 DEF Signal, Crash, Restart, queueVars
<1>3. ASSUME NEW op \in Operators, LookUpDead(op) \/ CommitRetry(op) PROVE now' = now
  BY <1>3 DEF LookUpDead, CommitRetry, queueVars
<1>4. ASSUME NEW j \in Jobs, Produce(j) PROVE now' = now
  BY <1>4 DEF Produce
<1>5. CASE Pass
  BY <1>5 DEF Pass, Tick
<1>6. CASE UNCHANGED vars
  BY <1>6 DEF vars
<1> QED
  BY <1>1, <1>2, <1>3, <1>4, <1>5, <1>6 DEF Next

LEMMA LookupsMove ==
  ASSUME PoolTypes, [Next]_vars, NEW op \in Operators
  PROVE  lookups'[op] = lookups[op] \/ lookups'[op].at = 0 \/ lookups'[op].at = now
<1>1. ASSUME NEW w \in Workers,
             WorkerStep(w) \/ LoseClaim(w) \/ LoseReclaim(w) \/ LoseRecord(w)
      PROVE  lookups' = lookups
  BY <1>1 DEF WorkerStep, LockClaim, CommitClaim, RefuseClaim, FindNothing, Reclaim, StopLoop,
              HandlerEnds, Record, LoseClaim, LoseReclaim, LoseRecord, poolVars
<1>2. ASSUME NEW p \in Processes, Signal(p) \/ Crash(p) \/ Restart(p) PROVE lookups' = lookups
  BY <1>2 DEF Signal, Crash, Restart
<1>3. ASSUME NEW o \in Operators, LookUpDead(o)
      PROVE  lookups'[op] = lookups[op] \/ lookups'[op].at = now
  <2>1. PICK j \in Retryable : lookups' = [lookups EXCEPT ![o] = [job |-> j, at |-> now]]
    BY <1>3 DEF LookUpDead
  <2> QED
    BY <2>1 DEF PoolTypes
<1>4. ASSUME NEW o \in Operators, CommitRetry(o)
      PROVE  lookups'[op] = lookups[op] \/ lookups'[op].at = 0
  <2>1. lookups' = [lookups EXCEPT ![o] = [job |-> NoJob, at |-> 0]]
    BY <1>4 DEF CommitRetry, NoLookup
  <2> QED
    BY <2>1 DEF PoolTypes
<1>5. ASSUME NEW j \in Jobs, Produce(j) PROVE lookups' = lookups
  BY <1>5 DEF Produce
<1>6. CASE Pass
  BY <1>6 DEF Pass
<1>7. CASE UNCHANGED vars
  BY <1>7 DEF vars
<1> QED
  BY <1>1, <1>2, <1>3, <1>4, <1>5, <1>6, <1>7 DEF Next

LEMMA ClaimSteps ==
  ASSUME PoolInv, NEW w \in Workers, CommitClaim(w) \/ LoseClaim(w)
  PROVE  JobInv' /\ LockInv' /\ HolderInv' /\ FlightInv'
<1> DEFINE j == workers[w].job
<1>0. Claiming(w) /\ j \in Jobs /\ PoolTypes
  BY DEF CommitClaim, LoseClaim, Claiming, PoolInv, JobInv, Busy
<1>1. CASE CommitClaim(w)
  <2>1. /\ workers'[w] = Local("running", j, workers[w].at, grant[j] + 1, jobs[j].attempts + 1, FALSE)
        /\ \A v \in Workers \ {w} : workers'[v] = workers[v]
    BY <1>0, <1>1, BecomesOne DEF CommitClaim
  <2>2. workers'[w].pc = "running" /\ workers'[w].job = j /\ workers'[w].grant = grant[j] + 1
    BY <2>1 DEF Local
  <2>3. Grant(j, w) /\ okRuns' = okRuns /\ now' = now
    BY <1>1 DEF CommitClaim
  <2>4. grant'[j] = grant[j] + 1
    BY <1>0, <2>3 DEF Grant, PoolTypes
  <2>5. ~Claiming(w)'
    BY <2>2 DEF Claiming
  <2> QED
    BY <1>0, <2>1, <2>2, <2>3, <2>4, <2>5, Granting
<1>2. CASE LoseClaim(w)
  <2>1. Becomes(w, At("idle")) /\ okRuns' = okRuns /\ now' = now
    BY <1>2 DEF LoseClaim
  <2>2. workers'[w].pc = "idle" /\ \A v \in Workers \ {w} : workers'[v] = workers[v]
    BY <1>0, <2>1, BecomesOne, AtStage
  <2>3. ~Claiming(w)' /\ ~InFlight(w)'
    BY <2>2 DEF Claiming, InFlight
  <2>4. CASE Grant(j, w)
    BY <1>0, <2>1, <2>2, <2>3, <2>4, Granting
  <2>5. CASE jobs' = jobs /\ grant' = grant /\ holder' = holder
    <3>1. \A v \in Workers : workers'[v] = workers[v] \/ Quiet(v)'
      BY <2>2, <2>3 DEF Quiet, Busy
    <3>2. now \in Nat
      BY <1>0 DEF PoolTypes, QueueTypeOK
    <3> QED
      BY <2>1, <2>5, <3>1, <3>2, Settling
  <2> QED
    BY <1>2, <2>4, <2>5 DEF LoseClaim
<1> QED
  BY <1>1, <1>2

LEMMA PoolStep ==
  ASSUME PoolInv, [Next]_vars
  PROVE  PoolInv' /\ [QueueNext]_queueVars
<1>0. PoolTypes /\ QueueCoherent /\ JobInv /\ LookupInv /\ LockInv /\ HolderInv /\ FlightInv
  BY DEF PoolInv
<1>1. [QueueNext]_queueVars
  BY <1>0, StepUsesTheQueue
<1>2. QueueTypeOK' /\ QueueCoherent'
  BY <1>0, <1>1, NextQueueInv DEF QueueInv, PoolTypes
<1>3. PoolTypes'
  BY <1>0, <1>2, StepTypes
<1>4. LookupInv'
  <2>1. now \in Nat /\ now' \in Nat /\ now' >= now
    BY <1>0, <1>3, ClockMoves DEF PoolTypes, QueueTypeOK
  <2>2. ASSUME NEW op \in Operators PROVE lookups'[op].at \in 0 .. now'
    BY <1>0, <2>1, LookupsMove DEF LookupInv
  <2> QED
    BY <2>2 DEF LookupInv
<1>5. JobInv' /\ LockInv' /\ HolderInv' /\ FlightInv'
  <2>1. ASSUME NEW w \in Workers, LockClaim(w) PROVE JobInv' /\ LockInv' /\ HolderInv' /\ FlightInv'
    BY <2>1, Locking
  <2>2. ASSUME NEW w \in Workers, CommitClaim(w) \/ LoseClaim(w)
        PROVE  JobInv' /\ LockInv' /\ HolderInv' /\ FlightInv'
    BY <2>2, ClaimSteps
  <2>3. ASSUME NEW w \in Workers, NEW ok \in BOOLEAN, HandlerEnds(w, ok)
        PROVE  JobInv' /\ LockInv' /\ HolderInv' /\ FlightInv'
    BY <2>3, Ending
  <2> QED
    BY <1>3, <2>1, <2>2, <2>3, SettlingSteps
<1> QED
  BY <1>1, <1>2, <1>3, <1>4, <1>5 DEF PoolInv

LEMMA PoolAlways == Spec => []PoolInv
<1>1. PoolInv /\ [Next]_vars => PoolInv'
  BY PoolStep
<1> QED
  BY <1>1, InitPoolInv, PTL DEF Spec

(***************************************************************************)
(* The variables of the pool keep their types, and every row keeps to the  *)
(* CHECKs of migration 00029 (TypeOK).                                     *)
(***************************************************************************)
THEOREM PoolIsTyped == Spec => []TypeOK
<1>1. PoolInv => TypeOK
  BY DEF PoolInv, TypeOK
<1> QED
  BY <1>1, PoolAlways, PTL

(***************************************************************************)
(* Goroutines, crashes, lost answers, signals and operators together only  *)
(* do to the table what its statements allow: the pool implements the      *)
(* queue, and through it the contract of a job.                            *)
(***************************************************************************)
THEOREM PoolUsesTheQueue == Spec => UsesTheQueue
<1>1. Init => QueueInit
  BY DEF Init
<1>2. PoolInv /\ [Next]_vars => [QueueNext]_queueVars
  BY PoolStep
<1> QED
  BY <1>1, <1>2, PoolAlways, PTL DEF Spec, UsesTheQueue, QueueSpec

(***************************************************************************)
(* By the two refinements the pool keeps the contract of a job: a try costs *)
(* an attempt, and an outcome is final but for an operator's retry.        *)
(***************************************************************************)
THEOREM PoolKeepsTheContract == Spec => ContractSpec
  BY PoolUsesTheQueue, QueueImplementsContract, PTL DEF UsesTheQueue

(***************************************************************************)
(* A report changes a row under its newest lease, or under the lease of a  *)
(* goroutine of the same name in another process: the names of one process *)
(* tell its goroutines apart, so a stale holder never overwrites the       *)
(* outcome of a sibling (queue.go, Complete and Fail).                     *)
(***************************************************************************)
LEMMA ReportsUnderTheName ==
  ASSUME PoolInv, NEW w \in Workers, NEW j \in Jobs, InFlight(w), workers[w].job = j,
         Holds(j, Owner[w])
  PROVE  /\ Owner[w] = Owner[holder[j]]
         /\ workers[w].grant = grant[j] \/ Process[w] # Process[holder[j]]
<1>1. holder[j] \in Workers /\ Owner[w] = Owner[holder[j]]
  BY DEF PoolInv, HolderInv, Holds
<1>2. Process[w] = Process[holder[j]] => holder[j] = w
  BY <1>1, WorkerAssumption
<1> QED
  BY <1>1, <1>2 DEF PoolInv, FlightInv

THEOREM StaleHoldersAreHarmless == Spec => StaleSiblingsRecordNothing
<1>1. ASSUME PoolInv, NEW w \in Workers, NEW j \in Jobs, Record(w), workers[w].job = j,
             jobs'[j] # jobs[j]
      PROVE  workers[w].grant = grant[j] \/ Process[holder[j]] # Process[w]
  <2>1. InFlight(w) /\ Holds(j, Owner[w])
    BY <1>1 DEF Record, InFlight
  <2> QED
    BY <1>1, <2>1, ReportsUnderTheName
<1>2. PoolInv => \A w \in Workers : \A j \in Jobs :
        Record(w) /\ workers[w].job = j /\ jobs'[j] # jobs[j]
          => workers[w].grant = grant[j] \/ Process[holder[j]] # Process[w]
  BY <1>1
<1> QED
  BY <1>2, PoolAlways, PTL DEF StaleSiblingsRecordNothing

-----------------------------------------------------------------------------
(***************************************************************************)
(* The accounts of a row: what one step can do to its attempts, its grants *)
(* and its trail.                                                          *)
(***************************************************************************)
Kept(j) ==
  /\ grant'[j] = grant[j] /\ audit'[j] = audit[j]
  /\ jobs'[j].attempts = jobs[j].attempts
  /\ jobs[j].state = "dead" => jobs'[j].state = "dead"

Granted(j) ==
  /\ grant'[j] = grant[j] + 1 /\ audit'[j] = audit[j]
  /\ jobs'[j].attempts = jobs[j].attempts + 1
  /\ jobs[j].state # "dead"

Relived(j) ==
  /\ grant'[j] = grant[j] /\ audit'[j] = audit[j] + 1
  /\ jobs'[j].attempts = 0
  /\ jobs[j].state = "dead" /\ jobs'[j].state # "dead"

\* A run that may report under the newest lease of j.
Earns(run, j) ==
  /\ Owner[run.worker] = Owner[holder[j]]
  /\ run.grant = grant[j] \/ Process[run.worker] # Process[holder[j]]

\* A success needs such a run to have returned no error.
Earned(j) ==
  jobs'[j].state = "succeeded" =>
    \/ jobs[j].state = "succeeded" /\ grant'[j] = grant[j] /\ holder'[j] = holder[j]
    \/ \E run \in okRuns'[j] : Earns(run, j)'

RowMoves == \A j \in Jobs : (Kept(j) \/ Granted(j) \/ Relived(j)) /\ Earned(j)

\* Statements that write one row, with the rest of the accounts untouched.
LEMMA OneRowMoves ==
  ASSUME PoolInv, NEW k \in Jobs, NEW row, jobs' = [jobs EXCEPT ![k] = row],
         grant' = grant, holder' = holder, audit' = audit,
         row.attempts = jobs[k].attempts, jobs[k].state # "dead",
         row.state = "succeeded" => \E run \in okRuns'[k] : Earns(run, k)
  PROVE  RowMoves
<1>1. jobs'[k] = row /\ \A j \in Jobs \ {k} : jobs'[j] = jobs[j]
  BY DEF PoolInv, PoolTypes, QueueTypeOK
<1> QED
  BY <1>1 DEF RowMoves, Kept, Earned, Earns

LEMMA NoRowMoves ==
  ASSUME jobs' = jobs, grant' = grant, holder' = holder, audit' = audit
  PROVE  RowMoves
  BY DEF RowMoves, Kept, Earned

LEMMA LeaseMoves ==
  ASSUME PoolInv, NEW w \in Workers, NEW k \in Jobs, Claiming(w), workers[w].job = k,
         Grant(k, w), audit' = audit
  PROVE  RowMoves
<1>1. /\ jobs'[k] = Leased(jobs[k], Owner[w], workers[w].at) /\ grant'[k] = grant[k] + 1
      /\ \A j \in Jobs \ {k} :
           jobs'[j] = jobs[j] /\ grant'[j] = grant[j] /\ holder'[j] = holder[j]
  BY DEF Grant, LeaseRow, PoolInv, PoolTypes, QueueTypeOK
<1>2. jobs'[k].attempts = jobs[k].attempts + 1 /\ jobs'[k].state = "leased"
  BY <1>1 DEF Leased
<1>3. jobs[k].state # "dead"
  BY DEF PoolInv, LockInv, Claimable, IsDue, LeaseLapsed
<1>4. Granted(k) /\ Earned(k)
  BY <1>1, <1>2, <1>3 DEF Granted, Earned
<1>5. \A j \in Jobs \ {k} : Kept(j) /\ Earned(j)
  BY <1>1 DEF Kept, Earned
<1> QED
  BY <1>4, <1>5 DEF RowMoves

LEMMA RetryMoves ==
  ASSUME PoolInv, NEW op \in Operators, CommitRetry(op)
  PROVE  RowMoves
<1> DEFINE k == lookups[op].job
<1>0. k \in Jobs /\ PoolTypes /\ grant' = grant /\ holder' = holder
  BY DEF CommitRetry, PoolInv, PoolTypes
<1>1. CASE jobs[k].state = "dead"
  <2>1. RetryDeadRow(k, lookups[op].at) /\ audit' = [audit EXCEPT ![k] = @ + 1]
    BY <1>1 DEF CommitRetry
  <2>2. /\ jobs'[k] = Revived(jobs[k], lookups[op].at) /\ audit'[k] = audit[k] + 1
        /\ \A j \in Jobs \ {k} : jobs'[j] = jobs[j] /\ audit'[j] = audit[j]
    BY <1>0, <2>1 DEF RetryDeadRow, PoolTypes, QueueTypeOK
  <2>3. jobs'[k].attempts = 0 /\ jobs'[k].state = "queued"
    BY <2>2 DEF Revived, Enqueued
  <2>4. Relived(k) /\ Earned(k)
    BY <1>0, <1>1, <2>2, <2>3 DEF Relived, Earned
  <2>5. \A j \in Jobs \ {k} : Kept(j) /\ Earned(j)
    BY <1>0, <2>2 DEF Kept, Earned
  <2> QED
    BY <2>4, <2>5 DEF RowMoves
<1>2. CASE jobs[k].state # "dead"
  <2>1. jobs' = jobs /\ audit' = audit
    BY <1>2 DEF CommitRetry
  <2> QED
    BY <1>0, <2>1, NoRowMoves
<1> QED
  BY <1>1, <1>2

LEMMA RecordMoves ==
  ASSUME PoolInv, NEW w \in Workers, Record(w)
  PROVE  RowMoves
<1> DEFINE k == workers[w].job
<1>0. /\ k \in Jobs /\ grant' = grant /\ holder' = holder /\ audit' = audit
      /\ okRuns' = okRuns /\ InFlight(w)
  BY DEF Record, history, PoolInv, JobInv, Busy, InFlight
<1>1. CASE jobs' = jobs
  BY <1>0, <1>1, NoRowMoves
<1>2. CASE jobs' # jobs
  <2>1. Holds(k, Owner[w]) /\ Outcome(w) /\ jobs[k].state # "dead" /\ workers[w].pc = "reporting"
    BY <1>2 DEF Record, Holds
  <2>2. CASE workers[w].ok
    <3>1. jobs' = [jobs EXCEPT ![k] = Unleased(jobs[k], "succeeded")]
      BY <2>1, <2>2 DEF Outcome, CompleteRow
    <3>2. \E run \in okRuns'[k] : Earns(run, k)
      <4>1. Run(workers[w].grant, w) \in okRuns'[k]
        BY <1>0, <2>1, <2>2 DEF PoolInv, FlightInv
      <4>2. Earns(Run(workers[w].grant, w), k)
        BY <1>0, <2>1, ReportsUnderTheName DEF Earns, Run
      <4> QED
        BY <4>1, <4>2
    <3>3. Unleased(jobs[k], "succeeded").attempts = jobs[k].attempts
      BY DEF Unleased
    <3> QED
      BY <1>0, <2>1, <3>1, <3>2, <3>3, OneRowMoves
  <2>3. CASE ~workers[w].ok
    <3>1. PICK retryAt \in RetryInstants(w) : FailRow(k, Owner[w], retryAt)
      BY <2>1, <2>3 DEF Outcome
    <3>2. jobs' = [jobs EXCEPT ![k] = Failed(k, retryAt)]
      BY <3>1 DEF FailRow
    <3>3. Failed(k, retryAt).attempts = jobs[k].attempts /\ Failed(k, retryAt).state # "succeeded"
      BY DEF Failed, Requeued, Unleased
    <3> QED
      BY <1>0, <2>1, <3>2, <3>3, OneRowMoves
  <2> QED
    BY <2>2, <2>3
<1> QED
  BY <1>1, <1>2

LEMMA EveryRowMoves ==
  ASSUME PoolInv, [Next]_vars
  PROVE  RowMoves
<1>1. ASSUME NEW k \in Jobs, Produce(k) PROVE RowMoves
  <2>1. PICK at \in now .. MaxTime : EnqueueRow(k, at)
    BY <1>1 DEF Produce
  <2>2. jobs[k].state = "absent" /\ jobs' = [jobs EXCEPT ![k] = Enqueued(at)]
    BY <2>1 DEF EnqueueRow
  <2>3. jobs[k].attempts = 0
    BY <2>2 DEF PoolInv, QueueCoherent, RowCoherent
  <2>4. Enqueued(at).attempts = 0 /\ Enqueued(at).state # "succeeded"
    BY DEF Enqueued
  <2>5. grant' = grant /\ holder' = holder /\ audit' = audit
    BY <1>1 DEF Produce, history
  <2> QED
    BY <2>2, <2>3, <2>4, <2>5, OneRowMoves
<1>2. ASSUME NEW w \in Workers, CommitClaim(w) \/ LoseClaim(w) PROVE RowMoves
  <2>1. workers[w].job \in Jobs /\ Claiming(w) /\ audit' = audit
    BY <1>2 DEF CommitClaim, LoseClaim, poolVars, Claiming, PoolInv, JobInv, Busy
  <2>2. \/ Grant(workers[w].job, w)
        \/ jobs' = jobs /\ grant' = grant /\ holder' = holder
    BY <1>2 DEF CommitClaim, LoseClaim
  <2> QED
    BY <2>1, <2>2, LeaseMoves, NoRowMoves
<1>3. ASSUME NEW w \in Workers, Reclaim(w) PROVE RowMoves
  <2>1. ReleaseLapsedRows(now) /\ grant' = grant /\ holder' = holder /\ audit' = audit
    BY <1>3 DEF Reclaim, history
  <2>2. ASSUME NEW j \in Jobs PROVE Kept(j) /\ Earned(j)
    <3>1. jobs'[j] = IF LeaseLapsed(j, now) THEN Unleased(jobs[j], "queued") ELSE jobs[j]
      BY <2>1 DEF ReleaseLapsedRows
    <3>2. CASE LeaseLapsed(j, now)
      <4>1. jobs[j].state = "leased" /\ jobs'[j] = Unleased(jobs[j], "queued")
        BY <3>1, <3>2 DEF LeaseLapsed
      <4>2. jobs'[j].state = "queued" /\ jobs'[j].attempts = jobs[j].attempts
        BY <4>1 DEF Unleased
      <4> QED
        BY <2>1, <4>1, <4>2 DEF Kept, Earned
    <3>3. CASE ~LeaseLapsed(j, now)
      BY <2>1, <3>1, <3>3 DEF Kept, Earned
    <3> QED
      BY <3>2, <3>3
  <2> QED
    BY <2>2 DEF RowMoves
<1>4. ASSUME NEW w \in Workers,
             \/ LockClaim(w) \/ RefuseClaim(w) \/ FindNothing(w) \/ StopLoop(w)
             \/ LoseReclaim(w) \/ LoseRecord(w) \/ \E ok \in BOOLEAN : HandlerEnds(w, ok)
      PROVE  RowMoves
  <2>1. jobs' = jobs /\ grant' = grant /\ holder' = holder /\ audit' = audit
    BY <1>4 DEF LockClaim, RefuseClaim, FindNothing, StopLoop, LoseReclaim, LoseRecord,
                HandlerEnds, queueVars, history, poolVars
  <2> QED
    BY <2>1, NoRowMoves
<1>5. ASSUME NEW p \in Processes, Signal(p) \/ Crash(p) \/ Restart(p) PROVE RowMoves
  BY <1>5, NoRowMoves DEF Signal, Crash, Restart, queueVars, history
<1>6. ASSUME NEW op \in Operators, LookUpDead(op) PROVE RowMoves
  BY <1>6, NoRowMoves DEF LookUpDead, queueVars, history
<1>7. CASE Pass
  BY <1>7, NoRowMoves DEF Pass, Tick
<1>8. CASE UNCHANGED vars
  BY <1>8, NoRowMoves DEF vars
<1> QED
  BY <1>1, <1>2, <1>3, <1>4, <1>5, <1>6, <1>7, <1>8, RecordMoves, RetryMoves DEF Next, WorkerStep

LEMMA OkRunsGrow ==
  ASSUME PoolTypes, [Next]_vars
  PROVE  \A j \in Jobs : okRuns[j] \subseteq okRuns'[j]
<1>1. ASSUME NEW w \in Workers, NEW ok \in BOOLEAN, HandlerEnds(w, ok)
      PROVE  \A j \in Jobs : okRuns[j] \subseteq okRuns'[j]
  BY <1>1 DEF HandlerEnds, PoolTypes
<1>2. ASSUME NEW w \in Workers,
             \/ LockClaim(w) \/ CommitClaim(w) \/ RefuseClaim(w) \/ FindNothing(w) \/ Reclaim(w)
             \/ StopLoop(w) \/ Record(w) \/ LoseClaim(w) \/ LoseReclaim(w) \/ LoseRecord(w)
      PROVE  okRuns' = okRuns
  BY <1>2 DEF LockClaim, CommitClaim, RefuseClaim, FindNothing, Reclaim, StopLoop, Record,
              LoseClaim, LoseReclaim, LoseRecord, history
<1>3. ASSUME NEW p \in Processes, Signal(p) \/ Crash(p) \/ Restart(p) PROVE okRuns' = okRuns
  BY <1>3 DEF Signal, Crash, Restart, history
<1>4. ASSUME NEW op \in Operators, LookUpDead(op) \/ CommitRetry(op) PROVE okRuns' = okRuns
  BY <1>4 DEF LookUpDead, CommitRetry, history
<1>5. ASSUME NEW j \in Jobs, Produce(j) PROVE okRuns' = okRuns
  BY <1>5 DEF Produce, history
<1>6. CASE Pass
  BY <1>6 DEF Pass
<1>7. CASE UNCHANGED vars
  BY <1>7 DEF vars
<1> QED
  BY <1>1, <1>2, <1>3, <1>4, <1>5, <1>6, <1>7 DEF Next, WorkerStep

(***************************************************************************)
(* Grants are paid for: those of earlier lives by the audited retries that *)
(* ended them, those of this life by the attempts of the row.              *)
(***************************************************************************)
GrantsPaid == \A j \in Jobs : grant[j] <= MaxAttempts[j] * audit[j] + jobs[j].attempts

LEMMA GrantsStayPaid ==
  ASSUME PoolInv, GrantsPaid, [Next]_vars
  PROVE  GrantsPaid'
<1> SUFFICES ASSUME NEW j \in Jobs
             PROVE  grant'[j] <= MaxAttempts[j] * audit'[j] + jobs'[j].attempts
  BY DEF GrantsPaid
<1> DEFINE M == MaxAttempts[j]
<1>1. /\ M \in Nat /\ audit[j] \in Nat /\ grant[j] \in Nat /\ jobs[j].attempts \in Nat
      /\ jobs[j].attempts <= M
  BY QueueAssumption DEF PoolInv, PoolTypes, QueueTypeOK, QueueCoherent, RowCoherent, Row
<1>2. grant[j] <= M * audit[j] + jobs[j].attempts /\ M * audit[j] \in Nat
  BY <1>1 DEF GrantsPaid
<1>3. Kept(j) \/ Granted(j) \/ Relived(j)
  BY EveryRowMoves DEF RowMoves
<1>4. CASE Kept(j)
  BY <1>2, <1>4 DEF Kept
<1>5. CASE Granted(j)
  <2>1. grant[j] + 1 <= M * audit[j] + (jobs[j].attempts + 1)
    BY <1>1, <1>2
  <2> QED
    BY <1>5, <2>1 DEF Granted
<1>6. CASE Relived(j)
  <2>1. M * (audit[j] + 1) = M * audit[j] + M
    BY <1>1
  <2>2. grant[j] <= M * (audit[j] + 1) + 0
    BY <1>1, <1>2, <2>1
  <2> QED
    BY <1>6, <2>2 DEF Relived
<1> QED
  BY <1>3, <1>4, <1>5, <1>6

(***************************************************************************)
(* Whatever lapses, crashes and gets lost, a row is leased at most its     *)
(* budget of times per life, and every further life was an audited retry.  *)
(***************************************************************************)
THEOREM BudgetIsRespected == Spec => []RunsWithinBudget
<1>1. Init => GrantsPaid
  <2> SUFFICES ASSUME Init, NEW j \in Jobs
               PROVE  grant[j] <= MaxAttempts[j] * audit[j] + jobs[j].attempts
    BY DEF GrantsPaid
  <2>1. grant[j] = 0 /\ audit[j] = 0 /\ jobs[j].attempts = 0 /\ MaxAttempts[j] \in Nat
    BY QueueAssumption DEF Init, QueueInit, NoRow
  <2> QED
    BY <2>1
<1>2. PoolInv /\ GrantsPaid => RunsWithinBudget
  <2> SUFFICES ASSUME PoolInv, GrantsPaid, NEW j \in Jobs
               PROVE  grant[j] <= MaxAttempts[j] * (audit[j] + 1)
    BY DEF RunsWithinBudget
  <2>1. /\ MaxAttempts[j] \in Nat /\ audit[j] \in Nat /\ grant[j] \in Nat
        /\ jobs[j].attempts \in Nat /\ jobs[j].attempts <= MaxAttempts[j]
    BY QueueAssumption DEF PoolInv, PoolTypes, QueueTypeOK, QueueCoherent, RowCoherent, Row
  <2>2. grant[j] <= MaxAttempts[j] * audit[j] + jobs[j].attempts
    BY DEF GrantsPaid
  <2>3. MaxAttempts[j] * (audit[j] + 1) = MaxAttempts[j] * audit[j] + MaxAttempts[j]
    BY <2>1
  <2> QED
    BY <2>1, <2>2, <2>3
<1>3. PoolInv /\ GrantsPaid /\ [Next]_vars => GrantsPaid'
  BY GrantsStayPaid
<1> QED
  BY <1>1, <1>2, <1>3, PoolAlways, PTL DEF Spec

(***************************************************************************)
(* A dead row leaves its state exactly when an audit fact is committed,    *)
(* whichever operators race for it (RetryJobUseCase.Execute).              *)
(***************************************************************************)
THEOREM RetriesAreAudited == Spec => EveryRetryIsAudited
<1>1. ASSUME PoolInv, [Next]_vars, NEW j \in Jobs
      PROVE  /\ audit'[j] = audit[j] + 1 <=> jobs[j].state = "dead" /\ jobs'[j].state # "dead"
             /\ audit'[j] \in {audit[j], audit[j] + 1}
  <2>1. Kept(j) \/ Granted(j) \/ Relived(j)
    BY <1>1, EveryRowMoves DEF RowMoves
  <2>2. audit[j] # audit[j] + 1
    BY <1>1 DEF PoolInv, PoolTypes
  <2> QED
    BY <2>1, <2>2 DEF Kept, Granted, Relived
<1>2. PoolInv /\ [Next]_vars =>
        \A j \in Jobs :
          /\ audit'[j] = audit[j] + 1 <=> jobs[j].state = "dead" /\ jobs'[j].state # "dead"
          /\ audit'[j] \in {audit[j], audit[j] + 1}
  BY <1>1
<1> QED
  BY <1>2, PoolAlways, PTL DEF Spec, EveryRetryIsAudited

(***************************************************************************)
(* A succeeded row was earned by its last lease, or by a goroutine of the  *)
(* same name in another process, however the goroutines are named.         *)
(***************************************************************************)
THEOREM SuccessIsAlwaysEarned == Spec => []SuccessIsEarned
<1>1. Init => SuccessIsEarned
  BY DEF Init, QueueInit, NoRow, SuccessIsEarned
<1>2. ASSUME PoolInv, SuccessIsEarned, [Next]_vars PROVE SuccessIsEarned'
  <2> SUFFICES ASSUME NEW j \in Jobs, jobs'[j].state = "succeeded"
               PROVE  \E run \in okRuns'[j] : Earns(run, j)'
    BY DEF SuccessIsEarned, Earns
  <2>1. Earned(j) /\ okRuns[j] \subseteq okRuns'[j]
    BY <1>2, EveryRowMoves, OkRunsGrow DEF RowMoves, PoolInv
  <2>2. CASE jobs[j].state = "succeeded" /\ grant'[j] = grant[j] /\ holder'[j] = holder[j]
    <3>1. PICK run \in okRuns[j] : Earns(run, j)
      BY <1>2, <2>2 DEF SuccessIsEarned, Earns
    <3> QED
      BY <2>1, <2>2, <3>1 DEF Earns
  <2>3. CASE \E run \in okRuns'[j] : Earns(run, j)'
    BY <2>3
  <2> QED
    BY <2>1, <2>2, <2>3 DEF Earned
<1>3. PoolInv /\ SuccessIsEarned /\ [Next]_vars => SuccessIsEarned'
  BY <1>2
<1> QED
  BY <1>1, <1>3, PoolAlways, PTL DEF Spec

-----------------------------------------------------------------------------
(***************************************************************************)
(* Until the pool is late no claim sees the clock move, and a worker in    *)
(* flight still has the newest lease of its row, unlapsed: the handler's   *)
(* deadline is shorter than the lease (WorkerConfig.Validate).  Names play *)
(* no part, because no report of such a pool is stale.                     *)
(***************************************************************************)
HoldsInTime(w) ==
  /\ jobs[workers[w].job].state = "leased" /\ holder[workers[w].job] = w
  /\ jobs[workers[w].job].leasedUntil = workers[w].at + LeaseDuration
  /\ workers[w].at \in Nat
  /\ now <= workers[w].at + HandlerTimeout

OnTimeInv ==
  \A w \in Workers :
    /\ Claiming(w) => workers[w].at = now
    /\ InFlight(w) => HoldsInTime(w)

LEMMA InTimeIsUnlapsed ==
  ASSUME PoolInv, OnTimeInv, NEW w \in Workers, InFlight(w)
  PROVE  /\ jobs[workers[w].job].state = "leased" /\ holder[workers[w].job] = w
         /\ ~LeaseLapsed(workers[w].job, now)
<1>1. HoldsInTime(w)
  BY DEF OnTimeInv
<1>2. now \in Nat /\ LeaseDuration \in Nat /\ HandlerTimeout \in Nat /\ HandlerTimeout < LeaseDuration
  BY QueueAssumption, WorkerAssumption DEF PoolInv, PoolTypes, QueueTypeOK
<1> QED
  BY <1>1, <1>2 DEF HoldsInTime, LeaseLapsed

LEMMA OneRunner ==
  ASSUME PoolInv, OnTimeInv, NEW v \in Workers, NEW w \in Workers, v # w, InFlight(v), InFlight(w)
  PROVE  workers[v].job # workers[w].job
  BY InTimeIsUnlapsed

\* Workers only leave their stage, the clock stands, and no row in flight moves.
LEMMA StaysOnTime ==
  ASSUME PoolInv, OnTimeInv, now' = now, holder' = holder,
         \A w \in Workers : workers'[w] = workers[w] \/ Quiet(w)',
         \A w \in Workers : InFlight(w) /\ InFlight(w)' =>
           jobs'[workers[w].job] = jobs[workers[w].job]
  PROVE  OnTimeInv'
<1> SUFFICES ASSUME NEW w \in Workers
             PROVE  /\ Claiming(w)' => workers'[w].at = now'
                    /\ InFlight(w)' => HoldsInTime(w)'
  BY DEF OnTimeInv
<1>1. CASE Quiet(w)'
  BY <1>1 DEF Quiet, Busy
<1>2. CASE workers'[w] = workers[w]
  <2>1. Claiming(w)' => workers'[w].at = now'
    BY <1>2 DEF Claiming, OnTimeInv
  <2>2. ASSUME InFlight(w)' PROVE HoldsInTime(w)'
    <3>1. InFlight(w) /\ HoldsInTime(w)
      BY <1>2, <2>2 DEF InFlight, OnTimeInv
    <3>2. jobs'[workers[w].job] = jobs[workers[w].job]
      BY <2>2, <3>1
    <3> QED
      BY <1>2, <3>1, <3>2 DEF HoldsInTime
  <2> QED
    BY <2>1, <2>2
<1> QED
  BY <1>1, <1>2

LEMMA RowWritten ==
  ASSUME PoolInv, NEW k \in Jobs, NEW row, jobs' = [jobs EXCEPT ![k] = row]
  PROVE  jobs'[k] = row /\ \A j \in Jobs \ {k} : jobs'[j] = jobs[j]
  BY DEF PoolInv, PoolTypes, QueueTypeOK

\* A claim that commits: nobody was in flight on its row.
LEMMA GrantOnTime ==
  ASSUME PoolInv, OnTimeInv, NEW w \in Workers, Claiming(w), now' = now,
         Grant(workers[w].job, w),
         \A v \in Workers \ {w} : workers'[v] = workers[v],
         Quiet(w)' \/ (workers'[w].pc = "running" /\ workers'[w].job = workers[w].job
                         /\ workers'[w].at = workers[w].at)
  PROVE  OnTimeInv'
<1> DEFINE k == workers[w].job
<1>0. k \in Jobs /\ workers[w].at = now /\ now \in Nat /\ HandlerTimeout \in Nat
  BY WorkerAssumption DEF OnTimeInv, PoolInv, JobInv, Busy, PoolTypes, QueueTypeOK
<1>1. /\ jobs'[k] = Leased(jobs[k], Owner[w], now) /\ holder'[k] = w
      /\ \A j \in Jobs \ {k} : jobs'[j] = jobs[j] /\ holder'[j] = holder[j]
  <2>1. jobs' = [jobs EXCEPT ![k] = Leased(jobs[k], Owner[w], now)]
    BY <1>0 DEF Grant, LeaseRow
  <2>2. holder' = [holder EXCEPT ![k] = w] /\ holder \in [Jobs -> Workers \cup {NoWorker}]
    BY DEF Grant, PoolInv, PoolTypes
  <2>3. jobs'[k] = Leased(jobs[k], Owner[w], now) /\ \A j \in Jobs \ {k} : jobs'[j] = jobs[j]
    BY <1>0, <2>1, RowWritten
  <2> QED
    BY <1>0, <2>2, <2>3
<1>2. jobs'[k].state = "leased" /\ jobs'[k].leasedUntil = now + LeaseDuration
  BY <1>1 DEF Leased
<1>3. Claimable(k, now)
  BY <1>0 DEF PoolInv, LockInv
<1>4. ASSUME NEW v \in Workers \ {w}
      PROVE  /\ Claiming(v)' => workers'[v].at = now'
             /\ InFlight(v)' => HoldsInTime(v)'
  <2>1. workers'[v] = workers[v]
    BY <1>4
  <2>2. Claiming(v)' => workers'[v].at = now'
    BY <1>4, <2>1 DEF Claiming, OnTimeInv
  <2>3. ASSUME InFlight(v)' PROVE HoldsInTime(v)'
    <3>1. InFlight(v) /\ HoldsInTime(v) /\ workers[v].job \in Jobs
      BY <1>4, <2>1, <2>3 DEF InFlight, OnTimeInv, PoolInv, JobInv, Busy
    <3>2. workers[v].job # k
      BY <1>3, <1>4, <3>1, InTimeIsUnlapsed DEF Claimable, IsDue
    <3> QED
      BY <1>1, <2>1, <3>1, <3>2 DEF HoldsInTime
  <2> QED
    BY <2>2, <2>3
<1>5. /\ Claiming(w)' => workers'[w].at = now'
      /\ InFlight(w)' => HoldsInTime(w)'
  <2>1. CASE Quiet(w)'
    BY <2>1 DEF Quiet, Busy
  <2>2. CASE workers'[w].pc = "running" /\ workers'[w].job = k /\ workers'[w].at = now
    <3>1. HoldsInTime(w)'
      BY <1>0, <1>1, <1>2, <2>2 DEF HoldsInTime
    <3> QED
      BY <2>2, <3>1 DEF Claiming
  <2> QED
    BY <1>0, <2>1, <2>2
<1> QED
  BY <1>4, <1>5 DEF OnTimeInv

\* Statements on a row nobody is in flight on.
LEMMA ElsewhereOnTime ==
  ASSUME PoolInv, OnTimeInv, now' = now, holder' = holder, NEW k \in Jobs, NEW row, jobs' = [jobs EXCEPT ![k] = row],
         \A w \in Workers : workers'[w] = workers[w] \/ Quiet(w)',
         \A w \in Workers : InFlight(w) /\ InFlight(w)' => workers[w].job # k
  PROVE  OnTimeInv'
<1>1. \A j \in Jobs \ {k} : jobs'[j] = jobs[j]
  BY RowWritten
<1>2. \A w \in Workers : InFlight(w) /\ InFlight(w)' => jobs'[workers[w].job] = jobs[workers[w].job]
  BY <1>1 DEF PoolInv, JobInv, Busy
<1> QED
  BY <1>2, StaysOnTime

LEMMA RecordOnTime ==
  ASSUME PoolInv, OnTimeInv, NEW w \in Workers, Record(w)
  PROVE  OnTimeInv'
<1> DEFINE k == workers[w].job
<1>0. /\ now' = now /\ holder' = holder /\ InFlight(w) /\ k \in Jobs
      /\ \A v \in Workers : workers'[v] = workers[v] \/ Quiet(v)'
  BY Quieting DEF Record, history, InFlight, PoolInv, JobInv, Busy
<1>1. \A v \in Workers : InFlight(v) /\ InFlight(v)' => workers[v].job # k
  <2>1. ~InFlight(w)'
    <3>1. workers'[w] = At("idle")
      BY BecomesOne DEF Record, PoolInv
    <3>2. workers'[w].pc = "idle"
      BY <3>1, AtStage
    <3> QED
      BY <3>2 DEF InFlight
  <2> QED
    BY <1>0, <2>1, OneRunner
<1>2. CASE jobs' = jobs
  BY <1>0, <1>2, StaysOnTime
<1>3. CASE jobs' # jobs
  <2>1. Outcome(w)
    BY <1>3 DEF Record
  <2>2. CASE workers[w].ok
    <3>1. jobs' = [jobs EXCEPT ![k] = Unleased(jobs[k], "succeeded")]
      BY <2>1, <2>2 DEF Outcome, CompleteRow
    <3> QED
      BY <1>0, <1>1, <3>1, ElsewhereOnTime
  <2>3. CASE ~workers[w].ok
    <3>1. PICK retryAt \in RetryInstants(w) : jobs' = [jobs EXCEPT ![k] = Failed(k, retryAt)]
      BY <2>1, <2>3 DEF Outcome, FailRow
    <3> QED
      BY <1>0, <1>1, <3>1, ElsewhereOnTime
  <2> QED
    BY <2>2, <2>3
<1> QED
  BY <1>2, <1>3

LEMMA PassOnTime ==
  ASSUME PoolInv, OnTimeInv, Pass, ~late'
  PROVE  OnTimeInv'
<1>1. jobs' = jobs /\ workers' = workers /\ holder' = holder /\ now' = now + 1 /\ now \in Nat
  BY DEF Pass, Tick, PoolInv, PoolTypes, QueueTypeOK
<1>2. ASSUME NEW w \in Workers
      PROVE  /\ Claiming(w)' => workers'[w].at = now'
             /\ InFlight(w)' => HoldsInTime(w)'
  <2>1. OnTime(w)
    BY DEF Pass
  <2>2. ~Claiming(w)' /\ (InFlight(w)' => workers[w].pc = "running")
    BY <1>1, <2>1 DEF OnTime, Claiming, InFlight
  <2>3. ASSUME workers[w].pc = "running" PROVE HoldsInTime(w)'
    <3>1. HoldsInTime(w) /\ now < workers[w].at + HandlerTimeout
      BY <2>1, <2>3 DEF OnTime, OnTimeInv, InFlight
    <3>2. HandlerTimeout \in Nat
      BY WorkerAssumption
    <3> QED
      BY <1>1, <3>1, <3>2 DEF HoldsInTime
  <2> QED
    BY <2>2, <2>3
<1> QED
  BY <1>2 DEF OnTimeInv

LEMMA OnTimeStep ==
  ASSUME PoolInv, OnTimeInv, ~late', [Next]_vars
  PROVE  OnTimeInv'
<1> DEFINE QuietWorkers == \A w \in Workers : workers'[w] = workers[w] \/ Quiet(w)'
<1>0. PoolTypes
  BY DEF PoolInv
<1>1. \A w \in Workers : InFlight(w) => jobs[workers[w].job].state = "leased"
                                      /\ ~LeaseLapsed(workers[w].job, now)
                                      /\ workers[w].job \in Jobs
  BY InTimeIsUnlapsed DEF PoolInv, JobInv, Busy
<1>2. ASSUME NEW j \in Jobs, Produce(j) PROVE OnTimeInv'
  <2>1. PICK at \in now .. MaxTime : jobs[j].state = "absent" /\ jobs' = [jobs EXCEPT ![j] = Enqueued(at)]
    BY <1>2 DEF Produce, EnqueueRow
  <2>2. now' = now /\ holder' = holder /\ QuietWorkers
    BY <1>2 DEF Produce, history
  <2> QED
    BY <1>1, <2>1, <2>2, ElsewhereOnTime
<1>3. ASSUME NEW w \in Workers, LockClaim(w) PROVE OnTimeInv'
  <2>1. PICK j \in Jobs : Becomes(w, Local("claiming", j, now, 0, 0, FALSE))
    BY <1>3 DEF LockClaim
  <2>2. /\ workers'[w] = Local("claiming", j, now, 0, 0, FALSE)
        /\ \A v \in Workers \ {w} : workers'[v] = workers[v]
    BY <1>0, <2>1, BecomesOne
  <2>3. workers'[w].pc = "claiming" /\ workers'[w].at = now
    BY <2>2 DEF Local
  <2>4. jobs' = jobs /\ now' = now /\ holder' = holder
    BY <1>3 DEF LockClaim, queueVars, history
  <2>5. ASSUME NEW v \in Workers
        PROVE  /\ Claiming(v)' => workers'[v].at = now'
               /\ InFlight(v)' => HoldsInTime(v)'
    <3>1. CASE v = w
      BY <2>3, <2>4, <3>1 DEF InFlight
    <3>2. CASE v # w
      BY <2>2, <2>4, <3>2 DEF OnTimeInv, Claiming, InFlight, HoldsInTime
    <3> QED
      BY <3>1, <3>2
  <2> QED
    BY <2>5 DEF OnTimeInv
<1>4. ASSUME NEW w \in Workers, CommitClaim(w) PROVE OnTimeInv'
  <2> DEFINE j == workers[w].job
  <2>1. /\ workers'[w] = Local("running", j, workers[w].at, grant[j] + 1, jobs[j].attempts + 1, FALSE)
        /\ \A v \in Workers \ {w} : workers'[v] = workers[v]
    BY <1>0, <1>4, BecomesOne DEF CommitClaim
  <2>2. workers'[w].pc = "running" /\ workers'[w].job = j /\ workers'[w].at = workers[w].at
    BY <2>1 DEF Local
  <2>3. Claiming(w) /\ Grant(j, w) /\ now' = now
    BY <1>4 DEF CommitClaim, Claiming
  <2> QED
    BY <2>1, <2>2, <2>3, GrantOnTime
<1>5. ASSUME NEW w \in Workers, LoseClaim(w) PROVE OnTimeInv'
  <2>1. QuietWorkers
    BY <1>0, <1>5, Quieting DEF LoseClaim
  <2>2. /\ Claiming(w) /\ now' = now
        /\ \A v \in Workers \ {w} : workers'[v] = workers[v]
        /\ workers'[w] = At("idle")
    BY <1>0, <1>5, BecomesOne DEF LoseClaim, Claiming
  <2>3. Quiet(w)'
    BY <2>2, AtStage DEF Quiet, Busy, Claiming, InFlight
  <2>4. CASE Grant(workers[w].job, w)
    BY <2>2, <2>3, <2>4, GrantOnTime
  <2>5. CASE jobs' = jobs /\ holder' = holder
    BY <2>1, <2>2, <2>5, StaysOnTime
  <2> QED
    BY <1>5, <2>4, <2>5 DEF LoseClaim
<1>6. ASSUME NEW w \in Workers, Reclaim(w) PROVE OnTimeInv'
  <2>1. QuietWorkers /\ now' = now /\ holder' = holder
    BY <1>0, <1>6, Quieting DEF Reclaim, history
  <2>2. \A v \in Workers : InFlight(v) => jobs'[workers[v].job] = jobs[workers[v].job]
    BY <1>1, <1>6 DEF Reclaim, ReleaseLapsedRows
  <2> QED
    BY <2>1, <2>2, StaysOnTime
<1>7. ASSUME NEW w \in Workers, RefuseClaim(w) \/ FindNothing(w) \/ StopLoop(w)
                               \/ LoseReclaim(w) \/ LoseRecord(w) PROVE OnTimeInv'
  <2>1. \E pc \in {"idle", "reclaiming", "stopped"} : Becomes(w, At(pc))
    BY <1>7 DEF RefuseClaim, FindNothing, StopLoop, LoseReclaim, LoseRecord
  <2>2. QuietWorkers
    BY <1>0, <2>1, Quieting
  <2>3. jobs' = jobs /\ now' = now /\ holder' = holder
    BY <1>7 DEF RefuseClaim, FindNothing, StopLoop, LoseReclaim, LoseRecord, queueVars, history
  <2> QED
    BY <2>2, <2>3, StaysOnTime
<1>8. ASSUME NEW w \in Workers, NEW ok \in BOOLEAN, HandlerEnds(w, ok) PROVE OnTimeInv'
  <2>1. jobs' = jobs /\ now' = now /\ holder' = holder /\ workers[w].pc = "running"
    BY <1>8 DEF HandlerEnds, queueVars
  <2>2. CASE Stopping(w)
    <3>1. QuietWorkers
      BY <1>0, <1>8, <2>2, Quieting DEF HandlerEnds
    <3> QED
      BY <2>1, <3>1, StaysOnTime
  <2>3. CASE ~Stopping(w)
    <3>1. /\ workers'[w] = Local("reporting", workers[w].job, workers[w].at, workers[w].grant,
                                 workers[w].tries, ok)
          /\ \A v \in Workers \ {w} : workers'[v] = workers[v]
      BY <1>0, <1>8, <2>3, BecomesOne DEF HandlerEnds
    <3>2. workers'[w].pc = "reporting" /\ workers'[w].job = workers[w].job /\ workers'[w].at = workers[w].at
      BY <3>1 DEF Local
    <3>3. HoldsInTime(w) /\ HoldsInTime(w)'
      BY <2>1, <3>2 DEF OnTimeInv, InFlight, HoldsInTime
    <3>4. ASSUME NEW v \in Workers
          PROVE  /\ Claiming(v)' => workers'[v].at = now'
                 /\ InFlight(v)' => HoldsInTime(v)'
      <4>1. CASE v = w
        BY <3>2, <3>3, <4>1 DEF Claiming
      <4>2. CASE v # w
        BY <2>1, <3>1, <4>2 DEF OnTimeInv, Claiming, InFlight, HoldsInTime
      <4> QED
        BY <4>1, <4>2
    <3> QED
      BY <3>4 DEF OnTimeInv
  <2> QED
    BY <2>2, <2>3
<1>9. ASSUME NEW p \in Processes, Signal(p) \/ Crash(p) \/ Restart(p) PROVE OnTimeInv'
  <2>1. At("down").pc = "down" /\ At("idle").pc = "idle"
    BY AtStage
  <2>2. QuietWorkers
    BY <1>0, <1>9, <2>1 DEF Signal, Crash, Restart, Quiet, Busy, Claiming, InFlight, PoolTypes
  <2>3. jobs' = jobs /\ now' = now /\ holder' = holder
    BY <1>9 DEF Signal, Crash, Restart, queueVars, history
  <2> QED
    BY <2>2, <2>3, StaysOnTime
<1>10. ASSUME NEW op \in Operators, LookUpDead(op) \/ CommitRetry(op) PROVE OnTimeInv'
  <2>1. now' = now /\ holder' = holder /\ QuietWorkers
    BY <1>10 DEF LookUpDead, CommitRetry, queueVars, history
  <2>2. CASE jobs' = jobs
    BY <2>1, <2>2, StaysOnTime
  <2>3. CASE jobs' # jobs
    <3>1. /\ lookups[op].job \in Jobs /\ jobs[lookups[op].job].state = "dead"
          /\ jobs' = [jobs EXCEPT ![lookups[op].job] = Revived(jobs[lookups[op].job], lookups[op].at)]
      BY <1>0, <1>10, <2>3 DEF LookUpDead, CommitRetry, RetryDeadRow, queueVars, PoolTypes
    <3> QED
      BY <1>1, <2>1, <3>1, ElsewhereOnTime
  <2> QED
    BY <2>2, <2>3
<1>11. CASE Pass
  BY <1>11, PassOnTime
<1>12. CASE UNCHANGED vars
  BY <1>12, StaysOnTime DEF vars
<1> QED
  BY <1>2, <1>3, <1>4, <1>5, <1>6, <1>7, <1>8, <1>9, <1>10, <1>11, <1>12, RecordOnTime
  DEF Next, WorkerStep

(***************************************************************************)
(* Lateness is for ever.                                                   *)
(***************************************************************************)
LEMMA LateStaysLate ==
  ASSUME [Next]_vars, late
  PROVE  late'
<1>1. ASSUME NEW w \in Workers,
             WorkerStep(w) \/ LoseClaim(w) \/ LoseReclaim(w) \/ LoseRecord(w)
      PROVE  late' = late
  BY <1>1 DEF WorkerStep, LockClaim, CommitClaim, RefuseClaim, FindNothing, Reclaim, StopLoop,
              HandlerEnds, Record, LoseClaim, LoseReclaim, LoseRecord, history, poolVars
<1>2. ASSUME NEW p \in Processes, Signal(p) \/ Crash(p) \/ Restart(p) PROVE late' = late
  BY <1>2 DEF Signal, Crash, Restart, history
<1>3. ASSUME NEW op \in Operators, LookUpDead(op) \/ CommitRetry(op) PROVE late' = late
  BY <1>3 DEF LookUpDead, CommitRetry, history
<1>4. ASSUME NEW j \in Jobs, Produce(j) PROVE late' = late
  BY <1>4 DEF Produce, history
<1>5. CASE Pass
  BY <1>5 DEF Pass
<1>6. CASE UNCHANGED vars
  BY <1>6 DEF vars
<1> QED
  BY <1>1, <1>2, <1>3, <1>4, <1>5, <1>6 DEF Next

(***************************************************************************)
(* Two workers never run the same job as long as handlers end by their     *)
(* deadline and statements are answered, whatever the goroutines are named *)
(* and whichever processes crash.                                          *)
(***************************************************************************)
PunctualInv == ~late => OnTimeInv

THEOREM OneRunnerPerJob == Spec => []NeverTwoRunners
<1>1. Init => PunctualInv
  <2> SUFFICES ASSUME Init, NEW w \in Workers PROVE workers[w].pc = "idle"
    BY DEF PunctualInv, OnTimeInv, Claiming, InFlight
  <2>1. workers[w] = At("idle")
    BY DEF Init
  <2> QED
    BY <2>1, AtStage
<1>2. PoolInv /\ PunctualInv /\ [Next]_vars => PunctualInv'
  BY OnTimeStep, LateStaysLate DEF PunctualInv
<1>3. PoolInv /\ PunctualInv => NeverTwoRunners
  BY OneRunner DEF PunctualInv, NeverTwoRunners
<1> QED
  BY <1>1, <1>2, <1>3, PoolAlways, PTL DEF Spec
=============================================================================
