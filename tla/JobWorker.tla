------------------------------ MODULE JobWorker ------------------------------
(***************************************************************************)
(* The worker pool of jobs/application/worker.go over the queue table, with *)
(* the operator's retry of a dead job (jobs/application/operations.go).    *)
(*                                                                         *)
(* A worker is one goroutine of Worker.Run: it claims a row, runs the      *)
(* handler without a transaction, and records the outcome with another     *)
(* statement, so other workers, the clock, a crash, a lost answer or a     *)
(* shutdown signal may come between any two of its steps.  The claim is    *)
(* two steps, the row lock and the commit, because SKIP LOCKED makes the   *)
(* lock visible to other claims.                                           *)
(*                                                                         *)
(* grant, holder, okRuns, audit and late are history: the number of leases *)
(* granted per row, the goroutine the newest one was granted to, the runs  *)
(* whose handler returned without an error, the audit facts committed per  *)
(* row, and whether a handler or a statement has overrun its time so far.  *)
(***************************************************************************)
EXTENDS JobQueue

CONSTANTS
  Workers,            \* goroutines of every worker process
  Processes,          \* operating-system processes
  Process,            \* the process of each worker
  Owner,              \* the owner name each worker claims with: worker-<index>
  NoWorker,           \* no lease was granted yet
  HandlerTimeout,     \* WorkerConfig.HandlerTimeout
  Handled,            \* rows whose type and version have a handler
  Retryable,          \* rows whose type is in RetryAllowedTypes
  Operators,          \* concurrent operator requests
  MaxFaults,          \* bound: crashes, lost database answers and signals
  MaxRetries          \* bound: committed operator retries

NoJob == 0

ASSUME WorkerAssumption ==
  /\ Process \in [Workers -> Processes]
  /\ NoWorker \notin Workers
  /\ Owner \in [Workers -> Owners]
  /\ \A v, w \in Workers :               \* Worker.Run numbers its own goroutines
       Process[v] = Process[w] /\ Owner[v] = Owner[w] => v = w
  /\ HandlerTimeout \in Nat \ {0}
  /\ HandlerTimeout < LeaseDuration       \* WorkerConfig.Validate
  /\ Handled \subseteq Jobs /\ Retryable \subseteq Jobs
  /\ MaxFaults \in Nat /\ MaxRetries \in Nat

VARIABLES
  workers,            \* the local state of each worker
  stopping,           \* processes whose context a signal cancelled
  lookups,            \* the row each operator request read as dead
  faults,             \* crashes, lost answers and signals so far
  grant, holder, okRuns, audit, late

vars == <<jobs, now, workers, stopping, lookups, faults, grant, holder, okRuns, audit, late>>

Stages == {"idle", "claiming", "reclaiming", "running", "reporting", "stopped", "down"}

\* tries is the attempt count of the row as the claim returned it.
Worker == [pc : Stages, job : Jobs \cup {NoJob}, at : Nat, grant : Nat,
           tries : Nat, ok : BOOLEAN]

Local(pc, j, at, g, tries, ok) ==
  [pc |-> pc, job |-> j, at |-> at, grant |-> g, tries |-> tries, ok |-> ok]

At(pc) == Local(pc, NoJob, 0, 0, 0, FALSE)

\* A run of a handler: the lease it ran under and the goroutine that ran it.
Run(g, w) == [grant |-> g, worker |-> w]

NoLookup == [job |-> NoJob, at |-> 0]

Init ==
  /\ QueueInit
  /\ workers = [w \in Workers |-> At("idle")]
  /\ stopping = {}
  /\ lookups = [op \in Operators |-> NoLookup]
  /\ faults = 0
  /\ grant = [j \in Jobs |-> 0]
  /\ holder = [j \in Jobs |-> NoWorker]
  /\ okRuns = [j \in Jobs |-> {}]
  /\ audit = [j \in Jobs |-> 0]
  /\ late = FALSE

poolVars == <<stopping, lookups, faults, audit, late>>
history == <<grant, holder, okRuns, audit, late>>
-----------------------------------------------------------------------------
\* The rows locked by a claim that has not committed yet.
Locked == {workers[w].job : w \in {v \in Workers : workers[v].pc = "claiming"}}

Stopping(w) == Process[w] \in stopping

Becomes(w, record) == workers' = [workers EXCEPT ![w] = record]

\* A lost answer: a fault of the connection, or a context the signal cancelled.
DatabaseFails(w) ==
  IF Stopping(w) THEN UNCHANGED faults
                 ELSE faults < MaxFaults /\ faults' = faults + 1
-----------------------------------------------------------------------------
(***************************************************************************)
(* Producers.                                                              *)
(***************************************************************************)
Produce(j) ==
  /\ \E at \in now .. MaxTime : EnqueueRow(j, at)
  /\ UNCHANGED <<now, workers, stopping, lookups, faults, history>>
-----------------------------------------------------------------------------
(***************************************************************************)
(* Worker.loop: one claim per turn, unless the context is cancelled.       *)
(***************************************************************************)
LockClaim(w) ==
  /\ workers[w].pc = "idle" /\ ~Stopping(w)
  /\ \E j \in Jobs :
       /\ IsNextClaim(j, now, Locked)
       /\ Becomes(w, Local("claiming", j, now, 0, 0, FALSE))
  /\ UNCHANGED <<queueVars, stopping, lookups, faults, history>>

Grant(j, w) ==
  /\ LeaseRow(j, Owner[w], workers[w].at)
  /\ grant' = [grant EXCEPT ![j] = @ + 1]
  /\ holder' = [holder EXCEPT ![j] = w]

CommitClaim(w) ==
  LET j == workers[w].job IN
  /\ workers[w].pc = "claiming"
  /\ Grant(j, w)
  /\ Becomes(w, Local("running", j, workers[w].at, grant[j] + 1, jobs[j].attempts + 1, FALSE))
  /\ UNCHANGED <<now, okRuns, poolVars>>

\* jobs_attempts_check refuses the claim: the loop logs, sleeps and goes on.
RefuseClaim(w) ==
  /\ workers[w].pc = "claiming"
  /\ ~WithinAttemptBudget(workers[w].job)
  /\ Becomes(w, At("idle"))
  /\ UNCHANGED <<queueVars, stopping, lookups, faults, history>>

\* The answer of the claim is lost, before or after it committed.
LoseClaim(w) ==
  LET j == workers[w].job IN
  /\ workers[w].pc = "claiming"
  /\ Grant(j, w) \/ UNCHANGED <<jobs, grant, holder>>
  /\ DatabaseFails(w)
  /\ Becomes(w, At("idle"))
  /\ UNCHANGED <<now, okRuns, stopping, lookups, audit, late>>

\* Nothing to claim: the idle worker sweeps the leases that lapsed ...
FindNothing(w) ==
  /\ workers[w].pc = "idle" /\ ~Stopping(w)
  /\ NothingToClaim(now, Locked)
  /\ Becomes(w, At("reclaiming"))
  /\ UNCHANGED <<queueVars, stopping, lookups, faults, history>>

\* ... waiting for the claims that hold one of them locked.
Reclaim(w) ==
  /\ workers[w].pc = "reclaiming"
  /\ \A j \in Locked : ~LeaseLapsed(j, now)
  /\ ReleaseLapsedRows(now)
  /\ Becomes(w, At("idle"))
  /\ UNCHANGED <<now, stopping, lookups, faults, history>>

LoseReclaim(w) ==
  /\ workers[w].pc = "reclaiming"
  /\ DatabaseFails(w)
  /\ Becomes(w, At("idle"))
  /\ UNCHANGED <<queueVars, stopping, lookups, history>>

StopLoop(w) ==
  /\ workers[w].pc = "idle" /\ Stopping(w)
  /\ Becomes(w, At("stopped"))
  /\ UNCHANGED <<queueVars, stopping, lookups, faults, history>>
-----------------------------------------------------------------------------
(***************************************************************************)
(* Worker.process: the handler runs on a context the signal does not       *)
(* cancel; a row without a handler is a failure at once.  The outcome is   *)
(* recorded with the loop's own context: once that is cancelled the call   *)
(* is refused before it reaches the database, and the loop ends.           *)
(***************************************************************************)
HandlerEnds(w, ok) ==
  LET j == workers[w].job IN
  /\ workers[w].pc = "running"
  /\ ok => j \in Handled
  /\ okRuns' = IF ok THEN [okRuns EXCEPT ![j] = @ \cup {Run(workers[w].grant, w)}] ELSE okRuns
  /\ Becomes(w, IF Stopping(w) THEN At("idle")
                ELSE Local("reporting", j, workers[w].at, workers[w].grant, workers[w].tries, ok))
  /\ UNCHANGED <<queueVars, grant, holder, poolVars>>

\* recordFailure: a delay only while the budget lasts, cut at the last tick.
RetryInstants(w) ==
  IF workers[w].tries < MaxAttempts[workers[w].job]
    THEN {IF now + d < MaxTime THEN now + d ELSE MaxTime :
            d \in Delays(BaseDelay, MaxDelay, workers[w].tries)}
    ELSE {now}

Mutant_Outcome(w) ==
  LET j == workers[w].job IN
  IF workers[w].ok \/ workers[w].tries = MaxAttempts[j]
    THEN CompleteRow(j, Owner[w])
    ELSE \E retryAt \in RetryInstants(w) : FailRow(j, Owner[w], retryAt)

Outcome(w) ==
  LET j == workers[w].job IN
  IF workers[w].ok
    THEN CompleteRow(j, Owner[w])
    ELSE \E retryAt \in RetryInstants(w) : FailRow(j, Owner[w], retryAt)

\* A worker that no longer holds the lease matches no row: ErrLeaseNotHeld.
Record(w) ==
  LET j == workers[w].job IN
  /\ workers[w].pc = "reporting"
  /\ j \notin Locked
  /\ IF Holds(j, Owner[w]) THEN Outcome(w) ELSE UNCHANGED jobs
  /\ Becomes(w, At("idle"))
  /\ UNCHANGED <<now, history, stopping, lookups, faults>>

LoseRecord(w) ==
  /\ workers[w].pc = "reporting"
  /\ DatabaseFails(w)
  /\ Becomes(w, At("idle"))
  /\ UNCHANGED <<queueVars, stopping, lookups, history>>
-----------------------------------------------------------------------------
(***************************************************************************)
(* Processes: SIGTERM, death without a signal, and the restart policy.     *)
(***************************************************************************)
Signal(p) ==
  /\ p \notin stopping /\ faults < MaxFaults
  /\ faults' = faults + 1
  /\ stopping' = stopping \cup {p}
  /\ UNCHANGED <<queueVars, workers, lookups, history>>

Crash(p) ==
  /\ faults < MaxFaults
  /\ faults' = faults + 1
  /\ \E w \in Workers : Process[w] = p /\ workers[w].pc # "down"
  /\ workers' = [w \in Workers |-> IF Process[w] = p THEN At("down") ELSE workers[w]]
  /\ UNCHANGED <<queueVars, stopping, lookups, history>>

Restart(p) ==
  /\ \A w \in Workers : Process[w] = p => workers[w].pc \in {"down", "stopped"}
  /\ workers' = [w \in Workers |-> IF Process[w] = p THEN At("idle") ELSE workers[w]]
  /\ stopping' = stopping \ {p}
  /\ UNCHANGED <<queueVars, lookups, faults, history>>
-----------------------------------------------------------------------------
(***************************************************************************)
(* RetryJobUseCase: the row is read outside the transaction that requeues  *)
(* it and records the audit fact.                                          *)
(***************************************************************************)
LookUpDead(op) ==
  /\ lookups[op] = NoLookup
  /\ \E j \in Retryable :
       /\ jobs[j].state = "dead" /\ audit[j] < MaxRetries
       /\ lookups' = [lookups EXCEPT ![op] = [job |-> j, at |-> now]]
  /\ UNCHANGED <<queueVars, workers, stopping, faults, history>>

\* A row that moved since the read matches nothing, and no fact is recorded.
CommitRetry(op) ==
  LET j == lookups[op].job IN
  /\ j # NoJob
  /\ IF jobs[j].state = "dead"
       THEN RetryDeadRow(j, lookups[op].at) /\ audit' = [audit EXCEPT ![j] = @ + 1]
       ELSE UNCHANGED <<jobs, audit>>
  /\ lookups' = [lookups EXCEPT ![op] = NoLookup]
  /\ UNCHANGED <<now, workers, stopping, faults, grant, holder, okRuns, late>>
-----------------------------------------------------------------------------
(***************************************************************************)
(* The clock.  Where it passes a statement in flight, or a handler that    *)
(* has reached its deadline, the pool is late from then on.                *)
(***************************************************************************)
OnTime(w) ==
  CASE workers[w].pc \in {"claiming", "reporting"} -> FALSE
    [] workers[w].pc = "running" -> now < workers[w].at + HandlerTimeout
    [] OTHER -> TRUE

Pass ==
  /\ Tick
  /\ late' = (late \/ \E w \in Workers : ~OnTime(w))
  /\ UNCHANGED <<workers, stopping, lookups, faults, grant, holder, okRuns, audit>>

WorkerStep(w) ==
  \/ LockClaim(w) \/ CommitClaim(w) \/ RefuseClaim(w)
  \/ FindNothing(w) \/ Reclaim(w) \/ StopLoop(w)
  \/ \E ok \in BOOLEAN : HandlerEnds(w, ok)
  \/ Record(w)

Next ==
  \/ \E j \in Jobs : Produce(j)
  \/ \E w \in Workers : WorkerStep(w) \/ LoseClaim(w) \/ LoseReclaim(w) \/ LoseRecord(w)
  \/ \E p \in Processes : Signal(p) \/ Crash(p) \/ Restart(p)
  \/ \E op \in Operators : LookUpDead(op) \/ CommitRetry(op)
  \/ Pass

Spec == Init /\ [][Next]_vars

(***************************************************************************)
(* Goroutines are scheduled, statements answer, handlers end by their      *)
(* deadline and a dead container is restarted.  A statement that waits for *)
(* a row lock is next in line for it, so Record and Reclaim are strongly   *)
(* fair; and so is the clock, which a pool of idle workers that poll once  *)
(* per PollInterval cannot hold back.  Nothing is assumed of producers,    *)
(* operators, signals or faults.                                           *)
(***************************************************************************)
Fairness ==
  /\ \A w \in Workers : /\ WF_vars(WorkerStep(w))
                        /\ SF_vars(Record(w)) /\ SF_vars(Reclaim(w))
  /\ \A p \in Processes : WF_vars(Restart(p))
  /\ SF_vars(Pass)

FairSpec == Spec /\ Fairness
-----------------------------------------------------------------------------
PoolTypes ==
  /\ QueueTypeOK
  /\ workers \in [Workers -> Worker]
  /\ stopping \subseteq Processes
  /\ lookups \in [Operators -> [job : Jobs \cup {NoJob}, at : Nat]]
  /\ faults \in Nat
  /\ grant \in [Jobs -> Nat]
  /\ holder \in [Jobs -> Workers \cup {NoWorker}]
  /\ okRuns \in [Jobs -> SUBSET [grant : Nat, worker : Workers]]
  /\ audit \in [Jobs -> Nat]
  /\ late \in BOOLEAN

\* Types, and the CHECKs of migration 00029 on every row: state, lease and attempts agree.
TypeOK == PoolTypes /\ QueueCoherent

(***************************************************************************)
(* The lease guard compares owner names, and only a process gives each of  *)
(* its goroutines its own (Worker.Run).  So a report under a lease that    *)
(* was granted again since changes the row only if the newest lease went   *)
(* to another process: within one, a stale holder writes nothing.          *)
(***************************************************************************)
StaleSiblingsRecordNothing ==
  [][\A w \in Workers : \A j \in Jobs :
       Record(w) /\ workers[w].job = j /\ jobs'[j] # jobs[j]
         => workers[w].grant = grant[j] \/ Process[holder[j]] # Process[w]]_vars

(***************************************************************************)
(* A succeeded row was earned: whatever was lost, repeated or late, the    *)
(* handler of its newest lease returned no error, or that of a goroutine   *)
(* of the same name in another process, whose report the guard accepts.    *)
(***************************************************************************)
SuccessIsEarned ==
  \A j \in Jobs : jobs[j].state = "succeeded" =>
    \E run \in okRuns[j] :
      /\ Owner[run.worker] = Owner[holder[j]]
      /\ run.grant = grant[j] \/ Process[run.worker] # Process[holder[j]]

(***************************************************************************)
(* Two workers never run the same job (WorkerConfig.HandlerTimeout), as    *)
(* long as handlers end by their deadline and the database answers.        *)
(***************************************************************************)
InFlight(w) == workers[w].pc \in {"running", "reporting"}

NeverTwoRunners ==
  ~late => \A v, w \in Workers :
    v # w /\ InFlight(v) /\ InFlight(w) => workers[v].job # workers[w].job

(***************************************************************************)
(* However leases lapse and answers get lost, a row is leased at most its  *)
(* budget of times per life, and each further life was an audited retry.   *)
(***************************************************************************)
RunsWithinBudget ==
  \A j \in Jobs : grant[j] <= MaxAttempts[j] * (audit[j] + 1)

(***************************************************************************)
(* The trail and the table agree: a dead row leaves its state exactly when *)
(* an audit fact is committed, also when two operators race for the row.   *)
(***************************************************************************)
EveryRetryIsAudited ==
  [][\A j \in Jobs :
       /\ audit'[j] = audit[j] + 1 <=> jobs[j].state = "dead" /\ jobs'[j].state # "dead"
       /\ audit'[j] \in {audit[j], audit[j] + 1}]_vars

(***************************************************************************)
(* The pool only does to the table what the statements allow.              *)
(***************************************************************************)
UsesTheQueue == QueueSpec

(***************************************************************************)
(* Unless a process dies or is stopped, an answer is lost or a handler     *)
(* overruns, every accepted job reaches an outcome, whatever its handler   *)
(* does and also when it has none.                                         *)
(***************************************************************************)
EveryJobIsSettled ==
  \A j \in Jobs : (jobs[j].state # "absent") ~> (Terminal(j) \/ faults > 0 \/ late)

(***************************************************************************)
(* A lapsed lease with budget left is taken over or swept, unless a row    *)
(* with a spent budget is claimable ahead of it: that one is refused at    *)
(* every claim, and migration 00029 (invariant 4) does not see it.         *)
(***************************************************************************)
SpentAhead(j) ==
  \E i \in Jobs \ {j} : Claimable(i, now) /\ ~WithinAttemptBudget(i) /\ Precedes(i, j)

AbandonedWorkIsRecovered ==
  \A j \in Jobs :
    (LeaseLapsed(j, now) /\ WithinAttemptBudget(j)) ~> (~LeaseLapsed(j, now) \/ SpentAhead(j))
-----------------------------------------------------------------------------
(***************************************************************************)
(* Two claims of the sources that the code does not keep: one job can      *)
(* never stop the pool (worker.go) ...                                     *)
(***************************************************************************)
OneJobNeverStopsThePool ==
  \A j \in Jobs : (IsDue(j, now) /\ WithinAttemptBudget(j)) ~> ~IsDue(j, now)

(***************************************************************************)
(* ... and a stale holder cannot overwrite a newer outcome (queue.go,      *)
(* Complete): a report changes a row only if no lease was granted since    *)
(* the one the worker was given.                                           *)
(***************************************************************************)
OnlyTheHolderRecords ==
  [][\A w \in Workers : \A j \in Jobs :
       Record(w) /\ workers[w].job = j /\ jobs'[j] # jobs[j]
         => workers[w].grant = grant[j]]_vars
=============================================================================
