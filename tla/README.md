# Regnovum: a TLA+ verification development

Regnovum is a modular monolith in Go over PostgreSQL 18 where people debate in
*Arenas*: they take a position, publish arguments that cost INK, change their
position and say which arguments moved them. This directory models the parts of
it where concurrency, failure and retries decide whether the data stays right,
checks them with TLC on small instances, and proves the main safety properties
with TLAPS for every value of the constants. Paths below are relative to the
repository (`src/`).

Six families are complete: the durable **job queue** with its worker pool, the
**INK wallet**, the **publication** of arguments, **moderation** with its appeals,
**positions** with their attributions, and the **Arena Passes** with the provider
events that grant and revoke them. The inventory says what the rest of the system
holds, and the plan in which order it would follow.

## 1. Inventory

The system has one database and any number of stateless processes (`arena server`,
`arena worker`). Modules call each other through ports inside a process and share
state only through tables; a use case runs statements in READ COMMITTED
transactions that it may share with another module by passing the transaction in
the context. So the interleavings that matter are those of *statements*, and what
keeps them apart is row locks, unique keys, conditional UPDATEs and CHECKs.

| Component | State it keeps | Operations | Meets | What is hard | Correct when |
|---|---|---|---|---|---|
| jobs: queue, workers (`internal/jobs`) | `app.jobs`: state, attempts, lease | enqueue, claim, complete, fail, sweep, operator's retry | every producer; audit | two workers on one row, lapsed leases, crashes, lost answers, SIGTERM | outcomes belong to the newest lease; the budget holds; nothing is stuck |
| jobs: scheduler | none of its own | one pass: enqueue each due period | queue, advisory lock | duplicated passes, missed periods | each due period is enqueued once |
| wallet (`internal/wallet`) | accounts with two buckets, operations, ledger lines | credit, debit, adjust, renew the monthly franchise | arguments, billing, audit | double spend, retries, renewals that race, lost commits | balance = sum of lines; a key is posted once; the franchise does not accumulate; waits end |
| arguments (`internal/arguments`) | arguments, parents, sources, withdrawal | publish, withdraw, lists | wallet, accounts, Arenas, moderation | gates read outside the transaction, two modules in one transaction, keys of two scopes | no debit without its argument, no argument without its key posted; the record is history |
| arenas (`internal/arenas`) | draft or public Arena, version, status | draft, publish, close, restrict, remove | Arena Passes, moderation | optimistic versions, the pass consumed in the same transaction | one pass per published Arena |
| billing (`internal/billing`) | pass lots, checkouts, provider events, refunds | grant, consume, checkout, webhook, refund, reconcile | wallet, arenas, the provider | duplicated, reordered and lost deliveries | each payment is settled once, and is settled |
| positions (`internal/positions`) | initial and current position, chain of changes | confirm, change | arenas, persuasion | versions read before the transaction | the projection is the tip of the chain |
| persuasion (`internal/persuasion`) | attributions | attribute, invalidate, restore | positions, arguments, moderation | limits under concurrency, two sources of invalidation | at most N per change; only eligible arguments |
| moderation (`internal/moderation`) | reports, cases with a lease, actions, appeals | file, claim, decide, appeal, reverse | accounts, Arenas, arguments, attributions | leases, sanction and action in one transaction, reversals of states that moved | one decision per case; a reversal restores what its decision took |
| identity (`internal/identity`) | accounts, sessions, tokens, MFA | register, login, rotate, reset, verify | everything | rotation in two statements, single-use tokens | a token is used once |
| profiles, audit, notifications, search, statistics, transparency | profiles, facts, projections | small updates, reads, rebuilds | all | little concurrency of their own | |
| platform, bootstrap, commands, web, tools | pools, limits, a circuit breaker | plumbing | all | the breaker's late results | |

`PROJECT.json` lists every component with its sources, and every hazard at its
line; a hazard of a part that is not modelled yet says which module will take it.

## 2. Plan

In order; each module composes with the ones before it where the code does.

1. **Done.** Jobs: `JobBackoff`, `JobQueue`, `JobContract`, `JobWorker`.
2. **Done.** Wallet: `InkAllocation`, `InkLedger`, `Wallet`, `MonthlyPeriods`.
3. **Done.** Publication: `Publication`, over the wallet and its environment.
4. **Done.** Moderation: `Moderation`, over what it sanctions.
5. **Done.** Positions: `PositionHistory` (abstract), `Positions`.
6. **Done.** Arena Passes: `ArenaPasses`, which composes the delivery of provider
   events, the lots they grant or revoke, and the publications that consume them.
7. `JobScheduler`: passes under the advisory lock over `JobQueue`'s Enqueue, with
   its catch-up window.
8. `CircuitBreaker`: results of calls that started before the circuit opened.
9. `Sessions`: the rotation of a session in two statements, single-use tokens.
10. Settlement and refund of INK and of subscriptions, over `ArenaPasses`' events
    and `Wallet`'s ledger, with the member franchise.

A run takes several *scenarios* (below), so a family needs one passing run, and a
second one only where liveness asks for a smaller instance.

## 3. Modules and how they correspond to the code

`PROJECT.json`, "map", gives the lines of every definition. A row, a lock and a
statement are always the same things: a function from keys to records, a variable
that names the holder, and an action whose guard is the WHERE clause or the early
return and whose primed variables are the SET clause. A definition named
`Mutant_X` is `X` with a plausible mistake; no specification uses it. `PROJECT.json`
names, for each property, the mutant that TLC shows to break it.

### Jobs

- `JobBackoff`: `BackoffPolicy.Delay`, on a signed word of `IntBits` bits. The
  jitter is a nondeterministic choice below the cap.
- `JobQueue`: `app.jobs`, one operator per statement of `db/queries/jobs.sql`
  (`EnqueueRow`, `LeaseRow`, `CompleteRow`, `FailRow`, `ReleaseLapsedRows`,
  `RetryDeadRow`), with the CHECKs of migration 00029, and a specification of any
  caller at all.
- `JobContract`: the abstract promise. A job is tried at most its budget of times,
  succeeds only in a try, dies only when the budget is spent, and an outcome is
  final unless an operator revives a dead job.
- `JobWorker`: the pool (`worker.go`) and the operator's retry
  (`operations.go`). `LockClaim`/`CommitClaim` are the two halves of the claim,
  apart because `SKIP LOCKED` makes the lock visible; `RefuseClaim` is a claim the
  CHECK on attempts refuses; `FindNothing`/`Reclaim` the idle worker's sweep;
  `HandlerEnds`/`Record` are `process`; `Lose...` are calls whose answer is lost;
  `Signal`, `Crash`, `Restart` are the process; `LookUpDead`/`CommitRetry` the
  operator, whose read comes before its transaction. Owner names are the code's:
  `Worker.Run` numbers the goroutines of its own process, so only within a process
  do they tell goroutines apart. `holder` (to whom the newest lease of a row went)
  and `late` (whether a handler or a statement has overrun its time) are history.
- `JobWorkerProofs` (the queue's and the pool's); `CalculationsProofs` for `JobBackoff`;
  `MCJobWorker`.

### Wallet

- `InkAllocation`: `domain/allocation.go` and the arithmetic of `Ink` with its
  ceiling (`MaxInk` stands for the top of a bigint).
- `InkLedger`: the abstract ledger: keys are posted once, a debit takes the
  franchise first, a period replaces what is left of the franchise, in order.
- `Wallet`: sessions that run the statements of `adapters/postgres/repository.go`
  for credit, debit, adjustment and renewal. `holder` is the wallet row's lock,
  `claimant` the unique key a transaction inserted and has not committed.
  `Replays` takes whatever operation of the account has the key, of any type and
  amount, as `replayCredit` and `replayDebit` do. `BreakDeadlock` is PostgreSQL
  refusing a statement of a circle of waits, which the repository does not retry.
- `MonthlyPeriods`: `domain/period.go`, the anchored calendar with clamped days.
- `WalletProofs`; `MCWallet`; `MCCalculations` (walks over `JobBackoff` and
  `MonthlyPeriods`) and `CalculationsProofs`; `FiniteSums`, the lemmas on sums, finite
  sets and numbers that four of the proof modules rest on.

Abstractions. An operation and its lines are one entry. A renewed period is one
record. Months are counted in `Wallet` and dated in `MonthlyPeriods`. The shared
lock that inserting an operation takes on the wallet row by its foreign key is
covered by a credit that waits between its key and its balance. All operations share
one space of keys: `PublishArgument` and `AdjustInk` pass on their callers' keys as they
came, and nothing keeps a credit and a debit from having one. The audit fact of an
adjustment is recorded after the commit and deduplicated by key
(`application/adjust_ink.go`).

### Publication

- `Publication`: `PublishArgumentUseCase` and `WithdrawArgumentUseCase`. Each gate
  (`LookUpAttempt`, `EnsureEligible`, `EnsureAcceptsArguments`,
  `ensureReplyableParent`) is a step that reads committed rows and keeps nothing;
  then one transaction: `Debit`, `ClaimKey`, `CreateArgument`, `Commit`. The wallet
  is the sum of its buckets (their split is `Wallet`'s subject) and `Debit` merges
  the lookups and the locked read of `applyDebit`, of which nothing is kept before
  the lock. `replayDebit` takes any operation of the account under the key for the
  debit, so `posted` holds every operation under a key a client may use, and a
  transaction that replayed one inserts its argument without a charge. `Meanwhile`
  is what other modules do in between, from `db/queries/moderation.sql`, the credits
  of the wallet and its operations of other types (`Adjust`): any of it may happen at
  any step, in any order.
- `PublicationProofs`; `MCPublication`.

Abstractions. An argument is named by its author and key, unique together. Its
depth is stored, as parents are immutable; its sources are written in the same
transaction and not told apart. `Adjust` is one step: `Wallet` has its statements and
the circle of waits they may enter. Texts, relations and languages are not modelled.

### Moderation

- `Moderation`: sessions run the use cases of the staff. `ClaimCase` is the
  conditional UPDATE that takes a case whose lease lapsed; `AskDecision`, `LoadCase`
  and `DecideCase`/`RefuseDecision` are `DecideCaseUseCase`, whose checks read before
  its transaction; the transaction is one step that locks in the code's order and
  writes the sanction, the action and the case together. `FileAppeal`, `ClaimAppeal`,
  `AskReview`, `LoadAppeal` and `DecideAppeal`/`RefuseReview` are the appeal, whose
  reversal restores the row the action changed. `TargetCheck` and `CreditCheck` are
  the CHECKs of migrations 00017 and 00018; a reversal they refuse aborts and is
  remembered in `violated`. `Meanwhile` is what owners, other modules and the
  deletion of accounts do to the same rows. `ReadsPending` and `SetEmailVerified` are
  the two ends of `VerifyEmailUseCase`: a read, and later an UPDATE with no condition.
- `ModerationProofs`; `MCModeration`.

Abstractions. No code of the repository opens a case (reports are only filed), so
cases start open, and the staff keep their roles. The window of an appeal and the
freshness of a session only refuse, so they are choices of the caller. A measure that
writes no row (a warning, no action) is its action alone. A pending account cannot log
in, so it asks for no deletion; `ChangeEmail`, which would make an account pending
again, has no caller. How many verifications are under way for an account is not
counted: a write may leave its account among those read as pending.

### Positions

- `PositionHistory`: the abstract promise. A holder's history is a sequence that
  grows at its end, no two neighbours equal (`Take`); a change is credited to at most
  `MaxAttributions` arguments and never to fewer than before (`Credit`).
- `Positions`: confirmation (`AskConfirm`, `LookUpPosition`, `EnsureEligible`,
  `EnsureAcceptsPositions`, `ConfirmInitialPosition`), change (`AskChange`,
  `LoadPosition`, `AcceptChange`, `CreatePositionChange`, `UpdateCurrentPosition`) and
  attribution (`AskCredit`, `LockChangeForAttributor`, `SelectArguments`,
  `CreateAttributions`). A change computes its row from a version it read before the
  transaction: the unique key of holder and version makes a second session wait and
  refuses it, and the UPDATE is conditional on the version. `Instants` are what a
  process may read from its clock, at most `Skew` late; `Meanwhile` publishes, hides
  and restores arguments, closes Arenas and suspends accounts.
- `PositionsProofs`; `MCPositions`.

Abstractions. A holder is an account in an Arena. Comments, metrics and reputation
are not modelled; the invalidation of an attribution is `Moderation`'s subject, and
the row stays (`credited` keeps it).

### Arena Passes

- `ArenaPasses`: sessions that handle deliveries or publications. A delivery is
  `InsertEvent`, `ClaimEvent` (each a transaction of its own), then for a payment
  `GetIntentToSettle`, `GrantPassLot`, `MarkCheckoutIntentPaid`, or for a refund or
  dispute `GetIntentToRefund`, `AssessPasses`, `ReportRemaining`,
  `ZeroPassLotRemaining`, `RecordRefund`, and `MarkProcessed` or `MarkFailed`; a
  delivery of an event that exists is `ResolveEvent`/`BumpEvent`. `FailStatement` is
  a statement that fails, `Crash` a process that dies: each statement of a delivery
  commits by itself, so the steps done stay done. A publication is `ReadArena` (or
  `ReplyAtOnce`), `FindConsumption`, `ListAvailablePassLots`, `LockLot`, `FindAgain`,
  `ConsumeArenaPassLot` and `PublishArenaDraft`; `lotLock` and `keyLock` are the
  locks of a lot's row and of a consumption's unique key. A lot that is found empty
  once its lock is granted is no candidate (`Candidates`), but stays locked to the
  end of the transaction (`Locked`), as a row that READ COMMITTED checks again does. `Meanwhile` records
  checkouts, grants other lots, edits or deletes drafts and lets time pass.
- `PassesProofs`; `MCArenaPasses`.

Abstractions. Lots of a subscription or of an administrator are `Grants`: they differ
by who creates them. A draft is its version; slugs, texts and the public feed are not
modelled. What ends a public Arena is one step (`Moderation` says which). Lots are
numbered in the order they were created and locked by expiry and then by that number;
the ORDER BY of `ListAvailablePassLotsForUpdate` leaves open what it does with two lots
of one expiry and one `created_at`, an instant of microseconds.

## 4. Runs

A *scenario* is who acts in one behaviour (which requests, workers, operators,
how many faults); it is chosen in the initial state and never changes. `MCNext`
writes the disjuncts of `Next` out, each inside the scenario, so that TLC counts
how often each action fires; all of them do.

| Run | Instance | Shows |
|---|---|---|
| `calculations` | 5-bit word, every policy and attempt; 26 months from 2023, every anchor at the ends of a month | the overflow guard yields exactly the mathematical cap (`CapIsIdeal`); every instant is in exactly one period, which keeps the day of its anchor (`ExactlyOnePeriod`); `PeriodsFollowTheClock` |
| `worker_pool` | 2 jobs (budgets 1 and 2), 2 processes, 3 goroutines, 3 units of time; a crash or a lost answer with both goroutines of a process at work, the same with one row and overrunning handlers, two processes whose goroutines share a name with 2 faults, a SIGTERM among them; 2 operators with a retry each | `SuccessIsEarned`, `RunsWithinBudget`, `NeverTwoRunners` (until something overruns), `StaleSiblingsRecordNothing`, refinement of `JobContract`, and, under fairness, `EveryJobIsSettled`, `AbandonedWorkIsRecovered` |
| `wallet` | 2 accounts, 2 sessions, 4 keys; spending, renewing two missed months, adjusting across the ceiling, a credit and a debit under one key; 1 or 2 faults | `AnswersMatchLedger`, `ProjectionIsDerived` (the balance is the sum of the lines), `RefusalsAreJust`, `FranchiseDoesNotAccumulate`, refinement of `InkLedger`, `OnlySharedKeysDeadlock`, and, under fairness, `EveryRequestIsAnswered` |
| `publication` | 2 authors, 3 keys, 2 Arenas, 2 sessions; two authors with one key, replies, two attempts on one balance, operations of other types under the same key, 2 faults | `ChargeIsIndivisible`, `AnswersMatchRecord`, `RepliesAreAnchored`, `InkIsConserved`, `HistoryIsKept`, and, under fairness, `EveryRequestIsAnswered` |
| `moderation` | 2 sessions, 4 staff of three roles, 6 cases, two for each kind of target; closing, removing, discrediting, suspending with stale verifications, reclaiming | `OneDecisionPerCase`, `SanctionsMatchRecord`, `ClaimsAreExclusive`, `OutcomesAreFinal` |
| `positions` | 2 sessions of one holder, up to 3 versions, 3 instants, clocks 1 behind, a limit of 2 with 3 arguments; confirming, changing, crediting, improper credits, hiding | `ProjectionIsChainTip`, `CreditsAreEligible`, `AnswersMatchHistory`, refinement of `PositionHistory` |
| `arena_passes` | 2 sessions, 2 Arenas, a purchased lot of 2 and a member lot of 1 that expires, 5 events (one payment twice, a partial and a full refund, a dispute), up to 2 faults | `PassesAreAccounted` (no pass is granted twice, lost or over-consumed, every public Arena has paid), `AnswersMatchRecord`, `NoDeadlock` (no calls wait for each other's lots or keys in a circle) |

Every run also checks the type invariant of its module where one is listed, which
has the CHECKs of its tables where they relate columns (`QueueCoherent`, for jobs).
Violations, each of a sentence of the repository (see "findings"):

| Run | What happens |
|---|---|
| `worker_blocked` | A worker dies in the last attempt of a row. The lapsed row heads the claim order, every claim of it is refused by the CHECK on attempts, the worker only sleeps, and due work behind it is never claimed nor the row swept. `worker.go:259` says that one job can never stop the pool. |
| `worker_names` | Two processes, each with a goroutine `worker-0` (`worker.go:328`). The handler of one overruns its lease, the row is granted to the other, and the first one's report, which the guard cannot tell from the second's, is recorded over the newer lease. `queue.go:194` says that a stale holder cannot overwrite a newer outcome, and so does `jobs.sql:67`. |
| `moderation_reversal` | `RestoreArgumentAttributions` makes an attribution valid and leaves `invalidated_at`, which the CHECK of migration 00018 refuses; `RestoreArgumentForAppeal` meets that of 00017 when the author had withdrawn the argument. The appeal can never be decided as reversed, though `appeals.go:4` says reversals restore projections. |
| `webhook_ack` | A delivery fails, the event is marked failed, and the provider's next delivery is answered with success without its handler running. `process_webhook.go:106` says nil is returned only when the event was handled. |
| `refund_race` | A publication consumes a pass between the reads of a refund and the statement that zeroes the lot: the refund reports a pass it did not revoke and asks for no review, against what migration 00021 says of both columns. |

Disagreements that are seen in the code and have no run of their own:

- The outcome of a handler that ends after a SIGTERM is recorded with the cancelled
  context (`jobs/application/worker.go:380`), so the row keeps its lease until it
  lapses; `worker.go:401` says a signal never leaves a lease without an outcome.
  `Signal` and `Record` model it.
- A key under which the account has any operation is answered by `replayDebit` with
  success. In the wallet a debit is then told to be done of which there is no line
  (`Replays`), and an argument is recorded that costs nothing (`replayDebit` of
  `Publication`), though `docs/BUSINESS_RULES.md` (rule 7) and REQ-INV-07
  (`docs/REQUIREMENTS.md:198`) call argument and debit indivisible. The scenarios
  `Sharing` of `MCWallet` and `Adjusting` of `MCPublication` reach it; the properties
  say what is left: no debit without its argument, no argument whose key its author
  has not posted, and the ledger always adds up.
- A credit and a debit of one account under one key may wait for each other; PostgreSQL
  refuses one (40P01), and the repository retries nothing. `Sharing` of `MCWallet`
  reaches it, `OnlySharedKeysDeadlock` says that it is the only way.
- Two verifications of one pending account may both read it before either writes. One
  activates it, it is suspended, and the other activates it again with the sanction
  standing and no reversal on record (`identity/application/verify_email.go:59` and `:75`,
  `db/queries/identity.sql:30`); `db/queries/moderation.sql:84` wants no phantom sanction.
  The scenario `Suspending` of `MCModeration` reaches it, and `SanctionsMatchRecord`
  excepts exactly the accounts this happened to (`overwritten`).
- A key that another author used is refused by the wallet, whose keys are global;
  `arguments/domain/idempotency_key.go:10` says their scope is the author. The
  scenario `Sharing` of `MCPublication` reaches it.
- An Arena that closes between the gate (`publish_argument.go:126`) and the
  transaction still gets the argument; `docs/BUSINESS_RULES.md:39` says a closed
  Arena takes none. The scenario `Replying` reaches it.

### Bounds, and why they are enough

Two sessions, processes or operators, and two goroutines beside a second process: every conflict the code resolves is
between two statements, and its locks have one holder. Two or three keys and rows:
enough for a retry beside a different request, for a row in front of another in the
claim order, and for a reply to a reply past `MaxDepth = 1`. `MaxInk = 3` is the
ceiling that two credits of 2 cross, and pays for one debit of 3 that splits over
both buckets. `MaxTime` of 3 or 4 with a lease of 2 lets a lease lapse after a first
grant and the row be granted again; one crash of a process with two goroutines at work
leaves a row with a spent budget ahead of a lapsed one that has budget left, so
`AbandonedWorkIsRecovered` has to say when such a row comes back; `MaxMonth = 2` is two missed months. One fault
suffices for a crash, an abort or a lost answer at any single point, and two for an
adjustment whose audit is lost twice and for a delivery that fails while another
crashes. In moderation a lease of 1 within `MaxTime = 3` is claimed, lapses
and is claimed by another twice; two cases about one target are two sanctions in
either order. In positions three versions are a change of a change, and three
arguments exceed a limit of 2 only together. In `arena_passes` two Arenas compete for
the passes of two lots or of one, and the member lot expires between a listing and a
lock. Reaching the last instant stops the clock, cases end decided, drafts are
edited up to `MaxVersion`, and a lot is used once: the runs of jobs, moderation,
positions and Arena Passes may stop there, which is why they do not check deadlock.
The calculations are walks that end.

Sessions are interchangeable in `moderation`, `positions` and `arena_passes`, where no
row is ordered by them and no property tells them apart, so these runs take their
symmetry. The runs with a liveness property take none.

### Fairness, and why the code justifies it

- Jobs: a worker takes its next step (goroutines are scheduled, statements answer,
  handlers have a deadline); a dead or stopped process is restarted
  (`compose.production.yaml`); a statement that waits for a row gets it, as
  PostgreSQL grants locks in the order of the waiters (strong fairness of `Record`
  and `Reclaim`); time passes. Nothing is assumed of producers, operators, signals
  or faults.
- Wallet and publication: a session's next statement runs, and a lock or key waited
  for is granted in order (strong fairness of the waiting statements); a circle of waits
  is broken by PostgreSQL's deadlock detector. Nothing is
  assumed of clients, the calendar, moderation or faults.
- Moderation, positions and Arena Passes: safety only. What should eventually happen
  to a delivery that failed does not happen (`webhook_ack`).

`EveryJobIsSettled` is claimed where no fault strikes: a fault during the last
attempt strands the row and what is behind it, which is `worker_blocked`.
`AbandonedWorkIsRecovered` covers every row with budget left: its lapsed lease is taken
over or swept, or a claimable row with a spent budget is ahead of it, which migration
00029 (invariant 4) does not foresee.

## 5. Proofs

All theorems hold for every value of the constants under the named ASSUMEs, which
are what `Validate` functions, CHECKs and types guarantee and which TLC evaluates.

- **Queue.** `QueueInv` = types and `QueueCoherent`, which is inductive by itself:
  each statement has a lemma (`LeasedCoherent`, ...) and `OneRowUpdate` lifts it to
  the table. `QueueImplementsContract` maps a row to its phase.
- **Pool.** `PoolInv` adds to the types and `QueueCoherent` what makes them
  inductive: a busy worker has a job (`JobInv`), a lookup's instant is in the past
  (`LookupInv`), a claiming worker's row is claimable at the instant its statement
  reads and is locked by it alone (`LockInv`), a leased row carries the name of the
  goroutine its newest lease went to (`HolderInv`), and a goroutine in flight to which
  it went has that grant, while one that reports a success has its run among the
  handled ones (`FlightInv`). A report passes the guard only under the name of the
  newest holder (`ReportsUnderTheName`), which within a process is that goroutine
  alone: so `StaleSiblingsRecordNothing` and `SuccessIsEarned`, with no assumption on
  names but what `Worker.Run` gives. The latter also needs how a row may move in one
  step (`RowMoves`: kept, granted, relived or recorded). `GrantsPaid`, every grant is
  paid by an attempt of one of the audited lives, gives `RunsWithinBudget`. `OnTimeInv`,
  a claim is stamped now and a flight on time has an unlapsed lease granted to it, holds
  until the pool is `late`, and gives `NeverTwoRunners`. `PoolUsesTheQueue` shows that every step of the pool is
  a statement of `JobQueue` or leaves the table alone, and `PoolKeepsTheContract`
  composes it with `QueueImplementsContract`.
- **Calculations.** `BackoffIsExact` compares the guarded shift with exact arithmetic on
  a word of any width: a power of two counts the subsets of a set, so it doubles with
  each element, and the guard fires exactly when doubling leaves the word. For the
  calendar a date is a pair of a month number and an instant of the month, ordered
  lexicographically; period starts ascend strictly (`PeriodIsUnique`), and the month of
  the instant, or the one before it, is its period. `CapStaysIdeal`,
  `PeriodsPartitionTime` and `NoPeriodIsSkipped` carry this to the walks of
  `MCCalculations`.
- **Wallet.** `IInv` = `TypeOK`, `WalletInv` (wallets were opened in the past, and
  only they are posted to) and, per session, what its locks protect: a session
  that planned holds the row and has seen its balance, and a session that inserted
  a key is its claimant and the key is unposted. `ImplementsLedger` follows step by
  step, a commit being the only step that is not a stutter; `RefusesJustly` and
  `FranchiseIsBounded` are consequences. `AllocationIsExact` is about the operators
  alone. `AnswersStayTrue` adds, per session, what its answer claims (`AnswerInv`) and
  that audit facts name posted operations (`AuditInv`): what is posted, granted and
  audited only grows, so an answer that was true stays true. `ProjectionNeverDrifts`
  needs `IInv` to know that a commit adds one line that was not there: a fresh key, or
  a period not granted before. `OnlyOneKeyDeadlocks` adds what a session holds at each
  statement (`LocksFit`) and that a credit past its first statement finds an open wallet
  unless it is the one that opens it. A debit takes the row before the key and a credit
  the key before the row, so a circle needs a session of each kind at one key, and no
  assumption on keys.
- **Publication.** `IInv` = `TypeOK`, the record (`ChargeIsIndivisible`,
  `RepliesAreAnchored` and `RowsCoherent`, that a withdrawn row is not shown) and per
  session what it holds and what its answer claims. `AnswersMatchRecord` needs the
  latter for every session, as another session's commit must not falsify an answer.
  `InkConservation` adds that the set of an author's arguments grows only with its
  commit, by the cost its wallet loses when a debit is posted with it.
  `PublicationNeverDeadlocks`: the row comes before the key, the key before the argument,
  and who inserted the argument waits for nobody.

- **Moderation.** `IInv` = `TypeOK`, `OneDecisionPerCase`, `SanctionsMatchRecord` and
  `MeasuresFit`: every measure recorded or being decided fits its target, without
  which a reversal could restore a row the measure never touched. Two sanctions
  cannot stand on one target because `DecideCase` demands the status `Before` its
  measure, and a standing sanction has moved it away, unless a stale verification brought
  it back (`overwritten`). `ClaimsAreExclusive` and
  `OutcomesAreFinal` follow step by step.
- **Positions.** `IInv` adds to `TypeOK`, `ProjectionIsChainTip`, `CreditsAreEligible`
  and `AnswersMatchHistory` what a session carries between its steps (`CallsFit`): a
  projection it read is the present one unless the version moved, the row it inserted
  is the one its UPDATE will point at, and a session that selects arguments is alone
  at its change. `ImplementsHistory` maps a chain to the sequence of its targets;
  only an initial position, a completed change and new attributions are steps of it.
- **Arena Passes.** `IInv` = `TypeOK`, `PassesAreAccounted`, `RevocationsExist`, what
  the locks protect (a locked lot has a pass for the Arena of its holder; who inserted
  a consumption is about to commit it) and `Knows(s)`, what each session has learnt of
  events, intents, lots and Arenas. Every step is one of a few kinds of step on the
  record, under each of which the record only grows in the direction that matters
  (a lot exists, an event is claimed, an Arena has consumed), so what sessions know,
  and what they told, stays true. `LocksNeverDeadlock` adds that a publication holds
  only lots, emptied ones included, that come before those it still has to lock (`LockOrder`): in a circle, the
  lots wanted would ascend for ever, but a finite set has a last one. `LotsAreTakenInOrder`
  says that there is always a next one: no publication stops without waiting for a lock.
- **Sums.** `FiniteSums` has what a fold over a finite set adds when an element joins or
  leaves it. The library's induction theorems take an operator as a parameter, which
  the provers cannot instantiate, so `SubsetInduction` and `NaturalInduction` state
  induction for a *set* of subsets or numbers, from a least counterexample.

Only model-checked: liveness (`EveryJobIsSettled`, `AbandonedWorkIsRecovered`,
`EveryRequestIsAnswered`), which the prover does not reach. Every other property of a
passing run is also a theorem. `NoDeadlock` of `Publication` is proved and has no run of
its own: there the run checks `EveryRequestIsAnswered`, which a circle of waiting sessions
would break.

## 6. Not modelled, and why

- Jobs: the scheduler (planned; `docs/REQUIREMENTS.md:331` says that only tests
  start it); payload checks and versions beyond "has a handler or not"; reads.
- Wallet: the member franchise, which follows subscriptions (billing); statements
  and balance reads. No production code calls the renewal yet; the model is of the
  use case.
- Arguments: the public lists, which read.
- Billing: the settlement and refund of INK and of subscriptions (planned; the event
  they settle under is modelled), reconciliation, which records findings, and the calls to
  the provider that open a checkout.
- Arenas: slugs, lists and the feed. Moderation: reports, which only
  insert, and the grants of roles.
- Persuasion: metrics, reputation and signals of abuse, which read.
- Identity (planned), profiles, the circuit breaker (planned; no production code
  builds its runner), notifications, search, statistics, transparency, HTTP,
  configuration, web and tools: for the reasons in `PROJECT.json`.
  Their hazards are listed there without a property.
- PostgreSQL itself is trusted: READ COMMITTED, row locks, unique keys and CHECKs
  do what its documentation says. Deadlocks it would
  detect do not arise among publications or among the calls of the Arena Passes
  (`PublicationNeverDeadlocks`, `LocksNeverDeadlock`, each within its family), and among
  the sessions of the wallet only over a key that a credit and a debit share
  (`OnlyOneKeyDeadlocks`).
