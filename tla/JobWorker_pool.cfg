SPECIFICATION MCFairSpec
CONSTANTS
  IntBits = 4
  Jobs = {1, 2}
  a0 = a0
  a1 = a1
  b0 = b0
  A = A
  B = B
  worker0 = worker0
  worker1 = worker1
  Scenarios <- WholePool
  Workers = {a0, a1, b0}
  Processes = {A, B}
  Process <- ProcessOf
  Owners = {worker0, worker1}
  NoOwner = none
  Owner <- NameOf
  NoWorker = nobody
  MaxAttempts <- Budgets
  LeaseDuration = 2
  HandlerTimeout = 1
  BaseDelay = 1
  MaxDelay = 2
  MaxTime = 3
  Handled = {2}
  Retryable = {1, 2}
  Operators = {op1, op2}
  MaxFaults = 2
  MaxRetries = 1
INVARIANTS TypeOK SuccessIsEarned RunsWithinBudget NeverTwoRunners
PROPERTIES StaleSiblingsRecordNothing ContractSpec EveryJobIsSettled AbandonedWorkIsRecovered
CHECK_DEADLOCK FALSE
