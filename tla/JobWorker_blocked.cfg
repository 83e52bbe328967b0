SPECIFICATION MCFairSpec
CONSTANTS
  IntBits = 4
  Jobs = {1, 2}
  a0 = a0
  a1 = a1
  b0 = b0
  A = A
  B = B
  worker0 = worker0
  worker1 = worker1
  Scenarios <- OnlyAlone
  Workers = {b0}
  Processes = {B}
  Process <- ProcessOf
  Owners = {worker0, worker1}
  NoOwner = none
  Owner <- NameOf
  NoWorker = nobody
  MaxAttempts <- SingleAttempt
  LeaseDuration = 2
  HandlerTimeout = 1
  BaseDelay = 1
  MaxDelay = 2
  MaxTime = 4
  Handled = {1, 2}
  Retryable = {}
  Operators = {}
  MaxFaults = 2
  MaxRetries = 1
PROPERTY OneJobNeverStopsThePool
CHECK_DEADLOCK FALSE
