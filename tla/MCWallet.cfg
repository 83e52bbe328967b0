SPECIFICATION MCSpec
CONSTANTS
  ann = ann
  bob = bob
  c1 = c1
  c2 = c2
  d1 = d1
  d2 = d2
  Accounts = {ann, bob}
  Keys = {c1, c2, d1, d2}
  Requests <- AllRequests
  Sessions = {s1, s2}
  NoSession = nobody
  NoEntry = absent
  Franchise = 1
  MaxMonth = 2
  MaxFaults = 2
  MaxInk = 3
INVARIANTS TypeOK AnswersMatchLedger OnlySharedKeysDeadlock ProjectionIsDerived FranchiseDoesNotAccumulate
PROPERTIES RefusalsAreJust LedgerSpec EveryRequestIsAnswered
