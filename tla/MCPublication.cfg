SPECIFICATION MCFairSpec
CONSTANTS
  ann = ann
  bob = bob
  k1 = k1
  k2 = k2
  k3 = k3
  arena1 = arena1
  arena2 = arena2
  Scenarios <- AllScenarios
  Authors = {ann, bob}
  Keys = {k1, k2, k3}
  Arenas = {arena1, arena2}
  Requests <- AllRequests
  Sessions = {s1, s2}
  NoSession = NoSession
  NoParent = NoParent
  NoArgument = NoArgument
  NoOperation = NoOperation
  MaxDepth = 1
  MaxInk = 3
  MaxFaults = 2
INVARIANTS TypeOK ChargeIsIndivisible AnswersMatchRecord RepliesAreAnchored InkIsConserved
PROPERTIES HistoryIsKept EveryRequestIsAnswered
