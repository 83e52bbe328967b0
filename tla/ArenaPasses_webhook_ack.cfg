SPECIFICATION MCSpec
CONSTANTS
  owner = owner
  bought = bought
  member = member
  arena1 = arena1
  arena2 = arena2
  refund1 = refund1
  dispute1 = dispute1
  Intents = {bought}
  Grants = {member}
  Arenas = {arena1, arena2}
  AccountOf <- Accounts
  Quantity <- Quantities
  Expiry <- Expiries
  Never = Never
  Refunds = {refund1, dispute1}
  Events <- AllEvents
  Sessions = {s1, s2}
  NoSession = NoSession
  NoLot = NoLot
  NoEntry = NoEntry
  NoCall = NoCall
  MaxVersion = 3
  MaxTime = 1
  MaxFaults = 2
SYMMETRY Symmetry
CHECK_DEADLOCK FALSE
INVARIANTS NilMeansHandled
