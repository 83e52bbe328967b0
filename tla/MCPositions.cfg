SPECIFICATION MCSpec
CONSTANTS
  ana = ana
  bea = bea
  arena1 = arena1
  arena2 = arena2
  ana1 = ana1
  bea1 = bea1
  a1 = a1
  a2 = a2
  a3 = a3
  own = own
  far = far
  Holders = {ana1, bea1}
  AccountOf <- AccountsOf
  ArenaOf <- ArenasOf
  Arguments = {a1, a2, a3, own, far}
  Author <- Authors
  Home <- Homes
  Positions = {"agree", "disagree", "undecided"}
  MaxAttributions = 2
  Sessions = {s1, s2}
  NoRow = NoRow
  NoCall = NoCall
  NoAnswer = NoAnswer
  Skew = 1
  MaxVersion = 3
  MaxTime = 2
SYMMETRY Symmetry
CHECK_DEADLOCK FALSE
INVARIANTS TypeOK ProjectionIsChainTip CreditsAreEligible AnswersMatchHistory
PROPERTIES HistorySpec
