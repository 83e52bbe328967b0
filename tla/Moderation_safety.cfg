SPECIFICATION MCSpec
CONSTANTS
  mod = mod
  ada = ada
  sec = sec
  boss = boss
  arena1 = arena1
  arg1 = arg1
  acc1 = acc1
  case1 = case1
  case2 = case2
  case3 = case3
  case4 = case4
  case5 = case5
  case6 = case6
  x1 = x1
  Scenarios <- AllScenarios
  Staff = {mod, ada, sec, boss}
  Role <- RoleOf
  Arenas = {arena1}
  Arguments = {arg1}
  Profiles = {acc1}
  Owner <- OwnerOf
  Cases = {case1, case2, case3, case4, case5, case6}
  Subject <- SubjectOf
  Actions = {1, 2}
  Credits = {x1}
  Credited <- CreditedBy
  Sessions = {s1, s2}
  NoAction = NoAction
  NoOne = NoOne
  NoCall = NoCall
  ClaimLease = 1
  MaxTime = 3
SYMMETRY Symmetry
CHECK_DEADLOCK FALSE
INVARIANTS TypeOK OneDecisionPerCase SanctionsMatchRecord
PROPERTIES ClaimsAreExclusive OutcomesAreFinal
