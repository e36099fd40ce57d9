SPECIFICATION Spec
CONSTANTS
  s1 = s1
  s2 = s2
  k1 = k1
  k2 = k2
  k3 = k3
  k4 = k4
  Spawns = {s1, s2}
  Keys = {k1, k2, k3, k4}
  Calls <- MCCalls
  Amounts <- MCAmounts
  Limit <- MCLimit
  PriceIn <- MCPriceIn
  PriceOut <- MCPriceOut
  ZeroPolicy = TRUE
  MaxSequence = 5
SYMMETRY Symmetry
INVARIANTS
  TypeOK
  CountersMatchLedger
  WithinLimit
  CostCovered
  SourceCountedOnce
  SettlementIsExact
PROPERTIES
  UnknownFreezesRun
  ImplementsAccounts
CHECK_DEADLOCK FALSE
