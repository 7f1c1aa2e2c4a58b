CONSTANTS
  f1 = f1
  f2 = f2
  Processes <- OneProcess
  Flows <- TwoFlows
  ProcOf <- Together
  Offers <- MixedOffers
  Judgments <- SomeJudgments
  Policy <- SomePolicy
  Hosts <- AllHosts
  MaxObserved = 3
  MaxRestarts = 1
SPECIFICATION Spec
CHECK_DEADLOCK FALSE
SYMMETRY SomeFlows
INVARIANTS TypeOK NoSecondPay RepeatPointsBack JudgedOnce LedgerExplainsSignals RestartInvisible
PROPERTY WaitingChangesNothing
