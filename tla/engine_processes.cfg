CONSTANTS
  f1 = f1
  f2 = f2
  Processes <- TwoProcesses
  Flows <- TwoFlows
  ProcOf <- Apart
  Offers <- FewOffers
  Judgments <- SomeJudgments
  Policy <- SomePolicy
  Hosts <- AllHosts
  MaxObserved = 2
  MaxRestarts = 0
SPECIFICATION Spec
CHECK_DEADLOCK FALSE
INVARIANT NoSecondPay
