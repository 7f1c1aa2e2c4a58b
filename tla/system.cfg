CONSTANTS
  p1 = p1
  p2 = p2
  Payers <- TwoPayers
  QueueSize = 1
  MaxCalls = 3
  Offers <- SomeOffers
  Judgments <- SomeJudgments
  Policy <- SomePolicy
  Hosts <- SomeHosts
SPECIFICATION FairSpec
CHECK_DEADLOCK FALSE
INVARIANTS CountersTellLedger NothingForgotten
PROPERTIES KeepsPromise EachSettles
