CONSTANTS
  p1 = p1
  p2 = p2
  Payers <- TwoPayers
  QueueSize = 2
  MaxCalls = 3
  MaxStarts = 2
SPECIFICATION FairSpec
CHECK_DEADLOCK FALSE
INVARIANTS TypeOK OnePlaceOneFate CountersExact UnfinishedExact LossCounted
PROPERTIES ObserveReturns StopReturns
