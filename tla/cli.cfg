CONSTANTS
  Inputs <- SomeInputs
  Policy <- SomePolicy
  Timeout = 2
  Setting = 2
  CallTime = 3
  Replies <- SomeReplies
  MaxRuns = 2
SPECIFICATION FairSpec
CHECK_DEADLOCK FALSE
INVARIANTS TypeOK OutputIsLedger ExitMeansWorst JudgedOnceAcrossRuns WaitBounded
PROPERTIES PaysOnlyOnFullAnswer CommandEnds
