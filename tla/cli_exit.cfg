CONSTANTS
  Inputs <- OneInput
  Policy <- SomePolicy
  Timeout = 2
  Setting = 2
  CallTime = 3
  Replies <- SomeReplies
  MaxRuns = 2
SPECIFICATION Spec
CHECK_DEADLOCK FALSE
INVARIANT OutageHasItsOwnCode
