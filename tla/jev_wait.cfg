CONSTANTS
  Timeout = 4
  CallTime = 4
  Budget = 6
  Setting = 2
  Replies <- SomeReplies
SPECIFICATION Spec
INVARIANT TimeoutBoundsWait
