CONSTANTS
  w1 = w1
  w2 = w2
  NoWriter = NoWriter
  Writers <- TwoWriters
  Faults <- Rewritten
  MaxEvents = 3
  MaxBoots = 0
SPECIFICATION Spec
CHECK_DEADLOCK FALSE
PROPERTY AppendOnly
