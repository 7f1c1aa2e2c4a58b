CONSTANTS
  w1 = w1
  w2 = w2
  NoWriter = NoWriter
  Writers <- TwoWriters
  Faults <- Withstood
  MaxEvents = 3
  MaxBoots = 1
SPECIFICATION FairSpec
CHECK_DEADLOCK FALSE
INVARIANTS TypeOK ChainIntact AckedDurable
PROPERTIES AppendOnly TornTailIsFinal ImplementsAppendLog AppendEnds
