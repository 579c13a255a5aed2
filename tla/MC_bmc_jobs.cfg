CONSTANTS
  Actions <- PowerCycle
  MaxTroubles = 1
  None = None
SPECIFICATION FairSpec
INVARIANT TypeOK
INVARIANT CompletedPerformed
INVARIANT PerformedInOrder
INVARIANT PowerAsAsked
INVARIANT OneOutcome
PROPERTY JobEnds
CHECK_DEADLOCK FALSE
