CONSTANTS
  Phases = {"PREPARING", "POST"}
  None = None
  MaxFaults = 2
SPECIFICATION FairSpec
INVARIANT TypeOK
INVARIANT LastJobCompleted
INVARIANT QuietWhenDone
INVARIANT NetbootToggled
PROPERTY PhaseEnds
CHECK_DEADLOCK FALSE
