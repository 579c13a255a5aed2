CONSTANTS
  Phases = {"PREPARING", "POST"}
  None = None
  MaxFaults = 0
SPECIFICATION Spec
INVARIANT ExistingJobAdopted
CHECK_DEADLOCK FALSE
