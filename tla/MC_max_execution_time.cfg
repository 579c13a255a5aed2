CONSTANTS
  a1 = a1
  a2 = a2
  w1 = w1
  Agent = {a1}
  Workflow = {w1}
  Worker <- SingleWorker
  TaskOf <- SingleTaskOf
  MaxFaults = 0
  LateCalls = FALSE
  None = None
SPECIFICATION FairServices
PROPERTY MaxExecutionTime
