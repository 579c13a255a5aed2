CONSTANTS
  a1 = a1
  a2 = a2
  w1 = w1
  Agent = {a1, a2}
  Workflow = {w1}
  Worker <- HandoverWorker
  TaskOf <- HandoverTaskOf
  MaxFaults = 1
  LateCalls = FALSE
  None = None
SPECIFICATION Spec
INVARIANT ReServesExecuting
