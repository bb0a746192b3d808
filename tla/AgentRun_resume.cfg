SPECIFICATION Spec
CONSTANTS
  MaxSteps = 2
  MaxSeconds = 1
  MaxIterations = 2
  MaxBatch = 2
  MaxEvents = 5
  MaxAborts = 1
  MaxTime = 2
PROPERTIES
  EscalationEndsTheLoop
CHECK_DEADLOCK FALSE
