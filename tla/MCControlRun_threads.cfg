SPECIFICATION Spec
CONSTANTS
  o1 = o1  o2 = o2
  Operator = {o1, o2}
  Command = {"emergency_stop", "resume"}
  StepCount = 1
  MaxOverrides = 2
  Durable = TRUE
  Progress = TRUE
  Viewer = TRUE
INVARIANTS TypeOK StopAfterPathWins NoInventedArrival OverridesAudited
PROPERTIES PauseUndoneOnlyFromBefore
CHECK_DEADLOCK FALSE
SYMMETRY Requests
