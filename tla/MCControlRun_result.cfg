SPECIFICATION Spec
CONSTANTS
  o1 = o1  o2 = o2
  Operator = {o1}
  Command = {"emergency_stop", "resume"}
  StepCount = 1
  MaxOverrides = 2
  Durable = FALSE
  Progress = TRUE
  Viewer = TRUE
PROPERTIES AcceptedRunGetsResult
CHECK_DEADLOCK FALSE
