SPECIFICATION Spec
CONSTANTS
  o1 = o1  o2 = o2
  Operator = {o1}
  Command = {"emergency_stop", "resume"}
  StepCount = 2
  MaxOverrides = 0
  Durable = TRUE
  Progress = FALSE
  Viewer = FALSE
INVARIANT CoreEvidenceShown
CHECK_DEADLOCK FALSE
