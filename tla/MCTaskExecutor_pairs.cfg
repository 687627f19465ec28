SPECIFICATION Spec
CONSTANTS
  move = move  dwell = dwell  home = home  stop = stop  ghost = ghost
  NoNode = NoNode
  Node <- ShortNode
  Id <- GapId
  Entry = move
  NodeType <- ShortType
  Succ <- GapSucc
  HasTarget <- ShortTarget
  Dwell <- ShortDwell
  Reading <- MCReading
  Deviations = 2
  MaxNow = 0
  LimitsValid = TRUE
  AllowJointCommands = FALSE
INVARIANTS NoMotionAgainstStop
PROPERTIES OperatorStopHolds ArrivesSteady
