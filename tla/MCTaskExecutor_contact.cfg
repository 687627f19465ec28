SPECIFICATION Spec
CONSTANTS
  move = move  dwell = dwell  home = home  stop = stop  ghost = ghost
  NoNode = NoNode
  Node <- ShortNode
  Id <- ShortNode
  Entry = move
  NodeType <- ShortType
  Succ <- ShortSucc
  HasTarget <- ShortTarget
  Dwell <- ShortDwell
  Reading <- MCReading
  Deviations = 1
  MaxNow = 0
  LimitsValid = TRUE
  AllowJointCommands = FALSE
INVARIANTS NoMotionIntoContact
