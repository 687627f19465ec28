SPECIFICATION Spec
CONSTANTS
  move = move  dwell = dwell  home = home  stop = stop  ghost = ghost
  NoNode = NoNode
  Node <- ChainNode
  Id <- ChainNode
  Entry = move
  NodeType <- ChainType
  Succ <- ChainSucc
  HasTarget <- ChainTarget
  Dwell <- ChainDwell
  Reading <- MCReading
  Deviations = 1
  MaxNow = 3
  LimitsValid = TRUE
  AllowJointCommands = FALSE
INVARIANTS TypeOK RouteIsWhole OnlyCurrentInFlight BooksAgree
           SucceededRunIsStill
PROPERTIES WalksItsRoute
