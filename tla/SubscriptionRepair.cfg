SPECIFICATION Spec
CONSTANTS
  b1 = b1
  b2 = b2
  online = online
  chat = chat
  cheer = cheer
  Broadcasters <- Both
  Types <- Overlays
  Required <- BotTypes
  JoinTypes <- OnlineOnly
  Chat = chat
  Starts <- AllStarts
  Ids = {1, 2, 3, 4, 5, 6, 7, 8}
  Tasks = {t1, t2}
  NoOne = NoOne
  MaxFailures = 1
SYMMETRY Symmetry
INVARIANTS CleanConverges BotSettles
PROPERTIES CoverageKept
CHECK_DEADLOCK FALSE
