SPECIFICATION Spec
CONSTANTS
  EventSubMsgs = {cheer1}
  ExtensionMsgs = {bits1}
  CommandMsgs = {}
  Handlers = {h1, h2}
  Conns = {c1, c2}
  NoHandler = NoHandler
  NoConn = NoConn
  NoMsg = NoMsg
  OutboxDepth = 1
  MaxReplay = 1
  MaxReplayPerConn = 2
  SeqRetries = 2
  MaxDeliveries = 2
  MaxFaults = 1
  AmbiguousCommits = TRUE
CHECK_DEADLOCK FALSE
SYMMETRY Symmetry
INVARIANTS LoggedOnce
