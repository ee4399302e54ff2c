SPECIFICATION FairSpec
CONSTANTS
  EventSubMsgs = {cheer1, cheer2}
  ExtensionMsgs = {}
  CommandMsgs = {}
  Handlers = {h1}
  Conns = {c1, c2}
  NoHandler = NoHandler
  NoConn = NoConn
  NoMsg = NoMsg
  OutboxDepth = 1
  MaxReplay = 1
  MaxReplayPerConn = 2
  SeqRetries = 2
  MaxDeliveries = 1
  MaxFaults = 1
  AmbiguousCommits = FALSE
CHECK_DEADLOCK FALSE
PROPERTIES PaidEventRuns DeadIsRemoved
