SPECIFICATION CommandsSpec
CONSTANTS
  c1 = c1
  c2 = c2
  Cmds = {c1, c2}
  Links = {l1, l2, l3}
  NoCmd = NoCmd
  NoLink = NoLink
  MaxFaults = 2
  Word = 64
  MaxArea = 6
  Numerals <- SmallNumerals
  Chats <- SomeChats
CHECK_DEADLOCK FALSE
INVARIANTS AnswerIsForCommand AtMostTwice NoFalseReplay DoesAsTold PausedAsTold
PROPERTIES SendReturns
