SPECIFICATION CommandSpec
CONSTANTS
  Ids = {m1, m2, m3}
  m1 = m1
  m2 = m2
  m3 = m3
  Blank = Blank
  N = 2
  Author <- Wrote
  Chatters = {alice}
  alice = alice
  bob = bob
  Goroutines = {g1, g2}
  MaxRetries = 1
  MaxOnline = 1
  Scripts <- AllScripts
  Mods = {alice}
  None = None
CHECK_DEADLOCK FALSE
INVARIANTS HandledOncePerWindow CountsTrue StalkIsTrue PausedSticks
PROPERTIES ImplementsRecentIDs SurvivesRestart
