SPECIFICATION Spec
CONSTANTS
  Limit = 2
  Starts <- AllStarts
INVARIANTS TrackedOnce LiveConverges KeyPerStream BanishSticks DadAllotment PrivsAreReal
CHECK_DEADLOCK FALSE
