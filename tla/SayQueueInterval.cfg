SPECIFICATION Spec
CONSTANTS
  Callers = {g1}
  Promo = promo
  Capacity = 1
  Interval = 2
  Boots <- AllBoots
  MaxChat = 3
  MaxSays = 7
  MaxTicks = 9
  MaxRotations = 1
CHECK_DEADLOCK FALSE
PROPERTIES IntervalElapsed
