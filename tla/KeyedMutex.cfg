SPECIFICATION FairSpec
CONSTANTS
  Procs = {p1, p2, p3}
  Keys = {k1, k2}
  Entries = {e1, e2, e3}
  NoProc = NoProc
  NoEntry = NoEntry
INVARIANTS NoLeakedEntry
PROPERTIES WaiterIsServed ImplementsKeyedLock
