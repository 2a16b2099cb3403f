\* Two processes close one trade, or one process closes two: see MCWorlds.
SPECIFICATION FairSpec
CONSTANTS
  p1 = p1
  p2 = p2
  Procs = {p1, p2}
  Keys = {}
  Signals = {}
  Trades = {1, 2}
  Worlds <- MCWorlds
INVARIANTS TypeOK ClosedMeansClosed CloseAccounted EventHasRecord
PROPERTIES ClosesSettle
CHECK_DEADLOCK FALSE
