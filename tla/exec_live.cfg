\* One process that does not crash, market orders, the operator edits .env.
SPECIFICATION FairSpec
CONSTANTS
  Procs = {p1}
  q1 = q1
  q2 = q2
  k1 = k1
  k2 = k2
  s1 = s1
  sigA = sigA
  Requests = {q1, q2}
  Keys = {k1, k2}
  Symbols = {s1}
  Signals = {sigA}
  NoSignal = NoSignal
  SymbolOf <- OneSymbol
  SideOf <- SellSecond
  KeyOf <- OwnKeys
  SignalOf <- FreshIds
  PolicyOf <- RejectOrClose
  LimitOrders = {}
  LiveAccount = TRUE
  Window = 1
  Settings <- KillOrNot
  Faults = {"lookup"}
  MaxAttempts = 3
  MaxTime = 2
INVARIANTS OneOpenTrade NoUnexplainedDrift
PROPERTY AttemptsSettle
CHECK_DEADLOCK FALSE
