\* The operator sets BOT_KILL_SWITCH=true in .env while an executor runs.
SPECIFICATION Spec
CONSTANTS
  Procs = {p1}
  q1 = q1
  q2 = q2
  k1 = k1
  k2 = k2
  s1 = s1
  sigA = sigA
  Requests = {q1, q2}
  Keys = {k1, k2}
  Symbols = {s1}
  Signals = {sigA}
  NoSignal = NoSignal
  SymbolOf <- OneSymbol
  SideOf <- SellSecond
  KeyOf <- OwnKeys
  SignalOf <- FreshIds
  PolicyOf <- RejectAll
  LimitOrders = {q1}
  LiveAccount = FALSE
  Window = 1
  Settings <- KillOrNot
  Faults = {}
  MaxAttempts = 2
  MaxTime = 2
PROPERTY KillSwitchBlocks
CHECK_DEADLOCK FALSE
