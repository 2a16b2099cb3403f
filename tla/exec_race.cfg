\* Two processes share the files, and lose updates of each other.
SPECIFICATION Spec
CONSTANTS
  Procs = {p1, p2}
  q1 = q1
  q2 = q2
  k1 = k1
  k2 = k2
  s1 = s1
  sigA = sigA
  Requests = {q1, q2}
  Keys = {k1, k2}
  Symbols = {s1}
  Signals = {sigA}
  NoSignal = NoSignal
  SymbolOf <- OneSymbol
  SideOf <- SellSecond
  KeyOf <- OwnKeys
  SignalOf <- FreshIds
  PolicyOf <- AddAll
  LimitOrders = {}
  LiveAccount = FALSE
  Window = 1
  Settings <- Running
  Faults = {"timeout"}
  MaxAttempts = 2
  MaxTime = 0
INVARIANTS RecordsNeverLie
CHECK_DEADLOCK FALSE
