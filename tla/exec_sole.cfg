\* One process, every fault, retries past the window with a repeated id.
SPECIFICATION Spec
CONSTANTS
  Procs = {p1}
  q1 = q1
  q2 = q2
  k1 = k1
  k2 = k2
  s1 = s1
  sigA = sigA
  Requests = {q1, q2}
  Keys = {k1, k2}
  Symbols = {s1}
  Signals = {sigA}
  NoSignal = NoSignal
  SymbolOf <- OneSymbol
  SideOf <- SellSecond
  KeyOf <- OwnKeys
  SignalOf <- MixedIds
  PolicyOf <- AddOrClose
  LimitOrders = {q1}
  LiveAccount = FALSE
  Window = 1
  Settings <- Running
  Faults = {"crash", "timeout", "late", "garbled", "lookup", "disk"}
  MaxAttempts = 2
  MaxTime = 2
INVARIANTS TypeOK OrderAudited NoDuplicateInWindow OpenTradesSurface
PROPERTIES SettledForGood AuthoritySpec
CHECK_DEADLOCK FALSE
