\* main.py, run twice with other prices and no fault: one request_id, two keys.
SPECIFICATION Spec
CONSTANTS
  Procs = {p1}
  q1 = q1
  q2 = q2
  k1 = k1
  k2 = k2
  s1 = s1
  sigA = sigA
  Requests = {q1, q2}
  Keys = {k1, k2}
  Symbols = {s1}
  Signals = {sigA}
  NoSignal = NoSignal
  SymbolOf <- OneSymbol
  SideOf <- AllBuy
  KeyOf <- OwnKeys
  SignalOf <- OneId
  PolicyOf <- CloseAll
  LimitOrders = {}
  LiveAccount = FALSE
  Window = 1
  Settings <- Running
  Faults = {}
  MaxAttempts = 2
  MaxTime = 2
INVARIANT NoUnexplainedDrift
CHECK_DEADLOCK FALSE
