\* One process makes every call; it may crash, and the ledger may raise.
SPECIFICATION Spec
CONSTANTS
  Procs = {p1}
  Sources = {c1}
  Results <- MCResults
  Thresholds <- MCThresholds
  Faults = {"crash", "disk"}
  MaxCalls = 6
INVARIANTS TypeOK GradeCurrent SuspendedStaysOut ResultsCountedOnce
PROPERTIES OverrideByOperator LedgerAfterProfile
CHECK_DEADLOCK FALSE
