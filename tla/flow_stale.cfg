\* A stale candidate that matches what the fresh ones say.
SPECIFICATION Spec
CONSTANTS
  Flows = {f1}
  Sources = {s1, s2, s3}
  Symbols = {"eur", "gbp"}
  Grades = {"LIVE", "PAPER", "REJECTED"}
  Opinions <- MCOpinions
  ChannelScores = {0, 100}
  Consensus = {60, 100}
  Features <- MCFeatures
  Config <- MCConfig
  Weight <- MCWeight
  MinimumWeight = 100
  StopDistance <- MCStop
  Limits <- MCLimits
  Capital <- MCCapital
  MinChannelScore = 0
  Multipliers = {4}
  MaxSignals = 2
  MaxExpired = 1
SYMMETRY Symmetry
INVARIANT StaleIgnored
CHECK_DEADLOCK FALSE
