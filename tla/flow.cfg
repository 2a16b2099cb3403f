\* Two decisions in flight over three signals of three sources.
SPECIFICATION Spec
CONSTANTS
  Flows = {f1, f2}
  Sources = {s1, s2, s3}
  Symbols = {"eur", "gbp"}
  Grades = {"LIVE"}
  Opinions <- MCOpinions
  ChannelScores = {0, 100}
  Consensus = {60, 100}
  Features <- MCFeatures
  Config <- MCConfig
  Weight <- MCWeight
  MinimumWeight = 100
  StopDistance <- MCStop
  Limits <- MCLimits
  Capital <- MCCapital
  MinChannelScore = 0
  Multipliers = {4}
  MaxSignals = 3
  MaxExpired = 1
SYMMETRY Symmetry
INVARIANTS TypeOK OnlyTradableTraded RiskWithinBudget ExposureBounded OrderFree
  FusionOrderFree FusionFollowsEnsemble
CHECK_DEADLOCK FALSE
