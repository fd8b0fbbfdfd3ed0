\* A bot to which everything may happen, orders lost included.
SPECIFICATION Spec
CONSTANTS
  N = 2
  MinNotional = 2
  TopupThreshold = 2
  OrderIds = {1, 2}
  InitialUsdt = 13
  FillSizes = {5}
  FlowSizes = {3, 12}
  MaxFlows = 1
  CostErrors <- WithFee
  LimitFees = {1}
  Profit = 0
  Events <- AllEvents
  MaxSteps = 6
  MaxCycles = 1
INVARIANTS StepsAreSound LimitsAreSteps TranchesAreCovered
PROPERTIES HaltIsKept
