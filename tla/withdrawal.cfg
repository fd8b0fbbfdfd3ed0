\* A withdrawal may never be absorbed.
SPECIFICATION FairSpec
CONSTANTS
  N = 2
  MinNotional = 2
  TopupThreshold = 2
  OrderIds = {1, 2}
  InitialUsdt = 8
  FillSizes = {2}
  FlowSizes = {4}
  MaxFlows = 1
  CostErrors <- Exact
  LimitFees <- Exact
  Profit = 2
  Events <- WithdrawEvents
  MaxSteps = 6
  MaxCycles = 1
PROPERTIES TransfersAbsorbed
