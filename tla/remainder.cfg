\* Nothing fails, and a partial fill leaves less than a minimum order.
SPECIFICATION Spec
CONSTANTS
  N = 2
  MinNotional = 2
  TopupThreshold = 2
  OrderIds = {1, 2}
  InitialUsdt = 8
  FillSizes = {3}
  FlowSizes = {4}
  MaxFlows = 0
  CostErrors <- Exact
  LimitFees <- Exact
  Profit = 2
  Events <- NoEvents
  MaxSteps = 6
  MaxCycles = 2
INVARIANT NothingLiveBehindStep
