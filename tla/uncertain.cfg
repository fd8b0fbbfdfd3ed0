\* A read raises after an order was sent.
SPECIFICATION Spec
CONSTANTS
  N = 2
  MinNotional = 2
  TopupThreshold = 2
  OrderIds = {1, 2}
  InitialUsdt = 8
  FillSizes = {2}
  FlowSizes = {4}
  MaxFlows = 0
  CostErrors <- Exact
  LimitFees <- Exact
  Profit = 2
  Events <- ReadEvents
  MaxSteps = 6
  MaxCycles = 2
INVARIANT StopsWhenUncertain
