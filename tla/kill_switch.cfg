\* The KILL file, a deposit and a container that restarts.
SPECIFICATION Spec
CONSTANTS
  N = 2
  MinNotional = 2
  TopupThreshold = 2
  OrderIds = {1, 2}
  InitialUsdt = 8
  FillSizes = {2}
  FlowSizes = {4}
  MaxFlows = 1
  CostErrors <- Exact
  LimitFees <- Exact
  Profit = 2
  Events <- KillEvents
  MaxSteps = 6
  MaxCycles = 2
INVARIANT KillStopsTrading
