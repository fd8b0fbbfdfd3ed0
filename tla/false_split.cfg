\* Two polls in a row see a fill in the total that they have not folded yet.
SPECIFICATION Spec
CONSTANTS
  N = 3
  MinNotional = 2
  TopupThreshold = 2
  OrderIds = {1, 2}
  InitialUsdt = 18
  FillSizes = {3}
  FlowSizes = {4}
  MaxFlows = 0
  CostErrors <- Exact
  LimitFees <- Exact
  Profit = 2
  Events <- NoEvents
  MaxSteps = 6
  MaxCycles = 2
INVARIANT ResplitNeedsTransfer
