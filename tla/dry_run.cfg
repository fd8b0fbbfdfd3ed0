\* The bot over the paper exchange: it dies anywhere, prices and saves fail.
SPECIFICATION DrySpec
CONSTANTS
  N = 3
  MinNotional = 2
  TopupThreshold = 2
  OrderIds = {1, 2, 3, 4}
  InitialUsdt = 12
  FillSizes = {1}
  FlowSizes = {1}
  MaxFlows = 0
  CostErrors <- Exact
  LimitFees <- Exact
  Profit = 3
  Events <- DryEvents
  MaxSteps = 6
  MaxCycles = 2
INVARIANTS PaperBooks KnownOrdersExist IdsAreFresh NothingUnexplained
CONSTRAINT Explored
