\* A bot that dies anywhere, whose reads and saves may raise, with transfers,
\* expiries, take-profits and restarts.
SPECIFICATION Spec
CONSTANTS
  N = 2
  MinNotional = 2
  TopupThreshold = 2
  OrderIds = {1, 2}
  InitialUsdt = 9
  FillSizes = {2}
  FlowSizes = {4}
  MaxFlows = 1
  CostErrors <- Undershoot
  LimitFees = {1}
  Profit = 2
  Events <- CrashEvents
  MaxSteps = 6
  MaxCycles = 2
INVARIANTS TypeOK StepsAreSound BaseBooks CashBooks OrdersTracked TranchesAreCovered OneSideOfOco
PROPERTIES RowNeverGoesBack
CONSTRAINT UntilOrderLost
