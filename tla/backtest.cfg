\* The strategy replayed over hourly bars, two days, with fees and slippage.
SPECIFICATION Spec
CONSTANTS
  N = 3
  MinNotional = 300
  TopupThreshold = 10
  Grain = 100
  Tick = 4
  FeeDen = 20
  SlipDen = 20
  TpDen = 10
  XMult = 1
  XFloorDen = 10
  AtrPeriod = 2
  Seeds <- MCSeeds
  DailySeries <- MCDailySeries
  Dates <- MCDates
  Closes <- MCCloses
  Wicks <- MCWicks
  MaxSteps = 6
  MaxBars = 5
INVARIANTS TypeOK NoLookAhead CashIsFree DustBelowLot ChasesDown
PROPERTIES FillsAreLater CyclesGain
\* After the last bar run_backtest returns.
CHECK_DEADLOCK FALSE
