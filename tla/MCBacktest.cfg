SPECIFICATION Spec
CONSTANTS
  Scale = 100
  Bars <- Shapes
  Changed <- OtherShape
  Length = 6
  TrainSize = 2
  TestSize = 3
  Plans <- BothPlans
  Strategies <- Baselines
  Capital = 100000
  Fee = 1
  Slip = 1
  MaxExposure = 3
INVARIANT NoLookAhead
INVARIANT TradesExplainCash
INVARIANT OwesAtMostSlippage
CHECK_DEADLOCK FALSE
