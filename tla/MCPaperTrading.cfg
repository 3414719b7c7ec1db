SPECIFICATION Spec
CONSTANTS
  Scale = 1000
  MaxMarginFraction = 100
  MaxStopRiskFraction = 30
  MaxDailyLossFraction = 20
  MaxDrawdownFraction = 150
  MaxOpenPositions = 3
  MaxLeverage = 20
  MaxMarketAge = 30
  MaxFutureSkew = 1
  MaxSpreadBps = 20
  MinNotional = 1
  FeeRate = 2
  SlippageRate = 1
  FundingBuffer = 1
  TakerFee = 2
  Slippage = 1
  MaintenanceMargin = 5
  Markets <- Scenes
  FundingRates <- Rates
  Predictions <- Forecasts
  Candidates <- Trained
  Horizon = 1
  RoundTripCost = 6
  MinimumEdge = 1
  MaxModelDrawdown = 150
  MinProfitFactor = 1200
  MinActionable = 2
  MinClosed = 2
  MinClosedFraction = 200
  WindowCount = 2
  MinProfitableWindows = 1
  StopDistance = 20
  RewardToRisk = 2
  Capital = 100000
  MaxTrades = 2
  MaxMetrics = 1
INVARIANT EvaluatedAsTraded
INVARIANT CashExplained
INVARIANT LossWithinBudget
INVARIANT DayLossBounded
INVARIANT SizingWithinAUnit
