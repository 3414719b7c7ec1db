SPECIFICATION Spec
CONSTANTS
  w1 = w1
  w2 = w2
  btc = btc
  Workers = {w1}
  Instruments = {btc}
  Horizons = {"15m"}
  Instrument <- OneInstrument
  Horizon <- OneHorizon
  ExitReasons = {"STOP_LOSS"}
  MaxVector = 3
  MaxMetric = 2
  Capital = 3
  Costs = {1, 2}
  Payouts <- GainOrLoss
  MaxOpenPositions = 2
  PredictionCap = 0
INVARIANT PositionMatchesLedger
INVARIANT OnePositionPerInstrument
INVARIANT FundingOncePerMetric
PROPERTY OpeningKeepsCash
PROPERTY ImplementsAccount
