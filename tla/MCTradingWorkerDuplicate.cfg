SPECIFICATION Spec
CONSTANTS
  w1 = w1
  w2 = w2
  btc = btc
  Workers = {w1, w2}
  Instruments = {btc}
  Horizons = {"15m"}
  Instrument <- OneInstrument
  Horizon <- OneHorizon
  ExitReasons = {"STOP_LOSS"}
  MaxVector = 2
  MaxMetric = 0
  Capital = 2
  Costs = {1, 2}
  Payouts <- Gain
  MaxOpenPositions = 2
  PredictionCap = 1
INVARIANT OneSignalPerOrder
INVARIANT FillBookedOnce
