SPECIFICATION Spec
CONSTANTS
  Deployments <- Tasks
  Now0 = 1
  Horizon = 3
  BackfillHours = 4
  GapWindow = 2
  ChunkBars = 2
  CandleLag = 1
  BookAge = 1
  BookSkew = 0
  MinCandles = 2
  MaxCandles = 3
  BookWindow = 1
  Divergent <- DivergentBars
  Retention = 1
  BatchSize = 1
  MaxBatches = 2
  MaxQueue = 2
  MaxUpdates = 1
  MaxPolls = 1
  MaxBooks = 2
  MaxFaults = 1
INVARIANT ClosedIsFinal
INVARIANT VectorIsReal
INVARIANT ExpiredBounded
PROPERTY OldStaysClosed
CHECK_DEADLOCK FALSE
