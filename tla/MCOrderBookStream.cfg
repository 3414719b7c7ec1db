SPECIFICATION Spec
CONSTANTS
  Prices = {1, 2, 3, 4}
  Depth = 2
  Feeds <- BothFeeds
  MaxSequence = 4
  MaxWire = 3
INVARIANT StoredIsReal
INVARIANT StoredIsComplete
INVARIANT NoFalseAlarm
