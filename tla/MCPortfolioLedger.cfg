SPECIFICATION Spec
CONSTANTS
  deposit = deposit
  buy = buy
  sell = sell
  reconcile = reconcile
  btc = btc
  usdt = usdt
  t1 = t1
  t2 = t2
  Messages = {deposit, buy, sell, reconcile}
  Assets = {btc, usdt}
  Command <- Dialogue
  Tasks = {t1, t2}
  MaxDeliveries = 2
INVARIANT RecordedOnce
INVARIANT SavedIsRecorded
INVARIANT NegativeOnlyByRace
INVARIANT SnapshotTaken
CHECK_DEADLOCK FALSE
