SPECIFICATION FairSpec
CONSTANTS
  a = a
  b = b
  c = c
  Node = {a, b}
  Links <- PairLinks
  Leaf = {}
  Metric = {m1}
  Crashing = {a}
  MaxClock <- RestartClock
  Forever = 9
  HelloQueue = 1
  QueueSize = 1
  Duplicating = FALSE
  NoMetric = NoMetric
  NoAdja = NoAdja
  NoState = NoState
PROPERTIES CatchesUp ResendingStops
CHECK_DEADLOCK FALSE
