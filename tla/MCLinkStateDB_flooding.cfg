SPECIFICATION FloodSpec
CONSTANTS
  a = a
  b = b
  c = c
  Node = {a, b, c}
  Links <- ChainLinks
  Leaf = {c}
  Metric = {m1}
  Crashing = {a}
  MaxClock <- FloodClock
  Forever = 9
  HelloQueue = 1
  QueueSize = 2
  Duplicating = TRUE
  NoMetric = NoMetric
  NoAdja = NoAdja
  NoState = NoState
INVARIANTS IInv NoSelfUpdate AckedIsKnown VersionDeterminesState LeafHidesAdjacents NothingUnpublished QuietMeansAgreement
PROPERTIES NoRollback ImplementsFlooding
CHECK_DEADLOCK FALSE
