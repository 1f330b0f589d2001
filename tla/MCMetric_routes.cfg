SPECIFICATION MCSpec
CONSTANTS
  Route = {r1, r2}
  r1 = r1
  r2 = r2
  Rtt <- RoundTrips
  HelloInterval = 3
  Grace = 2
  RouterDeadInterval = 5
  AverageWindow = 2
  UpdateThreshold = 32
  MaxMetric = 26
  Unit = 4
  Word = 4096
  Jitter = 1
  MaxAge = 8
  MaxServed = 4
INVARIANTS IInv LossIsCounted LosslessCostsRtt NoCreep FairShares
PROPERTY LossNeverPays
CHECK_DEADLOCK FALSE
