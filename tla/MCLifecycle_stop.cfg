SPECIFICATION EndingSpec
CONSTANTS
  Link = {l1}
  InCap = 1
  OutCap = 1
  QueueCap = 1
  SocketCap = 1
  Burst = 1
  Platform = {"linux", "android"}
  NoLink = NoLink
INVARIANTS IInv QuietAfterStop
PROPERTIES EndsUnlessStuck StaysBlocked
CHECK_DEADLOCK FALSE
