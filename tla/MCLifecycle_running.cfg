SPECIFICATION RunningSpec
CONSTANTS
  Link = {l1}
  InCap = 1
  OutCap = 1
  QueueCap = 1
  SocketCap = 1
  Burst = 1
  Platform = {"linux"}
  NoLink = NoLink
PROPERTY NoGridlock
CHECK_DEADLOCK FALSE
