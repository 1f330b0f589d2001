SPECIFICATION Spec
CONSTANTS
  Width = 4
  Subnet <- TheSubnet
  Node <- Nodes
  Database <- Databases
  RouteTable <- RouteTables
  Rank <- Ranks
  StaticConfig <- Config
  ConfigGateway <- NoGateways
  Gateway = {0, 9}
  Movable = {8}
  HostPacket <- FromHosts
  MaxSent = 1
INVARIANTS IInv HopsBounded NoErrorsAboutErrors AgreedRoutesDeliver LongestPrefixWins
CHECK_DEADLOCK FALSE
