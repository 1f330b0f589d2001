SPECIFICATION FairSpec
CONSTANTS
  udp = udp
  ipip = ipip
  near = near
  far = far
  udpP = udpP
  ipipP = ipipP
  udpQ = udpQ
  Peer = {near, far}
  Link = {udp, ipip}
  Ipip = {ipip}
  Route = {udpP, ipipP, udpQ}
  LinkOf <- RouteLinks
  PeerOf <- RoutePeers
  MaxWatchers = 2
INVARIANTS IInv NoEmptyHeap EveryRouteWatched
PROPERTY DeadRoutesLeave
CHECK_DEADLOCK FALSE
