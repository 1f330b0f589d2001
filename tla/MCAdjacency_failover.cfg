SPECIFICATION Spec
CONSTANTS
  udp = udp
  ipip = ipip
  near = near
  far = far
  udpP = udpP
  ipipP = ipipP
  udpQ = udpQ
  Peer = {near, far}
  Link = {udp, ipip}
  Ipip = {ipip}
  Route = {udpP, ipipP, udpQ}
  LinkOf <- RouteLinks
  PeerOf <- RoutePeers
  MaxWatchers = 2
INVARIANT LinkDeathIsSurvived
CHECK_DEADLOCK FALSE
