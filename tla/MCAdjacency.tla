---------------------------- MODULE MCAdjacency ----------------------------
(* An instance of Adjacency for TLC: two peers behind one UDP socket, one   *)
(* of them also behind an IPIP link.                                        *)
EXTENDS Adjacency, TLC

CONSTANTS udp, ipip, near, far, udpP, ipipP, udpQ

RouteLinks == udpP :> udp @@ udpQ :> udp @@ ipipP :> ipip
RoutePeers == udpP :> near @@ udpQ :> far @@ ipipP :> near
============================================================================
