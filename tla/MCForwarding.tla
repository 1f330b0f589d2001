---------------------------- MODULE MCForwarding ----------------------------
(* Four nodes for Forwarding, with addresses of four bits: 8 .. 15 are the  *)
(* subnet.  RouteTable and Rank are what Dijkstra is proved to compute.      *)
EXTENDS Forwarding, FiniteSetsExt, TLC

Nodes == {8, 9, 10, 11}
TheSubnet == [ip |-> 8, len |-> 1]

Both(links) == links @@ [l \in {<<k[2], k[1]>> : k \in DOMAIN links} |-> links[<<l[2], l[1]>>]]

\* A line of four with two equally short ways from 8 to 10, and the network without
\* one of its links.  Nodes that disagree send packets around 8 and 9, or 9 and 10.
Links == <<8, 9>> :> 1 @@ <<9, 10>> :> 1 @@ <<8, 10>> :> 2 @@ <<10, 11>> :> 1
Without(link) == [l \in DOMAIN Links \ {link} |-> Links[l]]
Metrics == <<Both(Links), Both(Without(<<8, 9>>)), Both(Without(<<9, 10>>))>>
Databases == DOMAIN Metrics

\* The link states of all nodes.
LinkStates ==
    [db \in Databases |-> [n \in Nodes |->
        [m \in {k \in Nodes : <<n, k>> \in DOMAIN Metrics[db]} |-> Metrics[db][<<n, m>>]]]]

\* TLC computes a definition once and for all unless it stands for a constant.
RanksIn ==
    [db \in Databases |-> [p \in Nodes \X Nodes |-> RankIn(LinkStates[db], p[1], p[2])]]
Ranks == RanksIn

TablesFrom ==
    [db \in Databases |-> [n \in Nodes |-> {t : t \in ShortestTables(LinkStates[db], n)}]]
RouteTables == TablesFrom

To(ip, len, via) == [dst |-> [ip |-> ip, len |-> len], via |-> via]

\* 8 reaches 1 by 9, 2 by 8, which is itself, and 3 by 9 or 10, as the sort leaves them.
StaticRoutesOf8 == {To(0, 2, 9), To(2, 3, 10), To(2, 3, 9), To(2, 4, 8)}
Config == [n \in Nodes |-> IF n = 8 THEN StaticRoutesOf8 ELSE {}]

NoGateways == [n \in Nodes |-> emptyIPv4]

\* Packets that outlive the hop limit and packets that do not; 1, 3 and 5 are
\* outside, nobody has the address 12.
FromHosts ==
    [src : {8}, dst : {11}, ttl : {2, 255}] \cup [src : {11}, dst : {8}, ttl : {3}] \cup
    [src : {8}, dst : {1, 3, 5}, ttl : {64}] \cup [src : {5}, dst : {11, 12}, ttl : {1}]
=============================================================================
