----------------------------- MODULE Forwarding -----------------------------
(***************************************************************************)
(* The data plane: what router (vpn/router.go) and conn                    *)
(* (vpn/connection.go) of the nodes do with the packets of the hosts, on   *)
(* routes that the routing protocol changes under them.                    *)
(*                                                                         *)
(* A packet in packets waits in conn.queue of the node p.at, where it has  *)
(* come in by a route that leads to p.from.  Queues keep no order here and *)
(* every link may lose a packet, as Send drops what it cannot write.       *)
(* Handlers run on one goroutine per node: each is a step.                 *)
(***************************************************************************)
EXTENDS StaticRoutes, Routes

CONSTANTS
    Node,          \* the IPv4 addresses of the nodes
    Database,      \* the networks as they may look to a node
    RouteTable,    \* RouteTable[db][n]: the next hops n may compute from db
    Rank,          \* Rank[db][<<n, m>>]: how many nodes are nearer to m than n is
    StaticConfig,  \* StaticConfig[n]: the static routes in the config of n
    ConfigGateway, \* ConfigGateway[n]: the gateway in the config of n, or emptyIPv4
    Gateway,       \* the gateways UpdateGateway may be called with
    Movable,       \* nodes whose gateway is updated while they run
    HostPacket,    \* what hosts send: records [src, dst, ttl]
    MaxSent        \* bound of the packets hosts send

\* flagRouting, flagHopLimit and flagDefault (vpn/connection.go), and the time to
\* live of the packets fillIPHeader makes.
flagRouting == 16
flagHopLimit == 15
flagDefault == 15
replyTTL == 64

\* What calcShortest finds, if no metric is 0 (theorems NextHopsAreFirstSteps and
\* TablesLeadNearer of DijkstraProofs).
ASSUME NodeAssumption ==
    Node \subseteq Address \ {emptyIPv4} /\ \A n \in Node : Covers(Subnet, n)
ASSUME RouteTableAssumption ==
    \A db \in Database : EachHopNearer(Node, RouteTable[db], Rank[db])
ASSUME RankAssumption ==
    \A db \in Database : \A n, m \in Node : Rank[db][<<n, m>>] \in 0 .. flagHopLimit - 1
ASSUME HostPacketAssumption ==
    HostPacket \subseteq [src : Address, dst : Address, ttl : 0 .. 255]
ASSUME GatewayAssumption ==
    Gateway \subseteq Address /\ ConfigGateway \in [Node -> Address]
ASSUME StaticConfigAssumption ==
    \A n \in Node : /\ IsFiniteSet(StaticConfig[n])
                    /\ StaticConfig[n] \subseteq [dst : Network, via : Address]
ASSUME MaxSentAssumption == MaxSent \in Nat

VARIABLES
    shortest,      \* shortest[n]: table.shortest, the next hop to each node
    table,         \* table[n]: router.table
    gateway,       \* gateway[n]: router.gateway
    agreed,        \* the database all nodes have computed their routes from, for
                   \* good; {} before there is one
    packets,       \* the packets that wait in conn.queue of a node
    sent           \* number of packets hosts have sent

vars == <<shortest, table, gateway, agreed, packets, sent>>

\* A packet on its way. errors and hops are history: how many of the ICMP errors
\* it answers were sent by the VPN itself, how often it was forwarded; late: whether
\* the routes were agreed when the host sent it.
Packet == [at : Node, from : Node, flags : 0 .. 255, dst : Address,
           src : Address, ttl : 0 .. 255, errors : Nat, hops : Nat, late : BOOLEAN]

NoRoutes == [dst \in {} |-> dst]
NextHops == {NoRoutes} \cup UNION {RouteTable[db][n] : db \in Database, n \in Node}

StaticTables == UNION {Tables(StaticConfig[n]) : n \in Node}

TypeOK ==
    /\ shortest \in [Node -> NextHops]
    /\ table \in [Node -> StaticTables]
    /\ gateway \in [Node -> Address]
    /\ agreed \in {{}} \cup {{db} : db \in Database}
    /\ packets \subseteq Packet
    /\ sent \in 0 .. MaxSent

\* newRouteTable and newRouter
Init ==
    /\ shortest = [n \in Node |-> NoRoutes]
    /\ table \in [Node -> StaticTables]
    /\ \A n \in Node : table[n] \in Tables(StaticConfig[n])
    /\ gateway = ConfigGateway
    /\ agreed = {}
    /\ packets = {}
    /\ sent = 0

-----------------------------------------------------------------------------
(* The routing protocol and the user *)

\* updateRouteTable: n computes its routes, from what it knows of the network now.
UpdateRoutes(n) ==
    /\ agreed = {}
    /\ \E db \in Database : \E t \in RouteTable[db][n] : shortest' = [shortest EXCEPT ![n] = t]
    /\ UNCHANGED <<table, gateway, agreed, packets, sent>>

\* The network rests for long enough: all nodes have the same database and the
\* routes computed from it.
Agree ==
    /\ agreed = {}
    /\ \E db \in Database :
          /\ \A n \in Node : shortest[n] \in RouteTable[db][n]
          /\ agreed' = {db}
    /\ UNCHANGED <<shortest, table, gateway, packets, sent>>

\* UpdateGateway
UpdateGateway(n) ==
    /\ n \in Movable
    /\ \E ip \in Gateway : gateway' = [gateway EXCEPT ![n] = ip]
    /\ UNCHANGED <<shortest, table, agreed, packets, sent>>

-----------------------------------------------------------------------------
(* conn *)

Routing(flags) == (flags \div flagRouting) % 2 = 1
HopLimit(flags) == flags % 16

\* conn.Send by the route to next: the packet takes the place of those in old.
Send(n, next, p, old) == packets' = (packets \ old) \cup {[p EXCEPT !.at = next, !.from = n]}

\* Mutant: fillIPHeader leaves out the time to live.
TimeExceededUnset(p) ==
    [p EXCEPT !.flags = flagDefault, !.dst = p.src, !.src = p.at, !.ttl = 0,
              !.errors = @ + 1, !.hops = 0]

\* Mutant: the error goes out with what is left of the hop limit.
TimeExceededTired(p) ==
    [p EXCEPT !.dst = p.src, !.src = p.at, !.ttl = replyTTL, !.errors = @ + 1, !.hops = 0]

\* ipv4.TimeExceeded, and the packet Forward sends it in.
TimeExceeded(p) ==
    [p EXCEPT !.flags = flagDefault, !.dst = p.src, !.src = p.at, !.ttl = replyTTL,
              !.errors = @ + 1, !.hops = 0]

\* What Forward makes of a packet it passes on.
Forwarded(p) == [p EXCEPT !.ttl = @ - 1, !.flags = @ - 1, !.hops = @ + 1]

\* Mutant: the packet goes back by the route it came by.
NextHopBack(p, next) == p.from

\* pack.route = route
NextHop(p, next) == next

\* Mutant: off by one.
HopLimitPassed(p) == HopLimit(p.flags) < 1

\* Forward drops a packet that has been forwarded too often.
HopLimitReached(p) == HopLimit(p.flags) <= 1

\* conn.Forward, for the route to next.
Forward(p, next) ==
    \/ /\ HopLimitReached(p)
       /\ packets' = packets \ {p}
    \/ /\ ~HopLimitReached(p)
       /\ p.ttl <= 1
       /\ Send(p.at, p.from, TimeExceeded(p), {p})
    \/ /\ ~HopLimitReached(p)
       /\ p.ttl > 1
       /\ Send(p.at, NextHop(p, next), Forwarded(p), {p})

-----------------------------------------------------------------------------
(* router *)

\* Where forwardFromSocket sends a packet for dst: a static route comes before the
\* gateway, and there may be neither.
Via(n, dst) ==
    IF Covers(Subnet, dst) THEN dst
    ELSE IF Get(table[n], dst) # emptyIPv4 THEN Get(table[n], dst) ELSE gateway[n]

\* forwardFromSocket: the host of n sends a packet that is not for itself.
FromSocket(n) ==
    /\ sent < MaxSent
    /\ \E h \in HostPacket :
          LET via == Via(n, h.dst)
          IN  /\ h.src = n \/ ~Covers(Subnet, h.src)
              /\ h.dst # n
              /\ via # emptyIPv4
              /\ via \in DOMAIN shortest[n]
              /\ Send(n, shortest[n][via],
                      [at |-> n, from |-> n, flags |-> flagDefault, dst |-> via, src |-> h.src,
                       ttl |-> h.ttl, errors |-> 0, hops |-> 0, late |-> agreed # {}], {})
    /\ sent' = sent + 1
    /\ UNCHANGED <<shortest, table, gateway, agreed>>

\* forwardFromConn drops a packet for a node that it has no route to.
NoRoute(p) == Covers(Subnet, p.dst) /\ p.dst # p.at /\ p.dst \notin DOMAIN shortest[p.at]

\* forwardFromConn.  It would take a packet that has the routing flag for one of the
\* routing protocol: see HopsBounded.
FromConn(p) ==
    /\ ~Routing(p.flags)
    /\ \/ /\ p.dst = p.at \/ NoRoute(p) \/ ~Covers(Subnet, p.dst)   \* delivered or dropped
          /\ packets' = packets \ {p}
       \/ /\ p.dst # p.at
          /\ Covers(Subnet, p.dst)
          /\ p.dst \in DOMAIN shortest[p.at]
          /\ Forward(p, shortest[p.at][p.dst])
    /\ UNCHANGED <<shortest, table, gateway, agreed, sent>>

\* The link or a full queue loses a packet.
Lose(p) ==
    /\ packets' = packets \ {p}
    /\ UNCHANGED <<shortest, table, gateway, agreed, sent>>

Next ==
    \/ Agree
    \/ \E n \in Node : UpdateRoutes(n) \/ UpdateGateway(n) \/ FromSocket(n)
    \/ \E p \in packets : FromConn(p) \/ Lose(p)

Spec == Init /\ [][Next]_vars
-----------------------------------------------------------------------------
(* Safety *)

\* However often the routes change under it, no packet crosses more links than the
\* hop limit allows, and counting it down never turns the packet of a host into one
\* that forwardFromConn injects into the routing protocol.
HopsBounded ==
    \A p \in packets : p.hops < flagHopLimit /\ ~Routing(p.flags)

\* An ICMP error of the VPN never has its own time to live exceeded, though Forward
\* does not look at what it answers: the hop limit is always reached first.
NoErrorsAboutErrors == \A p \in packets : p.errors <= 1

\* Once all nodes agree on the network, no packet goes around in a loop or strands,
\* whatever choice among equally short paths each node has made.  (The first node
\* an ICMP error comes to may have no way back to the host it is for.)
AgreedRoutesDeliver ==
    \A p \in packets :
        p.late /\ (p.errors = 0 \/ p.hops > 0) =>
            /\ ~NoRoute(p)
            /\ p.dst \in DOMAIN shortest[p.at] => ~HopLimitReached(p)

\* The next hop of a static route is that of the longest prefix that matches.
LongestPrefixWins ==
    \A n \in Node : \A dst \in Address :
        LET matches == {r \in StaticConfig[n] : Covers(r.dst, dst)}
        IN  IF matches = {}
              THEN Get(table[n], dst) = emptyIPv4
              ELSE \E r \in matches : /\ r.via = Get(table[n], dst)
                                      /\ \A q \in matches : q.dst.len <= r.dst.len

\* The inductive invariant: hop limit and time to live are counted down together,
\* and a late packet has as many hops left as its destination is ranks away.
IInv ==
    /\ TypeOK
    /\ \A db \in agreed : \A n \in Node : shortest[n] \in RouteTable[db][n]
    /\ \A p \in packets :
          /\ p.hops + p.flags = flagHopLimit /\ p.flags > 0
          /\ p.errors <= 1
          /\ p.errors = 1 => p.ttl + p.hops = replyTTL
          /\ p.late => agreed # {}
          /\ p.late /\ (p.errors = 0 \/ p.hops > 0) /\ p.dst # p.at =>
                /\ p.dst \in DOMAIN shortest[p.at]
                /\ \A db \in agreed : Rank[db][<<p.at, p.dst>>] < p.flags
=============================================================================
