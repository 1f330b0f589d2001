---------------------------- MODULE StaticRoutes ----------------------------
(***************************************************************************)
(* The table of static routes to networks behind other nodes               *)
(* (vpn/table.go).  Addresses are natural numbers of Width bits.           *)
(***************************************************************************)
EXTENDS Integers, SequencesExt, FiniteSetsExt

CONSTANTS
    Width,         \* bits of an address: 32
    Subnet         \* router.ipnet, the network of the VPN

Address == 0 .. 2^Width - 1

\* The zero value of IPv4, which stands for "none".
emptyIPv4 == 0

\* ip & mask, for the mask of a prefix of length len
Masked(ip, len) == ip - (ip % 2^(Width - len))

\* ipv4net, as net.ParseCIDR makes it: the bits outside of the mask are cleared.
Network == {net \in [ip : Address, len : 0 .. Width] : net.ip = Masked(net.ip, net.len)}
Covers(net, ip) == Masked(ip, net.len) = net.ip

ASSUME SubnetAssumption == Width \in Nat /\ Subnet \in Network

\* bits.TrailingZeros32(mask): 32 if the mask is 0.
TrailingZeros(r) == Width - r.dst.len

\* Mutant: the other way around.
LessSwapped(r, s) == TrailingZeros(s) < TrailingZeros(r)

\* routeTable.Less
Less(r, s) == TrailingZeros(r) < TrailingZeros(s)

\* parseRouteTable: the tables it may make of the routes of a config, as sort.Sort
\* is not stable.  There is none, and no node, if a next hop is outside of Subnet.
Tables(routes) ==
    {t \in SetToSeqs(routes) :
        /\ \A i \in DOMAIN t : Covers(Subnet, t[i].via)
        /\ \A i, j \in DOMAIN t : i < j => ~Less(t[j], t[i])}

\* routeTable.Get: the first route that matches.
Get(table, dst) ==
    LET hits == {i \in DOMAIN table : Covers(table[i].dst, dst)}
    IN  IF hits = {} THEN emptyIPv4 ELSE table[Min(hits)].via
=============================================================================
