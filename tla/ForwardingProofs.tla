-------------------------- MODULE ForwardingProofs --------------------------
(***************************************************************************)
(* What holds of Forwarding for every network, all packets of hosts and    *)
(* all changes of routes.                                                  *)
(***************************************************************************)
EXTENDS Forwarding, FiniteSetTheorems, WellFoundedInduction, TLAPS

USE DEF flagRouting, flagHopLimit, flagDefault, replyTTL

\* What IInv says of one packet.
PacketInv(p) ==
    /\ p \in Packet
    /\ p.hops + p.flags = flagHopLimit /\ p.flags > 0
    /\ p.errors <= 1
    /\ p.errors = 1 => p.ttl + p.hops = replyTTL
    /\ p.late => agreed # {}
    /\ p.late /\ (p.errors = 0 \/ p.hops > 0) /\ p.dst # p.at =>
          /\ p.dst \in DOMAIN shortest[p.at]
          /\ \A db \in agreed : Rank[db][<<p.at, p.dst>>] < p.flags

\* And of the routes.
RoutesInv ==
    /\ shortest \in [Node -> NextHops]
    /\ agreed \in {{}} \cup {{db} : db \in Database}
    /\ \A db \in agreed : \A n \in Node : shortest[n] \in RouteTable[db][n]

RestInv ==
    /\ table \in [Node -> StaticTables]
    /\ gateway \in [Node -> Address]
    /\ sent \in 0 .. MaxSent

LEMMA IInvInParts == IInv <=> RoutesInv /\ RestInv /\ \A p \in packets : PacketInv(p)
  BY DEF IInv, TypeOK, RoutesInv, RestInv, PacketInv

\* One step along an agreed route comes nearer, and the next node knows the way on.
LEMMA NextIsNearer ==
    ASSUME RoutesInv, NEW db \in agreed, NEW n \in Node, NEW dst \in DOMAIN shortest[n]
    PROVE  /\ dst \in Node /\ dst # n /\ shortest[n][dst] \in Node
           /\ Rank[db][<<n, dst>>] \in 0 .. flagHopLimit - 1
           /\ Rank[db][<<shortest[n][dst], dst>>] \in 0 .. flagHopLimit - 1
           /\ Rank[db][<<shortest[n][dst], dst>>] < Rank[db][<<n, dst>>]
           /\ dst # shortest[n][dst] => dst \in DOMAIN shortest[shortest[n][dst]]
<1>1. db \in Database /\ shortest[n] \in RouteTable[db][n]
  BY DEF RoutesInv
<1>2. /\ dst \in Node /\ dst # n /\ shortest[n][dst] \in Node
      /\ Rank[db][<<shortest[n][dst], dst>>] < Rank[db][<<n, dst>>]
      /\ shortest[n][dst] # dst =>
            \A t \in RouteTable[db][shortest[n][dst]] : dst \in DOMAIN t
  BY <1>1, RouteTableAssumption DEF EachHopNearer
<1>3. shortest[shortest[n][dst]] \in RouteTable[db][shortest[n][dst]]
  BY <1>2 DEF RoutesInv
<1> QED  BY <1>1, <1>2, <1>3, RankAssumption

\* Whatever the next hops are, they are nodes.
LEMMA NextIsNode ==
    ASSUME RoutesInv, NEW n \in Node, NEW dst \in DOMAIN shortest[n]
    PROVE  dst \in Node /\ shortest[n][dst] \in Node
<1>1. shortest[n] \in NextHops /\ shortest[n] # NoRoutes
  BY DEF RoutesInv, NoRoutes
<1>2. PICK db \in Database, m \in Node : shortest[n] \in RouteTable[db][m]
  BY <1>1 DEF NextHops
<1> QED  BY <1>2, RouteTableAssumption DEF EachHopNearer

LEMMA InitIInv == Init => IInv
<1> SUFFICES ASSUME Init
             PROVE  RoutesInv /\ RestInv /\ \A p \in packets : PacketInv(p)
  BY IInvInParts
<1> QED  BY GatewayAssumption, MaxSentAssumption DEF Init, RoutesInv, RestInv, NextHops

\* What Send puts into the queue of the next node.
Moved(q, p, next) ==
    /\ q \in Packet /\ q.at = next
    /\ q.flags = p.flags /\ q.dst = p.dst /\ q.ttl = p.ttl
    /\ q.errors = p.errors /\ q.hops = p.hops /\ q.late = p.late

LEMMA OnItsWay ==
    ASSUME NEW p \in Packet, NEW n \in Node, NEW next \in Node
    PROVE  Moved([p EXCEPT !.at = next, !.from = n], p, next)
  BY DEF Packet, Moved

\* A packet that a host sends, on its way by a route of n.
LEMMA SentPacket ==
    ASSUME RoutesInv, NEW n \in Node, NEW via \in DOMAIN shortest[n],
           NEW p \in Packet, p.flags = flagDefault, p.dst = via, p.errors = 0, p.hops = 0,
           p.late => agreed # {}
    PROVE  PacketInv([p EXCEPT !.at = shortest[n][via], !.from = n])
<1> DEFINE q == [p EXCEPT !.at = shortest[n][via], !.from = n]
<1>1. via \in Node /\ shortest[n][via] \in Node
  BY NextIsNode
<1>0. Moved(q, p, shortest[n][via])
  BY <1>1, OnItsWay
<1> HIDE DEF q
<1>2. /\ q \in Packet /\ q.at = shortest[n][via] /\ q.dst = via /\ q.flags = flagDefault
      /\ q.errors = 0 /\ q.hops = 0 /\ (q.late => agreed # {})
  BY <1>0 DEF Moved
<1>3. ASSUME q.late, q.dst # q.at
      PROVE  /\ q.dst \in DOMAIN shortest[q.at]
             /\ \A db \in agreed : Rank[db][<<q.at, q.dst>>] < q.flags
  <2>1. PICK db \in Database : agreed = {db}
    BY <1>2, <1>3 DEF RoutesInv
  <2>2. /\ via # shortest[n][via] => via \in DOMAIN shortest[shortest[n][via]]
        /\ Rank[db][<<n, via>>] \in 0 .. flagHopLimit - 1
        /\ Rank[db][<<shortest[n][via], via>>] \in 0 .. flagHopLimit - 1
        /\ Rank[db][<<shortest[n][via], via>>] < Rank[db][<<n, via>>]
    BY <2>1, NextIsNearer
  <2> QED  BY <1>2, <1>3, <2>1, <2>2
<1>4. PacketInv(q)
  BY <1>2, <1>3 DEF PacketInv
<1> QED  BY <1>4 DEF q

\* A packet that is passed on: one hop more, one rank nearer at least.
LEMMA ForwardedPacket ==
    ASSUME RoutesInv, NEW p, PacketInv(p), p.dst \in DOMAIN shortest[p.at],
           ~HopLimitReached(p), p.ttl > 1
    PROVE  PacketInv([Forwarded(p) EXCEPT !.at = shortest[p.at][p.dst], !.from = p.at])
<1> DEFINE next == shortest[p.at][p.dst]
           q == [Forwarded(p) EXCEPT !.at = next, !.from = p.at]
<1>1. p \in Packet /\ p.at \in Node /\ next \in Node /\ p.dst \in Node
  BY NextIsNode DEF PacketInv, Packet
<1>2. p.flags \in 2 .. flagHopLimit /\ p.hops \in Nat /\ p.ttl \in 2 .. 255 /\ p.errors \in 0 .. 1
  <2>1. p.flags \in 1 .. flagHopLimit /\ p.hops \in Nat /\ p.ttl \in 0 .. 255 /\ p.errors \in 0 .. 1
    BY <1>1 DEF PacketInv, Packet
  <2> QED  BY <2>1 DEF HopLimitReached, HopLimit
<1>3. /\ q.at = next /\ q.flags = p.flags - 1 /\ q.dst = p.dst
      /\ q.ttl = p.ttl - 1 /\ q.errors = p.errors /\ q.hops = p.hops + 1 /\ q.late = p.late
      /\ q \in Packet
  <2> DEFINE r == Forwarded(p)
  <2>1. r = [p EXCEPT !.ttl = p.ttl - 1, !.flags = p.flags - 1, !.hops = p.hops + 1]
    BY DEF Forwarded
  <2>2. p.flags - 1 \in 0 .. 255 /\ p.ttl - 1 \in 0 .. 255 /\ p.hops + 1 \in Nat
    BY <1>2
  <2> HIDE DEF r
  <2>3. /\ r \in Packet /\ r.flags = p.flags - 1 /\ r.dst = p.dst /\ r.ttl = p.ttl - 1
        /\ r.errors = p.errors /\ r.hops = p.hops + 1 /\ r.late = p.late
    BY <1>1, <2>1, <2>2 DEF Packet
  <2>4. Moved([r EXCEPT !.at = next, !.from = p.at], r, next)
    BY <1>1, <2>3, OnItsWay
  <2>5. Moved(q, r, next)
    BY <2>4 DEF r
  <2> HIDE DEF q, next
  <2> QED  BY <2>3, <2>5 DEF Moved
<1>4. ASSUME q.late, q.dst # q.at
      PROVE  /\ q.dst \in DOMAIN shortest[q.at]
             /\ \A db \in agreed : Rank[db][<<q.at, q.dst>>] < q.flags
  <2>1. PICK db \in Database : agreed = {db}
    BY <1>3, <1>4 DEF RoutesInv, PacketInv
  <2>2. /\ Rank[db][<<p.at, p.dst>>] \in 0 .. flagHopLimit - 1
        /\ Rank[db][<<next, p.dst>>] \in 0 .. flagHopLimit - 1
        /\ Rank[db][<<next, p.dst>>] < Rank[db][<<p.at, p.dst>>]
        /\ p.dst # next => p.dst \in DOMAIN shortest[next]
        /\ p.dst # p.at
    BY <1>1, <2>1, NextIsNearer
  <2>3. Rank[db][<<p.at, p.dst>>] < p.flags
    <3>1. CASE p.errors = 0 \/ p.hops > 0
      BY <1>3, <1>4, <2>1, <2>2, <3>1 DEF PacketInv
    <3>2. CASE p.hops = 0
      BY <1>2, <2>2, <3>2 DEF PacketInv
    <3> QED  BY <1>2, <3>1, <3>2
  <2> QED  BY <1>2, <1>3, <1>4, <2>1, <2>2, <2>3
<1> HIDE DEF q
<1>5. /\ q.hops + q.flags = flagHopLimit /\ q.flags > 0 /\ q.errors <= 1
      /\ q.errors = 1 => q.ttl + q.hops = replyTTL
      /\ q.late => agreed # {}
  BY <1>2, <1>3 DEF PacketInv
<1>6. PacketInv(q)
  BY <1>3, <1>4, <1>5 DEF PacketInv
<1> QED  BY <1>6 DEF q

\* The packet of an ICMP error.
Answers(r, p) ==
    /\ r \in Packet /\ r.flags = flagDefault /\ r.hops = 0 /\ r.ttl = replyTTL
    /\ r.errors = p.errors + 1 /\ r.late = p.late

LEMMA Answer ==
    ASSUME NEW p \in Packet, NEW r, p.src \in Address, p.at \in Address, p.errors \in Nat,
           r = [p EXCEPT !.flags = flagDefault, !.dst = p.src, !.src = p.at, !.ttl = replyTTL,
                         !.errors = p.errors + 1, !.hops = 0]
    PROVE  Answers(r, p)
<1> DEFINE p1 == [p EXCEPT !.flags = flagDefault]
           p2 == [p1 EXCEPT !.dst = p.src]
           p3 == [p2 EXCEPT !.src = p.at]
           p4 == [p3 EXCEPT !.ttl = replyTTL]
           p5 == [p4 EXCEPT !.errors = p.errors + 1]
           p6 == [p5 EXCEPT !.hops = 0]
<1>1. r = p6
  BY DEF Packet
<1>2. r \in Packet
  <2>1. p1 \in Packet
    BY DEF Packet
  <2> HIDE DEF p1
  <2>2. p2 \in Packet
    BY <2>1 DEF Packet
  <2> HIDE DEF p2
  <2>3. p3 \in Packet
    BY <2>2 DEF Packet
  <2> HIDE DEF p3
  <2>4. p4 \in Packet
    BY <2>3 DEF Packet
  <2> HIDE DEF p4
  <2>5. p.errors + 1 \in Nat
    OBVIOUS
  <2>6. p5 \in Packet
    BY <2>4, <2>5 DEF Packet
  <2> HIDE DEF p5
  <2>7. p6 \in Packet
    BY <2>6 DEF Packet
  <2> HIDE DEF p6
  <2> QED  BY <1>1, <2>7
<1>3. /\ r.flags = flagDefault /\ r.hops = 0 /\ r.ttl = replyTTL
      /\ r.errors = p.errors + 1 /\ r.late = p.late
  BY DEF Packet
<1> QED  BY <1>2, <1>3 DEF Answers

\* Only the packet of a host can have its time to live exceeded.
LEMMA ErrorPacket ==
    ASSUME RoutesInv, NEW p, PacketInv(p), p.ttl <= 1
    PROVE  PacketInv([TimeExceeded(p) EXCEPT !.at = p.from, !.from = p.at])
<1> DEFINE q == [TimeExceeded(p) EXCEPT !.at = p.from, !.from = p.at]
<1>1. /\ p \in Packet /\ p.at \in Node /\ p.from \in Node /\ p.src \in Address /\ p.at \in Address
      /\ p.hops \in Nat /\ p.flags \in Nat /\ p.ttl \in Nat /\ p.errors \in Nat
  BY NodeAssumption DEF PacketInv, Packet
<1>2. p.errors = 0
  BY <1>1 DEF PacketInv
<1>3. /\ q.flags = flagDefault /\ q.hops = 0 /\ q.ttl = replyTTL /\ q.errors = 1
      /\ q.late = p.late /\ q \in Packet
  <2> DEFINE r == TimeExceeded(p)
  <2>1. r = [p EXCEPT !.flags = flagDefault, !.dst = p.src, !.src = p.at, !.ttl = replyTTL,
                      !.errors = p.errors + 1, !.hops = 0]
    BY DEF TimeExceeded
  <2> HIDE DEF r
  <2>2. Answers(r, p)
    BY <1>1, <1>2, <2>1, Answer
  <2>3. r \in Packet
    BY <2>2 DEF Answers
  <2>4. Moved([r EXCEPT !.at = p.from, !.from = p.at], r, p.from)
    BY <1>1, <2>3, OnItsWay
  <2>5. Moved(q, r, p.from)
    BY <2>4 DEF r
  <2> HIDE DEF q
  <2> QED  BY <1>1, <1>2, <2>2, <2>5 DEF Moved, Answers
<1> HIDE DEF q
<1>4. PacketInv(q)
  BY <1>3 DEF PacketInv
<1> QED  BY <1>4 DEF q

\* The routes and packets stay as they are when only other things change.
LEMMA PacketInvStable ==
    ASSUME NEW p, PacketInv(p), UNCHANGED <<shortest, agreed>>
    PROVE  PacketInv(p)'
  BY DEF PacketInv

LEMMA NextIInv == IInv /\ [Next]_vars => IInv'
<1> SUFFICES ASSUME RoutesInv, RestInv, \A p \in packets : PacketInv(p), [Next]_vars
             PROVE  RoutesInv' /\ RestInv' /\ \A p \in packets' : PacketInv(p)'
  <2>1. (IInv <=> RoutesInv /\ RestInv /\ \A p \in packets : PacketInv(p))'
    BY IInvInParts, PTL
  <2> QED  BY <2>1, IInvInParts
<1>1. CASE Agree
  <2>1. RestInv'
    BY <1>1 DEF Agree, RestInv
  <2>2. RoutesInv'
    BY <1>1 DEF Agree, RoutesInv
  <2>3. \A p \in packets' : PacketInv(p)'
    BY <1>1 DEF Agree, PacketInv
  <2> QED  BY <2>1, <2>2, <2>3
<1>2. ASSUME NEW n \in Node, UpdateRoutes(n)
      PROVE  RoutesInv' /\ RestInv' /\ \A p \in packets' : PacketInv(p)'
  <2>1. RestInv'
    BY <1>2 DEF UpdateRoutes, RestInv
  <2>2. RoutesInv'
    BY <1>2 DEF UpdateRoutes, RoutesInv, NextHops
  <2>3. \A p \in packets' : PacketInv(p)'
    BY <1>2 DEF UpdateRoutes, PacketInv
  <2> QED  BY <2>1, <2>2, <2>3
<1>3. ASSUME NEW n \in Node, UpdateGateway(n)
      PROVE  RoutesInv' /\ RestInv' /\ \A p \in packets' : PacketInv(p)'
  <2>1. RestInv'
    BY <1>3, GatewayAssumption DEF UpdateGateway, RestInv
  <2>2. RoutesInv'
    BY <1>3 DEF UpdateGateway, RoutesInv
  <2> QED  BY <1>3, <2>1, <2>2, PacketInvStable DEF UpdateGateway
<1>4. ASSUME NEW n \in Node, FromSocket(n)
      PROVE  RoutesInv' /\ RestInv' /\ \A p \in packets' : PacketInv(p)'
  <2>1. RestInv'
    BY <1>4, MaxSentAssumption DEF FromSocket, RestInv
  <2>2. RoutesInv' /\ UNCHANGED <<shortest, agreed>>
    BY <1>4, SMTT(30) DEF FromSocket, RoutesInv
  <2> DEFINE Sent(h, via) ==
                [at |-> n, from |-> n, flags |-> flagDefault, dst |-> via, src |-> h.src,
                 ttl |-> h.ttl, errors |-> 0, hops |-> 0, late |-> agreed # {}]
  <2>3. PICK h \in HostPacket, via \in DOMAIN shortest[n] :
            packets' = (packets \ {}) \cup {[Sent(h, via) EXCEPT !.at = shortest[n][via], !.from = n]}
    BY <1>4 DEF FromSocket, Send
  <2> DEFINE p == Sent(h, via)
  <2>4. /\ p \in Packet /\ p.flags = flagDefault /\ p.dst = via /\ p.errors = 0 /\ p.hops = 0
        /\ p.late => agreed # {}
    <3>1. h.src \in Address /\ h.ttl \in 0 .. 255 /\ via \in Address
      BY NodeAssumption, HostPacketAssumption, NextIsNode
    <3>2. (agreed # {}) \in BOOLEAN
      OBVIOUS
    <3>3. p \in Packet
      BY <3>1, <3>2 DEF Packet
    <3> QED  BY <3>3
  <2> HIDE DEF p
  <2>5. PacketInv([p EXCEPT !.at = shortest[n][via], !.from = n])
    BY <2>4, SentPacket
  <2>6. packets' = packets \cup {[p EXCEPT !.at = shortest[n][via], !.from = n]}
    BY <2>3 DEF p
  <2> QED  BY <2>1, <2>2, <2>5, <2>6, PacketInvStable
<1>5. ASSUME NEW p \in packets, FromConn(p) \/ Lose(p)
      PROVE  RoutesInv' /\ RestInv' /\ \A q \in packets' : PacketInv(q)'
  <2>1. RestInv'
    BY <1>5 DEF FromConn, Lose, RestInv
  <2>2. RoutesInv' /\ UNCHANGED <<shortest, agreed>>
    BY <1>5 DEF FromConn, Lose, RoutesInv
  <2>3. CASE packets' = packets \ {p}
    BY <2>1, <2>2, <2>3, PacketInvStable
  <2>4. CASE /\ p.dst \in DOMAIN shortest[p.at]
             /\ ~HopLimitReached(p)
             /\ p.ttl <= 1
             /\ Send(p.at, p.from, TimeExceeded(p), {p})
    <3> DEFINE q == [TimeExceeded(p) EXCEPT !.at = p.from, !.from = p.at]
    <3>1. packets' = (packets \ {p}) \cup {q}
      BY <2>4 DEF Send
    <3>2. PacketInv(q)
      BY <2>4, ErrorPacket
    <3> HIDE DEF q
    <3> QED  BY <2>1, <2>2, <3>1, <3>2, PacketInvStable
  <2>5. CASE /\ p.dst \in DOMAIN shortest[p.at]
             /\ ~HopLimitReached(p)
             /\ p.ttl > 1
             /\ Send(p.at, NextHop(p, shortest[p.at][p.dst]), Forwarded(p), {p})
    <3> DEFINE q == [Forwarded(p) EXCEPT !.at = shortest[p.at][p.dst], !.from = p.at]
    <3>1. packets' = (packets \ {p}) \cup {q}
      BY <2>5 DEF Send, NextHop
    <3>2. PacketInv(q)
      BY <2>5, ForwardedPacket
    <3> HIDE DEF q
    <3> QED  BY <2>1, <2>2, <3>1, <3>2, PacketInvStable
  <2> QED  BY <1>5, <2>3, <2>4, <2>5 DEF FromConn, Lose, Forward
<1>6. CASE UNCHANGED vars
  <2>1. RoutesInv' /\ RestInv'
    BY <1>6 DEF vars, RoutesInv, RestInv
  <2> QED  BY <1>6, <2>1, PacketInvStable DEF vars
<1> QED  BY <1>1, <1>2, <1>3, <1>4, <1>5, <1>6 DEF Next

\* Hop limit and time to live are counted down together, and agreed routes lead
\* nearer with every hop: for every network, all packets and all changes of routes.
THEOREM Invariance == Spec => []IInv
<1>1. Init => IInv
  BY InitIInv
<1>2. IInv /\ [Next]_vars => IInv'
  BY NextIInv
<1> QED  BY <1>1, <1>2, PTL DEF Spec

\* No packet crosses more links than the hop limit, or gets the routing flag.
THEOREM HopsAreBounded == Spec => []HopsBounded
<1>1. ASSUME IInv, NEW p \in packets
      PROVE  p.hops < flagHopLimit /\ ~Routing(p.flags)
  <2>1. p.flags \in 1 .. flagHopLimit /\ p.hops \in Nat /\ p.hops + p.flags = flagHopLimit
    <3>1. PacketInv(p)
      BY <1>1, IInvInParts
    <3>2. p.flags \in Nat /\ p.hops \in Nat
      BY <3>1 DEF PacketInv, Packet
    <3> QED  BY <3>1, <3>2 DEF PacketInv
  <2> QED  BY <2>1 DEF Routing
<1>2. IInv => HopsBounded
  BY <1>1 DEF HopsBounded
<1> QED  BY <1>2, Invariance, PTL

\* No ICMP error of the VPN is answered with another one.
THEOREM ErrorsEnd == Spec => []NoErrorsAboutErrors
<1>1. IInv => NoErrorsAboutErrors
  BY DEF IInv, NoErrorsAboutErrors
<1> QED  BY <1>1, Invariance, PTL

\* Once the nodes agree on a network of at most fifteen nodes on any way, no packet
\* that is sent from then on is dropped for its hop limit or for lack of a route.
THEOREM AgreedRoutesAreLoopFree == Spec => []AgreedRoutesDeliver
<1>1. ASSUME IInv, NEW p \in packets, p.late, p.errors = 0 \/ p.hops > 0
      PROVE  ~NoRoute(p) /\ (p.dst \in DOMAIN shortest[p.at] => ~HopLimitReached(p))
  <2>1. RoutesInv /\ PacketInv(p)
    BY <1>1, IInvInParts
  <2>2. PICK db \in Database : agreed = {db}
    BY <1>1, <2>1 DEF RoutesInv, PacketInv
  <2>3. ~NoRoute(p)
    BY <1>1, <2>1 DEF NoRoute, PacketInv
  <2>4. ASSUME p.dst \in DOMAIN shortest[p.at]
        PROVE  ~HopLimitReached(p)
    <3>1. p.at \in Node /\ p.flags \in 1 .. flagHopLimit
      BY <2>1 DEF PacketInv, Packet
    <3>2. /\ p.dst # p.at
          /\ Rank[db][<<p.at, p.dst>>] \in 0 .. flagHopLimit - 1
          /\ Rank[db][<<shortest[p.at][p.dst], p.dst>>] \in 0 .. flagHopLimit - 1
          /\ Rank[db][<<shortest[p.at][p.dst], p.dst>>] < Rank[db][<<p.at, p.dst>>]
      BY <2>1, <2>2, <2>4, <3>1, NextIsNearer
    <3>3. Rank[db][<<p.at, p.dst>>] < p.flags
      BY <1>1, <2>1, <2>2, <3>2 DEF PacketInv
    <3>4. p.flags \in 2 .. flagHopLimit
      BY <3>1, <3>2, <3>3
    <3> QED  BY <3>4 DEF HopLimitReached, HopLimit
  <2> QED  BY <2>3, <2>4
<1>2. IInv => AgreedRoutesDeliver
  BY <1>1 DEF AgreedRoutesDeliver
<1> QED  BY <1>2, Invariance, PTL

-----------------------------------------------------------------------------
(* The static routes *)

LessThan == {p \in Nat \X Nat : p[1] < p[2]}

\* A set of numbers that is not empty has a least one.
LEMMA MinIsLeast ==
    ASSUME NEW S, S \subseteq Nat, S # {}
    PROVE  Min(S) \in S /\ \A y \in S : Min(S) <= y
<1>1. IsWellFoundedOn(LessThan, Nat)
  <2>1. LessThan = OpToRel(<, Nat)
    BY Zenon DEF LessThan, OpToRel
  <2> QED  BY <2>1, NatLessThanWellFounded, Zenon
<1>2. PICK x \in S : \A y \in S : ~(<<y, x>> \in LessThan)
  BY <1>1, WFMin
<1>3. \A y \in S : x <= y
  <2>1. ASSUME NEW y \in S, y < x PROVE FALSE
    <3>1. <<y, x>> \in Nat \X Nat /\ <<y, x>>[1] < <<y, x>>[2]
      BY <2>1
    <3>2. <<y, x>> \in LessThan
      BY ONLY <3>1 DEF LessThan
    <3> QED  BY <1>2, <3>2
  <2> QED  BY <2>1
<1> QED  BY <1>3 DEF Min

\* A table has each route of the config somewhere, and no other.
LEMMA TableIsConfig ==
    ASSUME NEW S, IsFiniteSet(S), NEW t \in Tables(S)
    PROVE  /\ DOMAIN t \subseteq Nat
           /\ \A i \in DOMAIN t : t[i] \in S
           /\ \A r \in S : \E i \in DOMAIN t : t[i] = r
<1> DEFINE D == 1 .. Cardinality(S)
<1>1. Cardinality(S) \in Nat
  BY FS_CardinalityType
<1>2. t \in [D -> S] /\ \A i, j \in D : i # j => t[i] # t[j]
  BY DEF Tables, SetToSeqs
<1>3. t \in Injection(D, S)
  BY <1>2 DEF Injection, IsInjective
<1>4. Cardinality(D) = Cardinality(S)
  BY <1>1, FS_Interval
<1>5. t \in Surjection(D, S)
  BY <1>3, <1>4, FS_Injection
<1> QED  BY <1>1, <1>2, <1>5 DEF Surjection

\* The first match of a table is one of the longest prefixes that match.
LEMMA FirstIsLongest ==
    ASSUME NEW S, IsFiniteSet(S), S \subseteq [dst : Network, via : Address],
           NEW t \in Tables(S), NEW dst \in Address,
           NEW M, M = {r \in S : Covers(r.dst, dst)}
    PROVE  /\ M = {} => Get(t, dst) = emptyIPv4
           /\ M # {} => \E r \in M : /\ r.via = Get(t, dst)
                                     /\ \A q \in M : q.dst.len <= r.dst.len
<1> DEFINE hits == {i \in DOMAIN t : Covers(t[i].dst, dst)}
<1>1. /\ DOMAIN t \subseteq Nat
      /\ \A i \in DOMAIN t : t[i] \in S
      /\ \A r \in S : \E i \in DOMAIN t : t[i] = r
  BY TableIsConfig
<1>2. hits = {} <=> M = {}
  BY <1>1
<1>3. Get(t, dst) = IF hits = {} THEN emptyIPv4 ELSE t[Min(hits)].via
  BY DEF Get
<1>4. ASSUME hits # {}
      PROVE  \E r \in M : /\ r.via = Get(t, dst)
                           /\ \A q \in M : q.dst.len <= r.dst.len
  <2> DEFINE i == Min(hits)
  <2>1. i \in hits /\ \A j \in hits : i <= j
    BY <1>1, <1>4, MinIsLeast
  <2> HIDE DEF i
  <2>2. t[i] \in M /\ t[i].via = Get(t, dst)
    BY <1>1, <1>3, <1>4, <2>1 DEF i
  <2>3. ASSUME NEW q \in M PROVE q.dst.len <= t[i].dst.len
    <3>1. PICK j \in hits : t[j] = q
      BY <1>1
    <3>2. i = j \/ i < j
      BY <1>1, <2>1
    <3>3. i < j => ~Less(t[j], t[i])
      BY <2>1 DEF Tables
    <3>4. q.dst.len \in Int /\ t[i].dst.len \in Int /\ Width \in Int
      BY <2>2, SubnetAssumption DEF Network
    <3> QED  BY <3>1, <3>2, <3>3, <3>4 DEF Less, TrailingZeros
  <2> QED  BY <2>2, <2>3
<1> QED  BY <1>2, <1>3, <1>4

\* The tables are those of the configs from the start, and nothing changes them.
LEMMA TablesStay == Spec => [](\A n \in Node : table[n] \in Tables(StaticConfig[n]))
<1> DEFINE Kept == \A n \in Node : table[n] \in Tables(StaticConfig[n])
<1>1. Init => Kept
  BY DEF Init
<1>2. Kept /\ [Next]_vars => Kept'
  <2>1. [Next]_vars => UNCHANGED table
    BY DEF Next, vars, UpdateRoutes, Agree, UpdateGateway, FromSocket, FromConn, Lose
  <2> QED  BY <2>1
<1> QED  BY <1>1, <1>2, PTL DEF Spec

\* The static route a packet takes is one with the longest prefix that matches, in
\* whatever order the routes were configured and the unstable sort has left them.
THEOREM LongestPrefixesWin == Spec => []LongestPrefixWins
<1>1. (\A n \in Node : table[n] \in Tables(StaticConfig[n])) => LongestPrefixWins
  <2> SUFFICES ASSUME NEW n \in Node, table[n] \in Tables(StaticConfig[n]), NEW dst \in Address
               PROVE  LET matches == {r \in StaticConfig[n] : Covers(r.dst, dst)}
                      IN  IF matches = {}
                            THEN Get(table[n], dst) = emptyIPv4
                            ELSE \E r \in matches : /\ r.via = Get(table[n], dst)
                                                    /\ \A q \in matches : q.dst.len <= r.dst.len
    BY DEF LongestPrefixWins
  <2> DEFINE M == {r \in StaticConfig[n] : Covers(r.dst, dst)}
  <2>1. /\ M = {} => Get(table[n], dst) = emptyIPv4
        /\ M # {} => \E r \in M : /\ r.via = Get(table[n], dst)
                                  /\ \A q \in M : q.dst.len <= r.dst.len
    <3>1. /\ IsFiniteSet(StaticConfig[n])
          /\ StaticConfig[n] \subseteq [dst : Network, via : Address]
          /\ M = {r \in StaticConfig[n] : Covers(r.dst, dst)}
      BY StaticConfigAssumption
    <3> HIDE DEF M
    <3> QED  BY <3>1, FirstIsLongest
  <2> QED  BY <2>1
<1> QED  BY <1>1, TablesStay, PTL
=============================================================================
