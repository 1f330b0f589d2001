----------------------------- MODULE Adjacency -----------------------------
(***************************************************************************)
(* The adjacents of one node and the routes that lead to them              *)
(* (ospf/ospf.go, ospf/adjacent.go, ospf/table.go), between the links that *)
(* come and go and the route table the data plane reads.                   *)
(*                                                                         *)
(* Every step but Receive, Silence, SendFails and RecvFails is one iteration of the    *)
(* event loop of ospf.New.  Each route that updateMetric sees for the      *)
(* first time gets a goroutine, here a watcher, that waits for its link to *)
(* die and then hands the dead route to the event loop over an unbuffered  *)
(* channel.  A packet may wait in conn.queue and OSPF.in while its link    *)
(* dies, and a dead link receives until its socket is closed: soon, but    *)
(* for the one IPIP socket of the process, which is closed with the VPN.   *)
(* The metric of a route is abstracted to whether it is maxMetric.         *)
(***************************************************************************)
EXTENDS Integers, FiniteSets

CONSTANTS
    Peer,          \* IPv4 addresses of the other ends of the links
    Link,          \* the UDP and IPIP links, and the TLS connections
    Ipip,          \* the IPIP links
    Route,         \* pairs of a link and an address, see cutevpn.Route
    LinkOf,        \* LinkOf[r]: Route.Link
    PeerOf,        \* PeerOf[r]: the node behind the address of r
    MaxWatchers    \* bound of the watchers of one route

ASSUME RouteAssumption == LinkOf \in [Route -> Link] /\ PeerOf \in [Route -> Peer]
ASSUME IpipAssumption == Ipip \subseteq Link
ASSUME WatchersAssumption == MaxWatchers \in Nat

VARIABLES
    running,       \* FALSE once a handler has dereferenced nil
    dead,          \* the links whose Done() is closed
    open,          \* the links whose loop of conn.AddLink receives
    inbox,         \* the routes by which a hello has come that waits for the event loop
    adjacents,     \* the map ospf.adjacents; adjacents[p]: adjacent.Routes
    silent,        \* the routes not heard of for routerDeadInterval: Value is maxMetric
    table,         \* the map table.adja; table[p]: the routes in the heap
    watchers       \* watchers[r]: goroutines that wait for the death of r's link

links == <<dead, open>>
vars == <<running, links, inbox, adjacents, silent, table, watchers>>

TypeOK ==
    /\ running \in BOOLEAN
    /\ dead \subseteq Link
    /\ open \subseteq Link
    /\ inbox \subseteq Route
    /\ DOMAIN adjacents \subseteq Peer
    /\ adjacents \in [DOMAIN adjacents -> SUBSET Route]
    /\ silent \subseteq Route
    /\ DOMAIN table \subseteq Peer
    /\ table \in [DOMAIN table -> SUBSET Route]
    /\ watchers \in [Route -> 0 .. MaxWatchers]

-----------------------------------------------------------------------------

Nobody == [p \in {} |-> {}]

Init ==
    /\ running = TRUE
    /\ dead = {}
    /\ open = Link
    /\ inbox = {}
    /\ adjacents = Nobody
    /\ silent = {}
    /\ table = Nobody
    /\ watchers = [r \in Route |-> 0]

\* adjacents[p].Routes; newAdjacent has none.
Routes(p) == IF p \in DOMAIN adjacents THEN adjacents[p] ELSE {}

\* adjacents when p has the given routes, which may be none.
WithRoutes(p, routes) ==
    [k \in DOMAIN adjacents \cup {p} |-> IF k = p THEN routes ELSE adjacents[k]]

\* adjacents with p deleted.
Without(p) == [k \in DOMAIN adjacents \ {p} |-> adjacents[k]]

\* What updateRouteTable may make of the adjacents adj: GetRoutes keeps the best
\* route of each and cuts off the ones whose metric is much worse.
Heaps(adj) ==
    {t \in [DOMAIN adj -> SUBSET Route] :
        \A p \in DOMAIN adj : t[p] \subseteq adj[p] /\ (adj[p] # {} => t[p] # {})}

-----------------------------------------------------------------------------
(* Around the event loop *)

\* A hello of the peer comes in by r and gets a place in the queues.
Receive(r) ==
    /\ running
    /\ LinkOf[r] \in open
    /\ inbox' = inbox \cup {r}
    /\ UNCHANGED <<running, links, adjacents, silent, table, watchers>>

\* No hello has come by r for longer than routerDeadInterval.
Silence(r) ==
    /\ running
    /\ r \in Routes(PeerOf[r])
    /\ silent' = silent \cup {r}
    /\ UNCHANGED <<running, links, inbox, adjacents, table, watchers>>

\* conn.Send: Link.Send has failed, and Link.Cancel is called. (A TLS connection cancels
\* itself.)
SendFails(l) ==
    /\ running
    /\ dead' = dead \cup {l}
    /\ UNCHANGED <<running, open, inbox, adjacents, silent, table, watchers>>

\* OnCancel closes the socket of a dead link, but for the socket of IPIP.
Closed(l) == l \in dead /\ l \notin Ipip

\* Link.Recv has failed, of itself or because the socket was closed: Link.Cancel is
\* called and the loop of conn.AddLink ends. Nothing opens a UDP or IPIP link again.
RecvFails(l) ==
    /\ running
    /\ l \in open
    /\ open' = open \ {l}
    /\ dead' = dead \cup {l}
    /\ UNCHANGED <<running, inbox, adjacents, silent, table, watchers>>

-----------------------------------------------------------------------------
(* The event loop *)

\* Mutant: a watcher for every new adjacent, not for every new route.
HandleHelloWatchesPeer(r) ==
    LET p == PeerOf[r]
        new == p \notin DOMAIN adjacents
    IN  /\ running
        /\ r \in inbox
        /\ new => watchers[r] < MaxWatchers
        /\ inbox' = inbox \ {r}
        /\ adjacents' = WithRoutes(p, {r} \cup (Routes(p) \ silent))
        /\ silent' = silent \ ({r} \cup Routes(p))
        /\ table' \in Heaps(adjacents')
        /\ watchers' = [watchers EXCEPT ![r] = IF new THEN @ + 1 ELSE @]
        /\ UNCHANGED <<running, links>>

\* updateMetric: the route by which the hello came is new or gets one more round
\* trip; adjacent.UpdateMetric drops the routes that have fallen silent.
HandleHello(r) ==
    LET p == PeerOf[r]
        new == r \notin Routes(p)
    IN  /\ running
        /\ r \in inbox
        /\ new => watchers[r] < MaxWatchers
        /\ inbox' = inbox \ {r}
        /\ adjacents' = WithRoutes(p, {r} \cup (Routes(p) \ silent))
        /\ silent' = silent \ ({r} \cup Routes(p))
        /\ table' \in Heaps(adjacents')
        /\ watchers' = [watchers EXCEPT ![r] = IF new THEN @ + 1 ELSE @]
        /\ UNCHANGED <<running, links>>

\* checkAdja
CheckAdja ==
    /\ running
    /\ adjacents' = [p \in {k \in DOMAIN adjacents : ~(adjacents[k] \subseteq silent)} |->
                        adjacents[p] \ silent]
    /\ silent' = {}
    /\ table' \in Heaps(adjacents')
    /\ UNCHANGED <<running, links, inbox, watchers>>

\* Mutant: the adjacent is kept when its last route is gone.
RemoveRouteKeepsAdjacent(r) ==
    LET p == PeerOf[r]
    IN  /\ running
        /\ watchers[r] > 0
        /\ LinkOf[r] \in dead
        /\ watchers' = [watchers EXCEPT ![r] = @ - 1]
        /\ adjacents' = IF p \in DOMAIN adjacents
                          THEN WithRoutes(p, adjacents[p] \ {r})
                          ELSE adjacents
        /\ silent' = silent \ {r}
        /\ table' \in Heaps(adjacents')
        /\ UNCHANGED <<running, links, inbox>>

\* Mutant: the watcher does not wait for the event loop to take the dead route.
RemoveRouteOrMissIt(r) ==
    LET p == PeerOf[r]
    IN  /\ running
        /\ watchers[r] > 0
        /\ LinkOf[r] \in dead
        /\ watchers' = [watchers EXCEPT ![r] = @ - 1]
        /\ \/ UNCHANGED adjacents
           \/ adjacents' = IF Routes(p) \subseteq {r} THEN Without(p)
                                                     ELSE WithRoutes(p, Routes(p) \ {r})
        /\ silent' = silent \ {r}
        /\ table' \in Heaps(adjacents')
        /\ UNCHANGED <<running, links, inbox>>

\* removeRoute: dr.adja may be no adjacent any more, then adja is nil and
\* adja.Routes ends the process.
RemoveRoute(r) ==
    LET p == PeerOf[r]
    IN  /\ running
        /\ watchers[r] > 0
        /\ LinkOf[r] \in dead
        /\ watchers' = [watchers EXCEPT ![r] = @ - 1]
        /\ \/ /\ p \notin DOMAIN adjacents
              /\ running' = FALSE
              /\ UNCHANGED <<adjacents, silent, table>>
           \/ /\ p \in DOMAIN adjacents
              /\ adjacents' = IF adjacents[p] \subseteq {r}
                                THEN Without(p)
                                ELSE WithRoutes(p, adjacents[p] \ {r})
              /\ silent' = silent \ {r}
              /\ table' \in Heaps(adjacents')
              /\ UNCHANGED running
        /\ UNCHANGED <<links, inbox>>

Next ==
    \/ CheckAdja
    \/ \E r \in Route : Receive(r) \/ Silence(r) \/ HandleHello(r) \/ RemoveRoute(r)
    \/ \E l \in Link : SendFails(l) \/ RecvFails(l)

Spec == Init /\ [][Next]_vars

-----------------------------------------------------------------------------
(* Safety *)

\* An adjacent has a route: getAdja and cut take routes[0] without a look at the
\* length of the heap.
NoEmptyHeap ==
    /\ \A p \in DOMAIN adjacents : adjacents[p] # {}
    /\ \A p \in DOMAIN table : table[p] # {}

\* The node will hear of the death of every route it uses, also of those that came
\* back after silence, or in a packet that was queued when the link died.
EveryRouteWatched ==
    \A p \in DOMAIN table : \A r \in table[p] : watchers[r] > 0

\* The inductive invariant: the table is what updateRouteTable last made of the
\* adjacents, each route is filed under the node it leads to and is watched.
IInv ==
    /\ TypeOK
    /\ table \in Heaps(adjacents)
    /\ \A p \in DOMAIN adjacents : \A r \in adjacents[p] : PeerOf[r] = p /\ watchers[r] > 0
    /\ NoEmptyHeap

\* Failover: an interrupted link costs the node its routes and nothing else.
LinkDeathIsSurvived == running

-----------------------------------------------------------------------------
(* Liveness *)

(***************************************************************************)
(* The select of the event loop picks among its ready channels at random,  *)
(* so a ready one is not passed over forever; adjaCheckTick fires forever. *)
(* Recv fails on a closed socket.                                          *)
(***************************************************************************)
Fairness ==
    /\ WF_vars(CheckAdja)
    /\ \A r \in Route : WF_vars(HandleHello(r)) /\ WF_vars(RemoveRoute(r))
    /\ \A l \in Link : WF_vars(RecvFails(l) /\ Closed(l))

FairSpec == Spec /\ Fairness

\* The data plane does not use r. (Nor does it use anything after a nil dereference.)
Unused(r) == running /\ PeerOf[r] \in DOMAIN table => r \notin table[PeerOf[r]]

\* Without waiting for the route to fall silent (nothing makes Silence happen),
\* the data plane eventually stops using a route whose link is dead, and for good: a
\* packet that was queued when the link died brings it back once at most. An IPIP link
\* that still receives brings it back with every hello, and it goes again.
DeadRoutesLeave ==
    \A r \in Route :
        /\ LinkOf[r] \in dead ~> Unused(r)
        /\ (Closed(LinkOf[r]) \/ LinkOf[r] \notin open) ~> []Unused(r)
=============================================================================
