-------------------------- MODULE AdjacencyProofs --------------------------
(***************************************************************************)
(* What holds of Adjacency for every set of peers, links and routes.       *)
(***************************************************************************)
EXTENDS Adjacency, TLAPS

USE RouteAssumption, WatchersAssumption

LEMMA WithRoutesFacts ==
    ASSUME NEW p, NEW routes
    PROVE  /\ DOMAIN WithRoutes(p, routes) = DOMAIN adjacents \cup {p}
           /\ WithRoutes(p, routes)[p] = routes
           /\ \A k \in DOMAIN adjacents \ {p} : WithRoutes(p, routes)[k] = adjacents[k]
  BY DEF WithRoutes

LEMMA WithoutFacts ==
    ASSUME NEW p
    PROVE  /\ DOMAIN Without(p) = DOMAIN adjacents \ {p}
           /\ \A k \in DOMAIN adjacents \ {p} : Without(p)[k] = adjacents[k]
  BY DEF Without

\* What IInv says of the adjacents alone, and of the watchers they have.
Filed(adj, w) ==
    /\ DOMAIN adj \subseteq Peer
    /\ adj = [k \in DOMAIN adj |-> adj[k]]
    /\ \A k \in DOMAIN adj :
          /\ adj[k] # {}
          /\ adj[k] \subseteq Route
          /\ \A r \in adj[k] : PeerOf[r] = k /\ w[r] > 0

LEMMA IInvIsFiled ==
    IInv <=> /\ running \in BOOLEAN
             /\ dead \subseteq Link /\ open \subseteq Link
             /\ inbox \subseteq Route
             /\ silent \subseteq Route
             /\ watchers \in [Route -> 0 .. MaxWatchers]
             /\ table \in Heaps(adjacents)
             /\ Filed(adjacents, watchers)
<1>1. ASSUME Filed(adjacents, watchers), table \in Heaps(adjacents)
      PROVE  /\ DOMAIN table = DOMAIN adjacents
             /\ table \in [DOMAIN table -> SUBSET Route]
             /\ \A p \in DOMAIN table : table[p] # {}
  BY <1>1 DEF Heaps, Filed
<1> QED  BY <1>1 DEF IInv, TypeOK, NoEmptyHeap, Filed

LEMMA InitIInv == Init => IInv
  BY IInvIsFiled DEF Init, Nobody, Filed, Heaps

LEMMA NextIInv == IInv /\ [Next]_vars => IInv'
<1> SUFFICES ASSUME IInv, [Next]_vars
             PROVE  IInv'
  OBVIOUS
<1>1. /\ running \in BOOLEAN /\ dead \subseteq Link /\ open \subseteq Link /\ inbox \subseteq Route
      /\ silent \subseteq Route /\ watchers \in [Route -> 0 .. MaxWatchers]
      /\ table \in Heaps(adjacents) /\ Filed(adjacents, watchers)
  BY IInvIsFiled
<1> DEFINE Rest == /\ running' \in BOOLEAN
                   /\ dead' \subseteq Link /\ open' \subseteq Link
                   /\ inbox' \subseteq Route
                   /\ silent' \subseteq Route
                   /\ watchers' \in [Route -> 0 .. MaxWatchers]
                   /\ table' \in Heaps(adjacents')
<1>0. (IInv <=> /\ running \in BOOLEAN
                /\ dead \subseteq Link /\ open \subseteq Link
                /\ inbox \subseteq Route
                /\ silent \subseteq Route
                /\ watchers \in [Route -> 0 .. MaxWatchers]
                /\ table \in Heaps(adjacents)
                /\ Filed(adjacents, watchers))'
  BY IInvIsFiled, PTL
<1>2. SUFFICES Rest /\ Filed(adjacents', watchers')
  BY <1>0 DEF Heaps, Filed
<1>3. ASSUME NEW r \in Route, Receive(r) \/ Silence(r)
      PROVE  Rest /\ Filed(adjacents', watchers')
  BY <1>1, <1>3 DEF Receive, Silence, links
<1>4. ASSUME NEW l \in Link, SendFails(l) \/ RecvFails(l)
      PROVE  Rest /\ Filed(adjacents', watchers')
  BY <1>1, <1>4 DEF SendFails, RecvFails
<1>5. ASSUME NEW r \in Route, HandleHello(r)
      PROVE  Rest /\ Filed(adjacents', watchers')
  <2> DEFINE p == PeerOf[r]
             routes == {r} \cup (Routes(p) \ silent)
  <2>1. p \in Peer /\ Routes(p) \subseteq Route
    BY <1>1 DEF Routes, Filed
  <2>2. /\ adjacents' = WithRoutes(p, routes)
        /\ watchers' = [watchers EXCEPT ![r] = IF r \notin Routes(p) THEN @ + 1 ELSE @]
        /\ r \notin Routes(p) => watchers[r] < MaxWatchers
    BY <1>5 DEF HandleHello
  <2>3. watchers' \in [Route -> 0 .. MaxWatchers]
    BY <1>1, <2>2
  <2>4. \A k \in Route : watchers'[k] >= watchers[k]
    BY <1>1, <2>2
  <2>5. watchers'[r] > 0
    <3>1. CASE r \in Routes(p)
      BY <1>1, <2>2, <3>1 DEF Routes, Filed
    <3>2. CASE r \notin Routes(p)
      BY <1>1, <2>2, <3>2
    <3> QED  BY <3>1, <3>2
  <2>6. \A k \in routes : PeerOf[k] = p /\ watchers'[k] > 0
    <3>1. \A k \in Routes(p) : k \in Route /\ PeerOf[k] = p /\ watchers[k] > 0
      BY <1>1 DEF Routes, Filed
    <3>2. \A k \in Routes(p) : watchers'[k] > 0
      BY <1>1, <2>3, <2>4, <3>1
    <3> QED  BY <2>5, <3>1, <3>2
  <2>7. Filed(adjacents', watchers')
    <3>1. \A k \in DOMAIN adjacents \ {p} : adjacents'[k] = adjacents[k]
      BY <2>2 DEF WithRoutes
    <3>2. \A k \in DOMAIN adjacents : \A q \in adjacents[k] : PeerOf[q] = k /\ watchers'[q] > 0
      BY <1>1, <2>3, <2>4 DEF Filed
    <3>3. adjacents'[p] = routes /\ DOMAIN adjacents' = DOMAIN adjacents \cup {p}
      BY <2>2, WithRoutesFacts
    <3>4. adjacents' = [k \in DOMAIN adjacents' |-> adjacents'[k]]
      BY <2>2 DEF WithRoutes
    <3> QED  BY <1>1, <2>1, <2>6, <3>1, <3>2, <3>3, <3>4 DEF Filed
  <2>8. Rest
    BY <1>1, <1>5, <2>3 DEF HandleHello, links
  <2> QED  BY <2>7, <2>8
<1>6. ASSUME CheckAdja
      PROVE  Rest /\ Filed(adjacents', watchers')
  <2>1. Rest
    BY <1>1, <1>6 DEF CheckAdja, links
  <2>2. Filed(adjacents', watchers')
    BY <1>1, <1>6 DEF CheckAdja, Filed
  <2> QED  BY <2>1, <2>2
<1>7. ASSUME NEW r \in Route, RemoveRoute(r)
      PROVE  Rest /\ Filed(adjacents', watchers')
  <2> DEFINE p == PeerOf[r]
  <2>1. /\ watchers' = [watchers EXCEPT ![r] = @ - 1]
        /\ watchers[r] > 0
    BY <1>7 DEF RemoveRoute
  <2>2. watchers' \in [Route -> 0 .. MaxWatchers]
    BY <1>1, <2>1
  <2>3. \A k \in Route \ {r} : watchers'[k] = watchers[k]
    BY <1>1, <2>1
  <2>4. Rest
    BY <1>1, <1>7, <2>2 DEF RemoveRoute, links
  <2>5. \A k \in DOMAIN adjacents \ {p} : \A q \in adjacents[k] : PeerOf[q] = k /\ watchers'[q] > 0
    BY <1>1, <2>3 DEF Filed
  <2>6. CASE p \notin DOMAIN adjacents
    <3>1. adjacents' = adjacents
      BY <1>7, <2>6 DEF RemoveRoute
    <3> QED  BY <1>1, <2>4, <2>5, <2>6, <3>1 DEF Filed
  <2>7. CASE p \in DOMAIN adjacents /\ adjacents[p] \subseteq {r}
    <3>1. adjacents' = Without(p)
      BY <1>7, <2>7 DEF RemoveRoute
    <3>2. adjacents' = [k \in DOMAIN adjacents' |-> adjacents'[k]]
      BY <3>1 DEF Without
    <3>3. /\ DOMAIN adjacents' = DOMAIN adjacents \ {p}
          /\ \A k \in DOMAIN adjacents \ {p} : adjacents'[k] = adjacents[k]
      BY <3>1, WithoutFacts
    <3> QED  BY <1>1, <2>4, <2>5, <3>2, <3>3 DEF Filed
  <2>8. CASE p \in DOMAIN adjacents /\ ~(adjacents[p] \subseteq {r})
    <3>1. adjacents' = WithRoutes(p, adjacents[p] \ {r})
      BY <1>7, <2>8 DEF RemoveRoute
    <3>2. adjacents' = [k \in DOMAIN adjacents' |-> adjacents'[k]]
      BY <3>1 DEF WithRoutes
    <3>3. \A q \in adjacents[p] \ {r} : PeerOf[q] = p /\ watchers'[q] > 0
      BY <1>1, <2>3, <2>8 DEF Filed
    <3>4. /\ DOMAIN adjacents' = DOMAIN adjacents
          /\ adjacents'[p] = adjacents[p] \ {r}
          /\ \A k \in DOMAIN adjacents \ {p} : adjacents'[k] = adjacents[k]
      BY <2>8, <3>1, WithRoutesFacts
    <3> QED  BY <1>1, <2>4, <2>5, <2>8, <3>2, <3>3, <3>4 DEF Filed
  <2> QED  BY <2>6, <2>7, <2>8
<1>8. CASE UNCHANGED vars
  BY <1>1, <1>8 DEF vars, links
<1> QED  BY <1>3, <1>4, <1>5, <1>6, <1>7, <1>8 DEF Next

\* The inductive invariant holds of every behaviour.
THEOREM Invariance == Spec => []IInv
  BY InitIInv, NextIInv, PTL DEF Spec

\* No adjacent and no heap of the route table is ever without a route: cut and
\* getAdja never index an empty heap.
THEOREM HeapsAreNotEmpty == Spec => []NoEmptyHeap
<1>1. IInv => NoEmptyHeap
  BY DEF IInv
<1> QED  BY Invariance, <1>1, PTL

\* Every route the data plane can take has a goroutine that waits for its link to die.
THEOREM RoutesAreWatched == Spec => []EveryRouteWatched
<1>1. IInv => EveryRouteWatched
  BY DEF IInv, Heaps, EveryRouteWatched
<1> QED  BY Invariance, <1>1, PTL
=============================================================================
