------------------------- MODULE LinkStateDBProofs -------------------------
(***************************************************************************)
(* What holds of LinkStateDB for every set of nodes and links, every       *)
(* bound on the clocks and queues, and with or without duplication.        *)
(***************************************************************************)
EXTENDS LinkStateDB, TLAPS

USE LinksAssumption, ClockAssumption, AbsentAssumption

-----------------------------------------------------------------------------
(* The network *)

\* What Send leaves in flight is what was in flight and some of the packets.
LEMMA SendBounds ==
    ASSUME NEW net, NEW packets, NEW size, NEW after \in Send(net, packets, size)
    PROVE  net \subseteq after /\ after \subseteq net \cup packets
  BY DEF Send

\* Consuming a packet adds none.
LEMMA ConsumeBounds ==
    ASSUME NEW net, NEW p, NEW after \in Consume(net, p)
    PROVE  after \subseteq net
  BY DEF Consume

-----------------------------------------------------------------------------
(* The database *)

\* updateLSDB makes a well-formed link state of a well-formed one, or of none.
LEMMA UpdatedType ==
    ASSUME NEW old \in LinkState \cup {NoState}, NEW msg \in LinkStateUpdate
    PROVE  Updated(old, msg) \in LinkState
<1>1. CASE old = NoState \/ old.version < msg.version
  <2>1. [NoAcks EXCEPT ![msg.src] = msg.boot, ![msg.owner] = Forever] \in [Node -> 0 .. Forever]
    BY DEF LinkStateUpdate, NoAcks, Time
  <2> QED  BY <1>1, <2>1 DEF Updated, LinkState, LinkStateUpdate
<1>2. CASE ~(old = NoState \/ old.version < msg.version)
  <2>1. old \in LinkState
    BY <1>2
  <2>2. [old.acked EXCEPT ![msg.src] = msg.boot] \in [Node -> 0 .. Forever]
    BY <2>1 DEF LinkState, LinkStateUpdate, Time
  <2>3. [old EXCEPT !.acked[msg.src] = msg.boot] \in LinkState
    BY <2>1, <2>2 DEF LinkState
  <2> QED  BY <1>2, <2>1, <2>3 DEF Updated
<1> QED  BY <1>1, <1>2

\* What updateLSDB does to a link state: replace it, mark the sender, or nothing.
Replaces(old, msg, new) ==
    /\ old = NoState \/ old.version < msg.version
    /\ new.version = msg.version
    /\ new.state = msg.state
    /\ new.acked = [NoAcks EXCEPT ![msg.src] = msg.boot, ![msg.owner] = Forever]

Marks(old, msg, new) ==
    /\ old # NoState
    /\ old.version = msg.version
    /\ old.acked[msg.src] < msg.boot
    /\ new.version = old.version
    /\ new.state = old.state
    /\ new.acked = [old.acked EXCEPT ![msg.src] = msg.boot]

Keeps(old, msg, new) == old # NoState /\ ~(old.version < msg.version) /\ new = old

LEMMA UpdatedCases ==
    ASSUME NEW old \in LinkState \cup {NoState}, NEW msg \in LinkStateUpdate,
           NEW new, new = Updated(old, msg)
    PROVE  Replaces(old, msg, new) \/ Marks(old, msg, new) \/ Keeps(old, msg, new)
<1>1. CASE old = NoState \/ old.version < msg.version
  BY <1>1 DEF Updated, Replaces
<1>2. CASE ~(old = NoState \/ old.version < msg.version)
  <2>1. old \in LinkState
    BY <1>2
  <2>2. LET upd == [old EXCEPT !.acked[msg.src] = msg.boot]
        IN  /\ upd.version = old.version
            /\ upd.state = old.state
            /\ upd.acked = [old.acked EXCEPT ![msg.src] = msg.boot]
    BY <2>1 DEF LinkState
  <2> QED  BY <1>2, <2>2 DEF Updated, Marks, Keeps
<1> QED  BY <1>1, <1>2

LEMMA InitType == Init => TypeOK
  BY DEF Init, TypeOK, NoAdjacents, NoNeighbors, Time

LEMMA NextType == TypeOK /\ [Next]_vars => TypeOK'
<1> SUFFICES ASSUME TypeOK, [Next]_vars
             PROVE  TypeOK'
  OBVIOUS
<1> USE DEF TypeOK, nodeVars, netVars
<1>1. ASSUME NEW n \in Node, Start(n)
      PROVE  TypeOK'
  BY <1>1 DEF Start, Time
<1>2. ASSUME NEW n \in Node, Crash(n)
      PROVE  TypeOK'
  BY <1>2 DEF Crash, NoAdjacents, NoNeighbors, Time
<1>3. ASSUME NEW n \in Node, NEW m \in Node, SendHello(n, m)
      PROVE  TypeOK'
  <2>1. HelloPacket(n, m, 0) \in Hello
    BY <1>3 DEF SendHello, Running, HelloPacket, Hello
  <2>2. hellos' \subseteq Hello
    BY <1>3, <2>1, SendBounds DEF SendHello
  <2> QED  BY <1>3, <2>2 DEF SendHello
<1>4. ASSUME NEW n \in Node, NEW p \in hellos, HandleHello(n, p)
      PROVE  TypeOK'
  <2>1. p \in Hello /\ p.src \in Node /\ p.boot \in Time \ {0} /\ n \in Node /\ boot[n] \in Time \ {0}
    BY <1>4 DEF Hello, HandleHello, Running
  <2>2. hellos' \subseteq Hello
    <3>1. PICK rest \in Consume(hellos, p) :
             \/ hellos' \in Send(rest, {HelloPacket(n, p.src, 1)}, HelloQueue)
             \/ hellos' \in Send(rest, {HelloPacket(n, p.src, 2)}, HelloQueue)
             \/ hellos' = rest
      BY <1>4 DEF HandleHello
    <3>2. rest \subseteq Hello
      BY ConsumeBounds
    <3>3. HelloPacket(n, p.src, 1) \in Hello /\ HelloPacket(n, p.src, 2) \in Hello
      BY <2>1 DEF HelloPacket, Hello
    <3>4. CASE hellos' \in Send(rest, {HelloPacket(n, p.src, 1)}, HelloQueue)
      BY <3>2, <3>3, <3>4, SendBounds
    <3>5. CASE hellos' \in Send(rest, {HelloPacket(n, p.src, 2)}, HelloQueue)
      BY <3>2, <3>3, <3>5, SendBounds
    <3> QED  BY <3>1, <3>2, <3>4, <3>5
  <2>3. ASSUME UpdateMetric(n, p.src, p.boot)
        PROVE  /\ adjacents' \in [Node -> [Node -> Adjacent \cup {NoAdja}]]
               /\ pendingFlood' \in [Node -> BOOLEAN]
    <3>1. PICK metric \in Metric :
             /\ adjacents' = [adjacents EXCEPT ![n][p.src] = [boot |-> p.boot, metric |-> metric]]
             /\ pendingFlood' =
                   [pendingFlood EXCEPT ![n] =
                       \/ @
                       \/ ~IsAdjacent(n, p.src)
                       \/ metric # adjacents[n][p.src].metric]
      BY <2>3 DEF UpdateMetric
    <3>2. [boot |-> p.boot, metric |-> metric] \in Adjacent
      BY <2>1 DEF Adjacent
    <3> QED  BY <2>1, <3>1, <3>2
  <2>4. /\ adjacents' \in [Node -> [Node -> Adjacent \cup {NoAdja}]]
        /\ pendingFlood' \in [Node -> BOOLEAN]
    BY <1>4, <2>3 DEF HandleHello
  <2> QED  BY <1>4, <2>2, <2>4 DEF HandleHello
<1>5. ASSUME NEW n \in Node, CheckAdja(n)
      PROVE  TypeOK'
  <2>1. PICK new \in [{m \in Node : IsAdjacent(n, m)} -> Metric \cup {NoMetric}] :
           /\ adjacents' = [adjacents EXCEPT ![n] =
                 [m \in Node |->
                     IF m \in DOMAIN new /\ new[m] # NoMetric
                       THEN [boot |-> adjacents[n][m].boot, metric |-> new[m]]
                       ELSE NoAdja]]
           /\ pendingFlood' = [pendingFlood EXCEPT ![n] =
                 @ \/ \E m \in DOMAIN new : new[m] # adjacents[n][m].metric]
    BY <1>5 DEF CheckAdja
  <2>2. ASSUME NEW m \in Node, m \in DOMAIN new, new[m] # NoMetric
        PROVE  [boot |-> adjacents[n][m].boot, metric |-> new[m]] \in Adjacent
    BY <2>2 DEF IsAdjacent, Adjacent
  <2>3. adjacents' \in [Node -> [Node -> Adjacent \cup {NoAdja}]]
    BY <2>1, <2>2
  <2>4. pendingFlood' \in [Node -> BOOLEAN]
    BY <2>1
  <2> QED  BY <1>5, <2>3, <2>4 DEF CheckAdja
<1>6. ASSUME NEW n \in Node, NEW m \in Node, RemoveRoute(n, m)
      PROVE  TypeOK'
  <2>1. adjacents' \in [Node -> [Node -> Adjacent \cup {NoAdja}]]
    <3>1. [adjacents[n] EXCEPT ![m] = NoAdja] \in [Node -> Adjacent \cup {NoAdja}]
      OBVIOUS
    <3>2. [adjacents EXCEPT ![n][m] = NoAdja] \in [Node -> [Node -> Adjacent \cup {NoAdja}]]
      BY <3>1
    <3> QED  BY <1>6, <3>2 DEF RemoveRoute
  <2> QED  BY <1>6, <2>1 DEF RemoveRoute
<1>7. ASSUME NEW n \in Node, FloodLinkState(n)
      PROVE  TypeOK'
  <2>1. [version |-> clock[n] + 1, state |-> MyLinkState(n), acked |-> NoAcks] \in LinkState
    BY <1>7 DEF FloodLinkState, LinkState, MyLinkState, NoAcks, DB, Adjacent, IsAdjacent, Time
  <2> QED  BY <1>7, <2>1 DEF FloodLinkState, Time
<1>8. ASSUME NEW n \in Node, SendPendingLSDB(n)
      PROVE  TypeOK'
  <2>1. ASSUME NEW o \in Node, NEW m \in Unacked(n, o)
        PROVE  UpdatePacket(n, m, o) \in LinkStateUpdate
    <3>1. m \in Node /\ neighbors[n][o] \in LinkState
      BY DEF Unacked, HasState
    <3>2. Told(n, o) \in DB
      BY <3>1 DEF Told, EmptyDB, DB, LinkState
    <3> QED  BY <1>8, <3>1, <3>2 DEF SendPendingLSDB, Running, UpdatePacket, LinkStateUpdate, LinkState
  <2>2. updates' \subseteq LinkStateUpdate
    BY <1>8, <2>1, SendBounds DEF SendPendingLSDB
  <2> QED  BY <1>8, <2>2 DEF SendPendingLSDB
<1>9. ASSUME NEW n \in Node, NEW p \in updates, HandleLinkState(n, p)
      PROVE  TypeOK'
  <2>1. Ack(n, p) \subseteq LinkStateACK
    BY <1>9 DEF Ack, HandleLinkState, Running, LinkStateUpdate, LinkStateACK
  <2>2. acks' \subseteq LinkStateACK
    BY <1>9, <2>1, SendBounds DEF HandleLinkState
  <2>3. updates' \subseteq LinkStateUpdate
    BY <1>9, ConsumeBounds DEF HandleLinkState
  <2>4. p \in LinkStateUpdate /\ p.owner \in Node
    BY DEF LinkStateUpdate
  <2>5. Updated(neighbors[n][p.owner], p) \in LinkState
    BY <2>4, UpdatedType
  <2>6. neighbors' \in [Node -> [Node -> LinkState \cup {NoState}]]
    BY <1>9, <2>4, <2>5 DEF HandleLinkState, UpdateLSDB
  <2> QED  BY <1>9, <2>2, <2>3, <2>6 DEF HandleLinkState
<1>10. ASSUME NEW n \in Node, NEW p \in acks, HandleACK(n, p)
       PROVE  TypeOK'
  <2>1. p.src \in Node /\ p.owner \in Node /\ p.boot \in 0 .. Forever
    BY DEF LinkStateACK, Time
  <2>2. ASSUME HasState(n, p.owner)
        PROVE  [neighbors[n][p.owner] EXCEPT !.acked[p.src] = p.boot] \in LinkState
    <3>1. neighbors[n][p.owner] \in LinkState
      BY <2>1, <2>2 DEF HasState
    <3>2. [neighbors[n][p.owner].acked EXCEPT ![p.src] = p.boot] \in [Node -> 0 .. Forever]
      BY <2>1, <3>1 DEF LinkState
    <3> QED  BY <3>1, <3>2 DEF LinkState
  <2>3. neighbors' \in [Node -> [Node -> LinkState \cup {NoState}]]
    BY <1>10, <2>1, <2>2 DEF HandleACK
  <2>4. acks' \subseteq LinkStateACK
    BY <1>10, ConsumeBounds DEF HandleACK
  <2> QED  BY <1>10, <2>3, <2>4 DEF HandleACK
<1>11. CASE UNCHANGED vars
  BY <1>11 DEF vars
<1> QED  BY <1>1, <1>2, <1>3, <1>4, <1>5, <1>6, <1>7, <1>8, <1>9, <1>10, <1>11 DEF Next
\* Every variable of every behaviour keeps its type.
THEOREM TypeCorrect == Spec => []TypeOK
<1>1. TypeOK /\ [Next]_vars => TypeOK'
  BY NextType
<1> QED  BY InitType, <1>1, PTL DEF Spec

-----------------------------------------------------------------------------
(* What a step can do to each part of the state *)

\* Clocks advance, and the boot time changes only when a process starts or ends.
LEMMA ClockStep ==
    ASSUME TypeOK, [Next]_vars, NEW m \in Node
    PROVE  /\ clock[m] <= clock'[m]
           /\ boot'[m] \in {boot[m], 0, clock[m] + 1}
           /\ boot'[m] = clock[m] + 1 /\ boot'[m] # boot[m] => boot'[m] <= clock'[m]
<1> USE DEF TypeOK, Time
<1>1. ASSUME NEW n \in Node, Start(n) \/ Crash(n) \/ FloodLinkState(n)
      PROVE  /\ clock[m] <= clock'[m]
             /\ boot'[m] \in {boot[m], 0, clock[m] + 1}
             /\ boot'[m] = clock[m] + 1 /\ boot'[m] # boot[m] => boot'[m] <= clock'[m]
  BY <1>1, SMTT(30) DEF Start, Crash, FloodLinkState
<1>2. ASSUME UNCHANGED <<clock, boot>>
      PROVE  /\ clock[m] <= clock'[m]
             /\ boot'[m] \in {boot[m], 0, clock[m] + 1}
             /\ boot'[m] = clock[m] + 1 /\ boot'[m] # boot[m] => boot'[m] <= clock'[m]
  BY <1>2
<1> QED  BY <1>1, <1>2 DEF Next, vars, nodeVars, SendHello, HandleHello, CheckAdja,
            RemoveRoute, SendPendingLSDB, HandleLinkState, HandleACK

\* A hello in flight after a step was there before, or its sender runs.
LEMMA HellosStep ==
    ASSUME TypeOK, [Next]_vars, NEW p \in hellos', p \notin hellos
    PROVE  /\ UNCHANGED <<clock, boot>>
           /\ Running(p.src)
           /\ p.boot = boot[p.src]
           /\ \/ <<p.src, p.dst>> \in Links
              \/ \E q \in hellos : p.src = q.dst /\ p.dst = q.src
<1>1. ASSUME NEW n \in Node, NEW m \in Node, SendHello(n, m)
      PROVE  /\ UNCHANGED <<clock, boot>>
             /\ Running(p.src)
             /\ p.boot = boot[p.src]
             /\ <<p.src, p.dst>> \in Links
  <2>1. p = HelloPacket(n, m, 0)
    BY <1>1, SendBounds DEF SendHello
  <2> QED  BY <1>1, <2>1 DEF SendHello, HelloPacket, nodeVars
<1>2. ASSUME NEW n \in Node, NEW q \in hellos, HandleHello(n, q)
      PROVE  /\ UNCHANGED <<clock, boot>>
             /\ Running(p.src)
             /\ p.boot = boot[p.src]
             /\ p.src = q.dst /\ p.dst = q.src
  <2>1. PICK rest \in Consume(hellos, q) :
           \/ hellos' \in Send(rest, {HelloPacket(n, q.src, 1)}, HelloQueue)
           \/ hellos' \in Send(rest, {HelloPacket(n, q.src, 2)}, HelloQueue)
           \/ hellos' = rest
    BY <1>2 DEF HandleHello
  <2>2. p \notin rest
    BY ConsumeBounds
  <2>3. p \in {HelloPacket(n, q.src, 1), HelloPacket(n, q.src, 2)}
    BY <2>1, <2>2, SendBounds
  <2> QED  BY <1>2, <2>3 DEF HandleHello, HelloPacket
<1>3. ~ UNCHANGED hellos
  OBVIOUS
<1> QED  BY <1>1, <1>2, <1>3 DEF Next, vars, netVars, Start, Crash, CheckAdja, RemoveRoute,
            FloodLinkState, SendPendingLSDB, HandleLinkState, HandleACK

\* An update in flight after a step was there before, or is sent in this step.
LEMMA UpdatesStep ==
    ASSUME TypeOK, [Next]_vars, NEW p \in updates', p \notin updates
    PROVE  /\ UNCHANGED nodeVars
           /\ \E n, o \in Node : /\ Running(n)
                                 /\ \E m \in Unacked(n, o) : p = UpdatePacket(n, m, o)
<1>1. ASSUME NEW n \in Node, SendPendingLSDB(n)
      PROVE  /\ UNCHANGED nodeVars
             /\ \E o \in Node : /\ Running(n)
                                /\ \E m \in Unacked(n, o) : p = UpdatePacket(n, m, o)
  BY <1>1, SendBounds DEF SendPendingLSDB
<1>2. ASSUME NEW n \in Node, NEW q \in updates, HandleLinkState(n, q)
      PROVE  FALSE
  BY <1>2, ConsumeBounds DEF HandleLinkState
<1>3. ~ UNCHANGED updates
  OBVIOUS
<1> QED  BY <1>1, <1>2, <1>3 DEF Next, vars, netVars, Start, Crash, CheckAdja, RemoveRoute,
            FloodLinkState, SendHello, HandleHello, HandleACK

\* An ack in flight after a step was there before, or answers an update.
LEMMA AcksStep ==
    ASSUME TypeOK, [Next]_vars, NEW p \in acks', p \notin acks
    PROVE  \E n \in Node, msg \in updates : HandleLinkState(n, msg) /\ p \in Ack(n, msg)
<1>1. ASSUME NEW n \in Node, NEW msg \in updates, HandleLinkState(n, msg)
      PROVE  p \in Ack(n, msg)
  BY <1>1, SendBounds DEF HandleLinkState
<1>2. ASSUME NEW n \in Node, NEW q \in acks, HandleACK(n, q)
      PROVE  FALSE
  BY <1>2, ConsumeBounds DEF HandleACK
<1>3. ~ UNCHANGED acks
  OBVIOUS
<1> QED  BY <1>1, <1>2, <1>3 DEF Next, vars, netVars, Start, Crash, CheckAdja, RemoveRoute,
            FloodLinkState, SendHello, HandleHello, SendPendingLSDB

\* An adjacent after a step was adjacent before, in the same incarnation, or a
\* hello of it has arrived.
LEMMA AdjacentsStep ==
    ASSUME TypeOK, [Next]_vars, NEW n \in Node, NEW m \in Node, IsAdjacent(n, m)'
    PROVE  \/ IsAdjacent(n, m) /\ adjacents'[n][m].boot = adjacents[n][m].boot
           \/ \E p \in hellos : /\ p.src = m
                               /\ p.dst = n
                               /\ adjacents'[n][m].boot = p.boot
                               /\ UNCHANGED <<clock, boot>>
<1> DEFINE Same == IsAdjacent(n, m) /\ adjacents'[n][m].boot = adjacents[n][m].boot
<1> USE DEF TypeOK
<1>1. ASSUME NEW k \in Node, Crash(k)
      PROVE  Same
  BY <1>1 DEF Crash, NoAdjacents, IsAdjacent
<1>2. ASSUME NEW k \in Node, NEW p \in hellos, HandleHello(k, p)
      PROVE  \/ Same
             \/ p.src = m /\ p.dst = n /\ adjacents'[n][m].boot = p.boot /\ UNCHANGED <<clock, boot>>
  <2>1. CASE UNCHANGED adjacents
    BY <2>1 DEF IsAdjacent
  <2>2. CASE UpdateMetric(k, p.src, p.boot)
    <3>1. PICK metric \in Metric :
             adjacents' = [adjacents EXCEPT ![k][p.src] = [boot |-> p.boot, metric |-> metric]]
      BY <2>2 DEF UpdateMetric
    <3>2. CASE k = n /\ p.src = m
      <4>1. adjacents'[n][m] = [boot |-> p.boot, metric |-> metric]
        BY <3>1, <3>2
      <4> QED  BY <1>2, <3>2, <4>1 DEF HandleHello
    <3>3. CASE ~(k = n /\ p.src = m)
      <4>1. adjacents'[n][m] = adjacents[n][m]
        BY <3>1, <3>3 DEF Hello
      <4> QED  BY <4>1 DEF IsAdjacent
    <3> QED  BY <3>2, <3>3
  <2> QED  BY <1>2, <2>1, <2>2 DEF HandleHello
<1>3. ASSUME NEW k \in Node, CheckAdja(k)
      PROVE  Same
  <2>1. PICK new \in [{l \in Node : IsAdjacent(k, l)} -> Metric \cup {NoMetric}] :
           adjacents' = [adjacents EXCEPT ![k] =
                 [l \in Node |->
                     IF l \in DOMAIN new /\ new[l] # NoMetric
                       THEN [boot |-> adjacents[k][l].boot, metric |-> new[l]]
                       ELSE NoAdja]]
    BY <1>3 DEF CheckAdja
  <2>2. CASE k = n
    <3>1. adjacents'[n][m] =
             IF m \in DOMAIN new /\ new[m] # NoMetric
               THEN [boot |-> adjacents[n][m].boot, metric |-> new[m]]
               ELSE NoAdja
      BY <2>1, <2>2
    <3>2. m \in DOMAIN new /\ new[m] # NoMetric
      BY <3>1 DEF IsAdjacent
    <3> QED  BY <2>2, <3>1, <3>2
  <2>3. CASE k # n
    <3>1. adjacents'[n] = adjacents[n]
      BY <2>1, <2>3
    <3> QED  BY <3>1 DEF IsAdjacent
  <2> QED  BY <2>2, <2>3
<1>4. ASSUME NEW k \in Node, NEW l \in Node, RemoveRoute(k, l)
      PROVE  Same
  <2>1. adjacents'[n][m] \in {adjacents[n][m], NoAdja}
    BY <1>4 DEF RemoveRoute
  <2> QED  BY <2>1 DEF IsAdjacent
<1>5. CASE UNCHANGED adjacents
  BY <1>5 DEF IsAdjacent
<1> QED  BY <1>1, <1>2, <1>3, <1>4, <1>5 DEF Next, vars, nodeVars, Start, FloodLinkState,
            SendHello, SendPendingLSDB, HandleLinkState, HandleACK

\* The three ways in which n's link state of o changes.
Publishes(n, o) ==
    /\ FloodLinkState(n)
    /\ o = n
    /\ neighbors'[n][o] = [version |-> clock[n] + 1, state |-> MyLinkState(n), acked |-> NoAcks]

Learns(n, o, p) ==
    /\ HandleLinkState(n, p)
    /\ p.owner = o
    /\ o # n
    /\ neighbors'[n][o] = Updated(neighbors[n][o], p)

GetsAcked(n, o, p) ==
    /\ HandleACK(n, p)
    /\ p.owner = o
    /\ HasState(n, o)
    /\ p.version >= neighbors[n][o].version
    /\ neighbors'[n][o] = [neighbors[n][o] EXCEPT !.acked[p.src] = p.boot]

\* A link state after a step was there before, is the one the node publishes, comes
\* from an update, or has got an acknowledgement.
LEMMA NeighborsStep ==
    ASSUME TypeOK, [Next]_vars, NEW n \in Node, NEW o \in Node, HasState(n, o)'
    PROVE  \/ neighbors'[n][o] = neighbors[n][o]
           \/ Publishes(n, o)
           \/ \E p \in updates : Learns(n, o, p)
           \/ \E p \in acks : GetsAcked(n, o, p)
<1> DEFINE Same == neighbors'[n][o] = neighbors[n][o]
<1> USE DEF TypeOK
<1>1. ASSUME NEW k \in Node, Crash(k)
      PROVE  Same
  BY <1>1 DEF Crash, NoNeighbors, HasState
<1>2. ASSUME NEW k \in Node, FloodLinkState(k)
      PROVE  Same \/ Publishes(n, o)
  <2>1. \/ Same
        \/ /\ k = n /\ o = n
           /\ neighbors'[n][o] = [version |-> clock[n] + 1, state |-> MyLinkState(n),
                                  acked |-> NoAcks]
    BY <1>2 DEF FloodLinkState
  <2> QED  BY <1>2, <2>1 DEF Publishes
<1>3. ASSUME NEW k \in Node, NEW p \in updates, HandleLinkState(k, p)
      PROVE  Same \/ Learns(n, o, p)
  <2>1. \/ Same
        \/ k = n /\ p.owner = o /\ o # n /\ neighbors'[n][o] = Updated(neighbors[n][o], p)
    BY <1>3 DEF HandleLinkState, UpdateLSDB, LinkStateUpdate
  <2> QED  BY <1>3, <2>1 DEF Learns
<1>4. ASSUME NEW k \in Node, NEW p \in acks, HandleACK(k, p)
      PROVE  Same \/ GetsAcked(n, o, p)
  <2>1. \/ Same
        \/ /\ k = n /\ p.owner = o
           /\ HasState(n, o)
           /\ p.version >= neighbors[n][o].version
           /\ neighbors'[n][o] = [neighbors[n][o] EXCEPT !.acked[p.src] = p.boot]
    BY <1>4 DEF HandleACK, LinkStateACK
  <2> QED  BY <1>4, <2>1 DEF GetsAcked
<1>5. CASE UNCHANGED neighbors
  BY <1>5
<1> QED  BY <1>1, <1>2, <1>3, <1>4, <1>5 DEF Next, vars, nodeVars, Start, CheckAdja,
            RemoveRoute, SendHello, HandleHello, SendPendingLSDB

-----------------------------------------------------------------------------
(* Databases only grow while a process lives *)

LEMMA NeverForgets ==
    ASSUME TypeOK, Chronology, [Next]_vars, NEW n \in Node, NEW o \in Node,
           HasState(n, o), boot'[n] = boot[n]
    PROVE  /\ HasState(n, o)'
           /\ neighbors'[n][o].version >= neighbors[n][o].version
<1> USE DEF TypeOK
<1>1. neighbors[n][o] \in LinkState /\ neighbors[n][o].version \in Nat
  BY DEF HasState, LinkState, Time
<1>2. ASSUME NEW k \in Node, Crash(k)
      PROVE  neighbors'[n][o] = neighbors[n][o]
  BY <1>2 DEF Crash, Running
<1>3. ASSUME NEW k \in Node, FloodLinkState(k)
      PROVE  \/ neighbors'[n][o] = neighbors[n][o]
             \/ neighbors'[n][o].version = clock[o] + 1 /\ neighbors'[n][o] # NoState
  <2>1. CASE k = n /\ o = n
    <3>1. neighbors'[n][o] = [version |-> clock[n] + 1, state |-> MyLinkState(n), acked |-> NoAcks]
      BY <1>3, <2>1 DEF FloodLinkState
    <3>3. neighbors'[n][o] # NoState
      <4>1. [version |-> clock[n] + 1, state |-> MyLinkState(n), acked |-> NoAcks] \in LinkState
        BY <1>3, <2>1 DEF FloodLinkState, LinkState, MyLinkState, NoAcks, DB, Adjacent, IsAdjacent, Time
      <4> QED  BY <3>1, <4>1
    <3> QED  BY <2>1, <3>1, <3>3
  <2>2. CASE ~(k = n /\ o = n)
    BY <1>3, <2>2 DEF FloodLinkState
  <2> QED  BY <2>1, <2>2
<1>4. ASSUME NEW k \in Node, NEW p \in updates, HandleLinkState(k, p)
      PROVE  \/ neighbors'[n][o] = neighbors[n][o]
             \/ /\ neighbors'[n][o] # NoState
                /\ neighbors'[n][o].version >= neighbors[n][o].version
  <2>1. CASE k = n /\ p.owner = o /\ neighbors'[n][o] = Updated(neighbors[n][o], p)
    <3>1. p \in LinkStateUpdate /\ p.version \in Nat
      BY DEF LinkStateUpdate, Time
    <3>2. Updated(neighbors[n][o], p) \in LinkState
      BY <1>1, <3>1, UpdatedType
    <3>3. Updated(neighbors[n][o], p).version >= neighbors[n][o].version
      <4>1. CASE neighbors[n][o].version < p.version
        BY <1>1, <3>1, <4>1 DEF Updated
      <4>2. CASE ~(neighbors[n][o].version < p.version)
        <5>1. [neighbors[n][o] EXCEPT !.acked[p.src] = p.boot].version = neighbors[n][o].version
          BY <1>1 DEF LinkState
        <5> QED  BY <1>1, <4>2, <5>1 DEF Updated, HasState
      <4> QED  BY <4>1, <4>2
    <3> QED  BY <2>1, <3>2, <3>3
  <2>2. CASE neighbors'[n][o] = neighbors[n][o]
    BY <2>2
  <2> QED  BY <1>4, <2>1, <2>2 DEF HandleLinkState, UpdateLSDB, LinkStateUpdate
<1>5. ASSUME NEW k \in Node, NEW p \in acks, HandleACK(k, p)
      PROVE  \/ neighbors'[n][o] = neighbors[n][o]
             \/ /\ neighbors'[n][o] # NoState
                /\ neighbors'[n][o].version >= neighbors[n][o].version
  <2>1. CASE neighbors'[n][o] = [neighbors[n][o] EXCEPT !.acked[p.src] = p.boot]
    <3>1. [neighbors[n][o].acked EXCEPT ![p.src] = p.boot] \in [Node -> 0 .. Forever]
      BY <1>1 DEF LinkState, LinkStateACK, Time
    <3>2. neighbors'[n][o] \in LinkState /\ neighbors'[n][o].version = neighbors[n][o].version
      BY <1>1, <2>1, <3>1 DEF LinkState
    <3> QED  BY <1>1, <3>2
  <2>2. CASE neighbors'[n][o] = neighbors[n][o]
    BY <2>2
  <2> QED  BY <1>5, <2>1, <2>2 DEF HandleACK, LinkStateACK
<1>6. CASE UNCHANGED neighbors
  BY <1>1, <1>6 DEF HasState
<1>7. neighbors[n][o].version <= clock[o]
  BY DEF Chronology
<1>8. \/ neighbors'[n][o] = neighbors[n][o]
      \/ neighbors'[n][o].version = clock[o] + 1 /\ neighbors'[n][o] # NoState
      \/ /\ neighbors'[n][o] # NoState
         /\ neighbors'[n][o].version >= neighbors[n][o].version
  BY <1>2, <1>3, <1>4, <1>5, <1>6 DEF Next, vars, nodeVars, Start, CheckAdja,
     RemoveRoute, SendHello, HandleHello, SendPendingLSDB
<1> QED  BY <1>1, <1>7, <1>8 DEF HasState, Time

\* What an incarnation knows it keeps knowing.
LEMMA KnowsStep ==
    ASSUME TypeOK, Chronology, [Next]_vars,
           NEW m \in Node, NEW b \in Time \ {0}, NEW o \in Node, NEW v \in Time,
           Booted(m, b), Knows(m, b, o, v)
    PROVE  Knows(m, b, o, v)'
<1> SUFFICES ASSUME boot'[m] = b
             PROVE  HasState(m, o)' /\ neighbors'[m][o].version >= v
  BY DEF Knows
<1>1. boot[m] = b
  BY ClockStep DEF Booted, TypeOK, Time
<1>2. HasState(m, o) /\ neighbors[m][o].version >= v
  BY <1>1 DEF Knows
<1>3. HasState(m, o)' /\ neighbors'[m][o].version >= neighbors[m][o].version
  BY <1>1, <1>2, NeverForgets
<1>4. neighbors[m][o].version \in Nat /\ neighbors'[m][o].version \in Nat
  BY <1>2, <1>3, NextType DEF TypeOK, HasState, LinkState, Time
<1> QED  BY <1>2, <1>3, <1>4 DEF Time

\* A boot time stays in the past.
LEMMA BootedStep ==
    ASSUME TypeOK, [Next]_vars, NEW m \in Node, NEW b \in Time, Booted(m, b)
    PROVE  Booted(m, b)'
<1>1. /\ clock[m] <= clock'[m]
      /\ boot'[m] \in {boot[m], 0, clock[m] + 1}
  BY ClockStep
<1>2. clock[m] \in Nat /\ boot[m] \in Nat /\ clock'[m] \in Nat
  BY NextType DEF TypeOK, Time
<1>3. b <= clock[m] /\ (boot[m] # 0 => b <= boot[m])
  BY DEF Booted, Running
<1>4. b <= clock'[m]
  BY <1>1, <1>2, <1>3 DEF Time
<1>5. boot'[m] # 0 => b <= boot'[m]
  BY <1>1, <1>2, <1>3 DEF Time
<1> QED  BY <1>4, <1>5 DEF Booted, Running

-----------------------------------------------------------------------------
(* The inductive invariant, part by part *)

LEMMA InitIInv == Init => IInv
<1> SUFFICES ASSUME Init PROVE IInv
  OBVIOUS
<1>1. TypeOK
  BY InitType
<1>2. \A n, o \in Node : ~HasState(n, o) /\ ~IsAdjacent(n, o)
  BY DEF Init, HasState, IsAdjacent, NoNeighbors, NoAdjacents
<1>3. Chronology /\ Latest
  BY <1>2 DEF Init, Chronology, Running, Booted, Latest
<1>4. Apart
  BY <1>2 DEF Init, Apart
<1>5. Evidence
  BY <1>2 DEF Init, Evidence
<1>6. \A o \in Node : Copies(o) = {}
  BY <1>2 DEF Init, Copies
<1>7. Agreement
  BY <1>2, <1>6 DEF Agreement, VersionDeterminesState
<1> QED  BY <1>1, <1>3, <1>4, <1>5, <1>7 DEF IInv

\* Nothing comes from the future.
LEMMA ChronologyStep == IInv /\ [Next]_vars => Chronology'
<1> SUFFICES ASSUME IInv, [Next]_vars PROVE Chronology'
  OBVIOUS
<1> USE DEF IInv
<1>1. TypeOK /\ TypeOK' /\ Chronology
  BY NextType
<1>2. ASSUME NEW n \in Node
      PROVE  boot'[n] <= clock'[n]
  <2>1. /\ clock[n] <= clock'[n]
        /\ boot'[n] \in {boot[n], 0, clock[n] + 1}
        /\ boot'[n] = clock[n] + 1 /\ boot'[n] # boot[n] => boot'[n] <= clock'[n]
    BY <1>1, ClockStep
  <2>2. boot[n] <= clock[n]
    BY <1>1 DEF Chronology
  <2> QED  BY <1>1, <2>1, <2>2 DEF TypeOK, Time
<1>3. ASSUME NEW n \in Node, Running(n), UNCHANGED <<clock, boot>>
      PROVE  Booted(n, boot[n])'
  BY <1>1, <1>3 DEF Chronology, Booted, Running, TypeOK, Time
<1>4. ASSUME NEW n \in Node, NEW m \in Node, IsAdjacent(n, m)'
      PROVE  Booted(m, adjacents[n][m].boot)'
  <2>1. CASE IsAdjacent(n, m) /\ adjacents'[n][m].boot = adjacents[n][m].boot
    <3>1. adjacents[n][m].boot \in Time
      BY <1>1, <2>1 DEF TypeOK, IsAdjacent, Adjacent
    <3>2. Booted(m, adjacents[n][m].boot)
      BY <1>1, <2>1 DEF Chronology
    <3> QED  BY <1>1, <2>1, <3>1, <3>2, BootedStep DEF Booted, Running
  <2>2. ASSUME NEW p \in hellos, p.src = m, adjacents'[n][m].boot = p.boot
        PROVE  Booted(m, adjacents[n][m].boot)'
    <3>1. p.boot \in Time
      BY <1>1 DEF TypeOK, Hello
    <3>2. Booted(m, p.boot)
      BY <1>1, <2>2 DEF Chronology
    <3> QED  BY <1>1, <2>2, <3>1, <3>2, BootedStep DEF Booted, Running
  <2> QED  BY <1>1, <1>4, <2>1, <2>2, AdjacentsStep
<1>5. ASSUME NEW p \in hellos'
      PROVE  Booted(p.src, p.boot)'
  <2>1. p.src \in Node /\ p.boot \in Time
    BY <1>1 DEF TypeOK, Hello
  <2>2. CASE p \in hellos
    <3>1. Booted(p.src, p.boot)
      BY <1>1, <2>2 DEF Chronology
    <3> QED  BY <1>1, <2>1, <3>1, BootedStep
  <2>3. CASE p \notin hellos
    BY <1>1, <1>3, <2>1, <2>3, HellosStep DEF Booted, Running
  <2> QED  BY <2>2, <2>3
<1>6. ASSUME NEW p \in updates'
      PROVE  Booted(p.src, p.boot)' /\ p.version <= clock'[p.owner]
  <2>1. p.src \in Node /\ p.boot \in Time /\ p.owner \in Node /\ p.version \in Time
    BY <1>1 DEF TypeOK, LinkStateUpdate
  <2>2. CASE p \in updates
    <3>1. Booted(p.src, p.boot) /\ p.version <= clock[p.owner]
      BY <1>1, <2>2 DEF Chronology
    <3> QED  BY <1>1, <2>1, <3>1, BootedStep, ClockStep DEF TypeOK, Time
  <2>3. CASE p \notin updates
    <3>1. PICK n \in Node, o \in Node :
             Running(n) /\ \E m \in Unacked(n, o) : p = UpdatePacket(n, m, o)
      BY <1>1, <2>3, UpdatesStep
    <3>2. HasState(n, o) /\ UNCHANGED <<clock, boot>>
      BY <1>1, <2>3, <3>1, UpdatesStep DEF Unacked, nodeVars
    <3>3. p.src = n /\ p.boot = boot[n] /\ p.owner = o /\ p.version = neighbors[n][o].version
      BY <3>1 DEF UpdatePacket
    <3> QED  BY <1>1, <1>3, <3>1, <3>2, <3>3 DEF Chronology, Booted, Running
  <2> QED  BY <2>2, <2>3
<1>7. ASSUME NEW p \in acks'
      PROVE  Booted(p.src, p.boot)' /\ p.version <= clock'[p.owner]
  <2>1. p.src \in Node /\ p.boot \in Time /\ p.owner \in Node /\ p.version \in Time
    BY <1>1 DEF TypeOK, LinkStateACK
  <2>2. CASE p \in acks
    <3>1. Booted(p.src, p.boot) /\ p.version <= clock[p.owner]
      BY <1>1, <2>2 DEF Chronology
    <3> QED  BY <1>1, <2>1, <3>1, BootedStep, ClockStep DEF TypeOK, Time
  <2>3. CASE p \notin acks
    <3>1. PICK n \in Node, msg \in updates : HandleLinkState(n, msg) /\ p \in Ack(n, msg)
      BY <1>1, <2>3, AcksStep
    <3>2. p.src = n /\ p.boot = boot[n] /\ p.owner = msg.owner /\ p.version = msg.version
      BY <3>1 DEF Ack
    <3>3. msg.version <= clock[msg.owner]
      BY <1>1 DEF Chronology
    <3>4. Running(n) /\ UNCHANGED <<clock, boot>>
      BY <3>1 DEF HandleLinkState
    <3> QED  BY <1>3, <3>2, <3>3, <3>4 DEF Booted, Running
  <2> QED  BY <2>2, <2>3
<1> DEFINE Past(m, b) == b <= clock'[m] /\ (boot'[m] # 0 => b <= boot'[m])
           Sound(o, s) == /\ s.version <= clock'[o]
                          /\ \A m \in Node : s.acked[m] # Forever => Past(m, s.acked[m])
<1>8. ASSUME NEW n \in Node, NEW o \in Node, HasState(n, o)'
      PROVE  Sound(o, neighbors'[n][o])
  <2>1. clock[o] \in Nat /\ clock'[o] \in Nat /\ clock[o] <= clock'[o]
    BY <1>1, <1>8, ClockStep DEF TypeOK, Time
  <2>2. ASSUME NEW m \in Node, NEW b \in Time, Booted(m, b)
        PROVE  Past(m, b)
    BY <1>1, <2>2, BootedStep DEF Booted, Running
  <2>3. ASSUME NEW m \in Node
        PROVE  Past(m, 0)
    BY <1>1 DEF TypeOK, Time
  <2>4. ASSUME HasState(n, o)
        PROVE  neighbors[n][o] \in LinkState /\ Sound(o, neighbors[n][o])
    <3>1. neighbors[n][o] \in LinkState
      BY <1>1, <2>4 DEF HasState, TypeOK
    <3>2. /\ neighbors[n][o].version <= clock[o]
          /\ \A m \in Node : neighbors[n][o].acked[m] # Forever
                              => Booted(m, neighbors[n][o].acked[m])
      BY <1>1, <2>4 DEF Chronology
    <3>3. \A m \in Node : neighbors[n][o].acked[m] # Forever => neighbors[n][o].acked[m] \in Time
      BY <3>1 DEF LinkState, Time
    <3>4. neighbors[n][o].version <= clock'[o]
      BY <2>1, <3>1, <3>2 DEF LinkState, Time
    <3> QED  BY <2>2, <3>1, <3>2, <3>3, <3>4
  <2>5. CASE neighbors'[n][o] = neighbors[n][o]
    BY <1>8, <2>4, <2>5 DEF HasState
  <2>6. CASE Publishes(n, o)
    <3>1. /\ o = n
          /\ neighbors'[n][o].version = clock[n] + 1
          /\ neighbors'[n][o].acked = NoAcks
      BY <2>6 DEF Publishes
    <3>2. clock'[o] = clock[n] + 1
      BY <1>1, <2>6, <3>1 DEF Publishes, FloodLinkState, TypeOK
    <3> QED  BY <2>1, <2>3, <3>1, <3>2 DEF NoAcks
  <2>7. ASSUME NEW p \in updates, Learns(n, o, p)
        PROVE  Sound(o, neighbors'[n][o])
    <3>0. p.owner = o /\ neighbors'[n][o] = Updated(neighbors[n][o], p)
      BY <2>7 DEF Learns
    <3>1. p.src \in Node /\ p.boot \in Time /\ p.version \in Time
      BY <1>1 DEF TypeOK, LinkStateUpdate
    <3>2. Past(p.src, p.boot)
      BY <1>1, <2>2, <3>1 DEF Chronology
    <3>3. p.version <= clock'[o]
      BY <1>1, <2>1, <3>0, <3>1 DEF Chronology, Time
    <3>4. CASE Replaces(neighbors[n][o], p, neighbors'[n][o])
      BY <2>3, <3>0, <3>1, <3>2, <3>3, <3>4 DEF NoAcks, Replaces
    <3>5. CASE Marks(neighbors[n][o], p, neighbors'[n][o])
      BY <2>4, <3>1, <3>2, <3>5 DEF LinkState, Marks, HasState
    <3>6. CASE Keeps(neighbors[n][o], p, neighbors'[n][o])
      BY <2>4, <3>6 DEF Keeps, HasState
    <3>7. neighbors[n][o] \in LinkState \cup {NoState} /\ p \in LinkStateUpdate
      BY <1>1 DEF TypeOK
    <3> HIDE DEF Sound
    <3> QED  BY <3>0, <3>4, <3>5, <3>6, <3>7, UpdatedCases
  <2>8. ASSUME NEW p \in acks, GetsAcked(n, o, p)
        PROVE  Sound(o, neighbors'[n][o])
    <3>1. p.src \in Node /\ p.boot \in Time
      BY <1>1 DEF TypeOK, LinkStateACK
    <3>2. Past(p.src, p.boot)
      BY <1>1, <2>2, <3>1 DEF Chronology
    <3>3. /\ HasState(n, o)
          /\ neighbors'[n][o].version = neighbors[n][o].version
          /\ neighbors'[n][o].acked = [neighbors[n][o].acked EXCEPT ![p.src] = p.boot]
      BY <2>4, <2>8 DEF GetsAcked, LinkState
    <3> QED  BY <2>4, <3>1, <3>2, <3>3 DEF LinkState
  <2> HIDE DEF Sound
  <2> QED  BY <1>1, <1>8, <2>5, <2>6, <2>7, <2>8, NeighborsStep
<1> QED  BY <1>2, <1>4, <1>5, <1>6, <1>7, <1>8 DEF Chronology, Booted, Running

\* No self-adjacency, no update to its owner; only owners have acked forever.
LEMMA ApartStep == IInv /\ [Next]_vars => Apart'
<1> SUFFICES ASSUME IInv, [Next]_vars PROVE Apart'
  OBVIOUS
<1> USE DEF IInv
<1>1. TypeOK /\ TypeOK' /\ Apart
  BY NextType
<1>2. ASSUME NEW n \in Node, IsAdjacent(n, n)'
      PROVE  FALSE
  BY <1>1, <1>2, AdjacentsStep DEF Apart
<1>3. ASSUME NEW p \in hellos'
      PROVE  p.src # p.dst
  <2>1. CASE p \in hellos
    BY <1>1, <2>1 DEF Apart
  <2>2. CASE p \notin hellos
    <3>1. CASE <<p.src, p.dst>> \in Links
      <4>1. p.src \in Node
        BY <1>1 DEF TypeOK, Hello
      <4> QED  BY <3>1, <4>1
    <3>2. ASSUME NEW q \in hellos, p.src = q.dst, p.dst = q.src
          PROVE  p.src # p.dst
      BY <1>1, <3>2 DEF Apart
    <3> QED  BY <1>1, <2>2, <3>1, <3>2, HellosStep
  <2> QED  BY <2>1, <2>2
<1>4. ASSUME NEW p \in updates'
      PROVE  p.owner # p.dst
  <2>1. CASE p \in updates
    BY <1>1, <2>1 DEF Apart
  <2>2. CASE p \notin updates
    <3>1. PICK n \in Node, o \in Node :
             Running(n) /\ \E m \in Unacked(n, o) : p = UpdatePacket(n, m, o)
      BY <1>1, <2>2, UpdatesStep
    <3>2. PICK m \in Unacked(n, o) : p = UpdatePacket(n, m, o)
      BY <3>1
    <3>3. /\ p.owner = o /\ p.dst = m /\ m \in Node
          /\ IsAdjacent(n, m) /\ HasState(n, o)
          /\ neighbors[n][o].acked[m] < adjacents[n][m].boot
      BY <3>2 DEF UpdatePacket, Unacked
    <3>4. m # n
      BY <1>1, <3>3 DEF Apart
    <3>5. adjacents[n][m].boot < Forever /\ adjacents[n][m].boot \in Nat
      BY <1>1, <3>3 DEF TypeOK, IsAdjacent, Adjacent, Time
    <3>6. neighbors[n][o].acked[m] # Forever
      BY <3>3, <3>5
    <3> QED  BY <1>1, <3>3, <3>4, <3>6 DEF Apart
  <2> QED  BY <2>1, <2>2
<1>5. ASSUME NEW p \in acks'
      PROVE  p.src # p.owner
  <2>1. CASE p \in acks
    BY <1>1, <2>1 DEF Apart
  <2>2. CASE p \notin acks
    <3>1. PICK n \in Node, msg \in updates : HandleLinkState(n, msg) /\ p \in Ack(n, msg)
      BY <1>1, <2>2, AcksStep
    <3>2. p.src = n /\ p.owner = msg.owner /\ msg.dst = n
      BY <3>1 DEF Ack, HandleLinkState
    <3> QED  BY <1>1, <3>2 DEF Apart
  <2> QED  BY <2>1, <2>2
<1> DEFINE OwnerForever(n, o, s) ==
       \A m \in Node : s.acked[m] = Forever <=> m = o /\ n # o
<1>6. ASSUME NEW n \in Node, NEW o \in Node, HasState(n, o)'
      PROVE  OwnerForever(n, o, neighbors'[n][o])
  <2>1. ASSUME HasState(n, o)
        PROVE  neighbors[n][o] \in LinkState /\ OwnerForever(n, o, neighbors[n][o])
    BY <1>1, <2>1 DEF HasState, TypeOK, Apart
  <2>2. CASE neighbors'[n][o] = neighbors[n][o]
    BY <1>6, <2>1, <2>2 DEF HasState
  <2>3. CASE Publishes(n, o)
    <3>1. o = n /\ neighbors'[n][o].acked = NoAcks
      BY <2>3 DEF Publishes
    <3>2. Forever # 0
      BY <1>1 DEF TypeOK, Time
    <3> QED  BY <3>1, <3>2 DEF NoAcks
  <2>4. ASSUME NEW p \in updates, Learns(n, o, p)
        PROVE  OwnerForever(n, o, neighbors'[n][o])
    <3>1. p \in LinkStateUpdate /\ p.src \in Node /\ p.boot \in Nat /\ p.boot < Forever /\ Forever # 0
      BY <1>1 DEF TypeOK, LinkStateUpdate, Time
    <3>2. p.owner = o /\ o # n /\ neighbors'[n][o] = Updated(neighbors[n][o], p)
      BY <2>4 DEF Learns
    <3>3. CASE Replaces(neighbors[n][o], p, neighbors'[n][o])
      BY <3>1, <3>2, <3>3 DEF NoAcks, Replaces
    <3>4. CASE Marks(neighbors[n][o], p, neighbors'[n][o])
      <4>1. p.src # o
        BY <2>1, <3>1, <3>2, <3>4 DEF Marks, HasState
      <4> QED  BY <2>1, <3>1, <3>2, <3>4, <4>1 DEF LinkState, Marks, HasState
    <3>5. CASE Keeps(neighbors[n][o], p, neighbors'[n][o])
      BY <2>1, <3>5 DEF Keeps, HasState
    <3>6. neighbors[n][o] \in LinkState \cup {NoState}
      BY <1>1 DEF TypeOK
    <3> HIDE DEF OwnerForever
    <3> QED  BY <3>1, <3>2, <3>3, <3>4, <3>5, <3>6, UpdatedCases
  <2>5. ASSUME NEW p \in acks, GetsAcked(n, o, p)
        PROVE  OwnerForever(n, o, neighbors'[n][o])
    <3>1. p.src \in Node /\ p.boot \in Nat /\ p.boot < Forever /\ p.src # o
      BY <1>1, <2>5 DEF TypeOK, LinkStateACK, Time, Apart, GetsAcked
    <3>2. /\ HasState(n, o)
          /\ neighbors'[n][o].acked = [neighbors[n][o].acked EXCEPT ![p.src] = p.boot]
      BY <2>1, <2>5 DEF GetsAcked, LinkState
    <3> QED  BY <2>1, <3>1, <3>2 DEF LinkState
  <2> HIDE DEF OwnerForever
  <2> QED  BY <1>1, <1>6, <2>2, <2>3, <2>4, <2>5, NeighborsStep
<1> QED  BY <1>2, <1>3, <1>4, <1>5, <1>6 DEF Apart

\* Who sends an update or an ack, and who is marked as having acknowledged, knows.
LEMMA EvidenceStep == IInv /\ [Next]_vars => Evidence'
<1> SUFFICES ASSUME IInv, [Next]_vars PROVE Evidence'
  OBVIOUS
<1> DEFINE Known(m, b, o, v) ==
             boot'[m] = b => neighbors'[m][o] # NoState /\ neighbors'[m][o].version >= v
<1>1. TypeOK /\ TypeOK' /\ Chronology /\ Apart /\ Evidence
  BY NextType DEF IInv
<1>2. ASSUME NEW m \in Node, NEW b \in Time \ {0}, NEW o \in Node, NEW v \in Time,
             Booted(m, b), Knows(m, b, o, v)
      PROVE  Known(m, b, o, v)
  BY <1>1, <1>2, KnowsStep DEF Knows, HasState
<1>3. ASSUME NEW p \in updates'
      PROVE  Known(p.src, p.boot, p.owner, p.version)
  <2>1. p.src \in Node /\ p.boot \in Time \ {0} /\ p.owner \in Node /\ p.version \in Time
    BY <1>1 DEF TypeOK, LinkStateUpdate
  <2>2. CASE p \in updates
    <3>1. Booted(p.src, p.boot) /\ Knows(p.src, p.boot, p.owner, p.version)
      BY <1>1, <2>2 DEF Chronology, Evidence
    <3> QED  BY <1>2, <2>1, <3>1
  <2>3. CASE p \notin updates
    <3>1. PICK n \in Node, o \in Node :
             Running(n) /\ \E m \in Unacked(n, o) : p = UpdatePacket(n, m, o)
      BY <1>1, <2>3, UpdatesStep
    <3>2. p.src = n /\ p.owner = o /\ p.version = neighbors[n][o].version /\ HasState(n, o)
      BY <3>1 DEF UpdatePacket, Unacked
    <3>3. neighbors' = neighbors
      BY <1>1, <2>3, UpdatesStep DEF nodeVars
    <3> QED  BY <2>1, <3>2, <3>3 DEF HasState, Time
  <2> QED  BY <2>2, <2>3
<1>4. ASSUME NEW p \in acks'
      PROVE  Known(p.src, p.boot, p.owner, p.version)
  <2>1. p.src \in Node /\ p.boot \in Time \ {0} /\ p.owner \in Node /\ p.version \in Time
    BY <1>1 DEF TypeOK, LinkStateACK
  <2>2. CASE p \in acks
    <3>1. Booted(p.src, p.boot) /\ Knows(p.src, p.boot, p.owner, p.version)
      BY <1>1, <2>2 DEF Chronology, Evidence
    <3> QED  BY <1>2, <2>1, <3>1
  <2>3. CASE p \notin acks
    <3>1. PICK n \in Node, msg \in updates : HandleLinkState(n, msg) /\ p \in Ack(n, msg)
      BY <1>1, <2>3, AcksStep
    <3>2. p.src = n /\ p.owner = msg.owner /\ p.version = msg.version /\ msg.dst = n
      BY <3>1 DEF Ack, HandleLinkState
    <3>3. msg.owner # n /\ msg \in LinkStateUpdate /\ neighbors[n][p.owner] \in LinkState \cup {NoState}
      BY <1>1, <2>1, <3>2 DEF Apart, TypeOK
    <3>4. neighbors'[n][p.owner] = Updated(neighbors[n][p.owner], msg)
      BY <1>1, <2>1, <3>1, <3>2, <3>3 DEF HandleLinkState, UpdateLSDB, TypeOK
    <3>5. neighbors'[n][p.owner] \in LinkState
      BY <3>3, <3>4, UpdatedType
    <3>6. neighbors'[n][p.owner].version >= msg.version
      <4>1. neighbors[n][p.owner] = NoState \/ neighbors[n][p.owner].version \in Nat
        BY <3>3 DEF LinkState, Time
      <4>2. msg.version \in Nat
        BY <3>3 DEF LinkStateUpdate, Time
      <4>3. \/ Replaces(neighbors[n][p.owner], msg, neighbors'[n][p.owner])
            \/ Marks(neighbors[n][p.owner], msg, neighbors'[n][p.owner])
            \/ Keeps(neighbors[n][p.owner], msg, neighbors'[n][p.owner])
        BY <3>3, <3>4, UpdatedCases
      <4> QED  BY <4>1, <4>2, <4>3 DEF Replaces, Marks, Keeps
    <3> QED  BY <3>2, <3>5, <3>6
  <2> QED  BY <2>2, <2>3
<1> DEFINE Witnessed(o, s) ==
             \A m \in Node : s.acked[m] \notin {0, Forever} => Known(m, s.acked[m], o, s.version)
<1>5. ASSUME NEW n \in Node, NEW o \in Node, HasState(n, o)'
      PROVE  Witnessed(o, neighbors'[n][o])
  <2>1. ASSUME HasState(n, o)
        PROVE  /\ neighbors[n][o] \in LinkState
               /\ Witnessed(o, neighbors[n][o])
    <3>1. neighbors[n][o] \in LinkState /\ neighbors[n][o].version \in Time
      BY <1>1, <2>1 DEF HasState, TypeOK, LinkState
    <3>2. ASSUME NEW m \in Node, neighbors[n][o].acked[m] \notin {0, Forever}
          PROVE  Known(m, neighbors[n][o].acked[m], o, neighbors[n][o].version)
      <4>1. neighbors[n][o].acked[m] \in Time \ {0}
        BY <3>1, <3>2 DEF LinkState, Time
      <4>2. Booted(m, neighbors[n][o].acked[m])
        BY <1>1, <2>1, <3>2 DEF Chronology
      <4>3. Knows(m, neighbors[n][o].acked[m], o, neighbors[n][o].version)
        BY <1>1, <2>1, <3>2 DEF Evidence
      <4> QED  BY <1>2, <3>1, <4>1, <4>2, <4>3
    <3> QED  BY <3>1, <3>2
  <2>2. CASE neighbors'[n][o] = neighbors[n][o]
    BY <1>5, <2>1, <2>2 DEF HasState
  <2>3. CASE Publishes(n, o)
    BY <2>3 DEF Publishes, NoAcks
  <2>4. ASSUME NEW p \in updates, Learns(n, o, p)
        PROVE  Witnessed(o, neighbors'[n][o])
    <3>1. p \in LinkStateUpdate /\ p.src \in Node /\ p.boot \in Time \ {0} /\ p.version \in Time
      BY <1>1 DEF TypeOK, LinkStateUpdate
    <3>2. p.owner = o /\ o # n /\ neighbors'[n][o] = Updated(neighbors[n][o], p)
      BY <2>4 DEF Learns
    <3>3. Known(p.src, p.boot, o, p.version)
      BY <1>1, <1>2, <3>1, <3>2 DEF Chronology, Evidence
    <3>4. CASE Replaces(neighbors[n][o], p, neighbors'[n][o])
      <4>1. \A m \in Node : neighbors'[n][o].acked[m] \notin {0, Forever} =>
               m = p.src /\ neighbors'[n][o].acked[m] = p.boot
        BY <3>1, <3>2, <3>4 DEF NoAcks, Replaces
      <4> QED  BY <3>3, <3>4, <4>1 DEF Replaces
    <3>5. CASE Marks(neighbors[n][o], p, neighbors'[n][o])
      <4>1. \A m \in Node : \/ m = p.src /\ neighbors'[n][o].acked[m] = p.boot
                            \/ neighbors'[n][o].acked[m] = neighbors[n][o].acked[m]
        BY <2>1, <3>1, <3>5 DEF LinkState, Marks, HasState
      <4> QED  BY <2>1, <3>3, <3>5, <4>1 DEF Marks, HasState
    <3>6. CASE Keeps(neighbors[n][o], p, neighbors'[n][o])
      BY <2>1, <3>6 DEF Keeps, HasState
    <3>7. neighbors[n][o] \in LinkState \cup {NoState}
      BY <1>1 DEF TypeOK
    <3> HIDE DEF Witnessed
    <3> QED  BY <3>1, <3>2, <3>4, <3>5, <3>6, <3>7, UpdatedCases
  <2>5. ASSUME NEW p \in acks, GetsAcked(n, o, p)
        PROVE  Witnessed(o, neighbors'[n][o])
    <3>1. p.src \in Node /\ p.boot \in Time \ {0} /\ p.version \in Time
      BY <1>1 DEF TypeOK, LinkStateACK
    <3>2. p.owner = o /\ HasState(n, o) /\ p.version >= neighbors[n][o].version
      BY <2>5 DEF GetsAcked
    <3>3. /\ neighbors'[n][o].version = neighbors[n][o].version
          /\ neighbors'[n][o].acked = [neighbors[n][o].acked EXCEPT ![p.src] = p.boot]
      BY <2>1, <2>5 DEF GetsAcked, LinkState
    <3>4. Known(p.src, p.boot, o, p.version)
      BY <1>1, <1>2, <3>1, <3>2 DEF Chronology, Evidence
    <3>5. Known(p.src, p.boot, o, neighbors[n][o].version)
      <4>1. neighbors[n][o].version \in Nat /\ p.version \in Nat
        BY <2>1, <3>1, <3>2 DEF LinkState, Time
      <4>2. neighbors'[p.src][o] # NoState => neighbors'[p.src][o].version \in Nat
        BY <1>1, <3>1 DEF TypeOK, LinkState, Time
      <4> QED  BY <3>2, <3>4, <4>1, <4>2
    <3>6. \A m \in Node : \/ m = p.src /\ neighbors'[n][o].acked[m] = p.boot
                          \/ neighbors'[n][o].acked[m] = neighbors[n][o].acked[m]
      BY <2>1, <3>1, <3>2, <3>3 DEF LinkState
    <3> QED  BY <2>1, <3>2, <3>3, <3>5, <3>6
  <2> HIDE DEF Witnessed
  <2> QED  BY <1>1, <1>5, <2>2, <2>3, <2>4, <2>5, NeighborsStep
<1> QED  BY <1>3, <1>4, <1>5 DEF Evidence, Knows, HasState

\* Every copy of o's link state is a copy of a copy, or of what the owner tells.
LEMMA CopiesStep ==
    ASSUME TypeOK, [Next]_vars, NEW o \in Node, NEW c \in Copies(o)'
    PROVE  \/ \E d \in Copies(o) : c.version = d.version /\ c.state = d.state
           \/ HasState(o, o) /\ c.version = neighbors[o][o].version /\ c.state = Told(o, o)
<1> DEFINE Copied == \E d \in Copies(o) : c.version = d.version /\ c.state = d.state
           FromOwner == /\ HasState(o, o)
                        /\ c.version = neighbors[o][o].version
                        /\ c.state = Told(o, o)
<1>1. \A n \in Node \ {o} : HasState(n, o) => neighbors[n][o] \in Copies(o) /\ neighbors[n][o] \in LinkState
  BY DEF Copies, HasState, TypeOK
<1>2. CASE c \in updates' /\ c.owner = o
  <2>1. CASE c \in updates
    BY <1>2, <2>1 DEF Copies
  <2>2. CASE c \notin updates
    <3>1. PICK n \in Node, k \in Node :
             Running(n) /\ \E m \in Unacked(n, k) : c = UpdatePacket(n, m, k)
      BY <1>2, <2>2, UpdatesStep
    <3>2. k = o /\ HasState(n, o) /\ c.version = neighbors[n][o].version /\ c.state = Told(n, o)
      BY <1>2, <3>1 DEF UpdatePacket, Unacked
    <3>3. CASE n = o
      BY <3>2, <3>3
    <3>4. CASE n # o
      BY <1>1, <3>2, <3>4 DEF Told
    <3> QED  BY <3>3, <3>4
  <2> QED  BY <2>1, <2>2
<1>3. ASSUME NEW n \in Node \ {o}, HasState(n, o)', c = neighbors'[n][o]
      PROVE  Copied
  <2>1. CASE neighbors'[n][o] = neighbors[n][o]
    BY <1>1, <1>3, <2>1 DEF HasState
  <2>2. CASE Publishes(n, o)
    BY <2>2 DEF Publishes
  <2>3. ASSUME NEW p \in updates, Learns(n, o, p)
        PROVE  Copied
    <3>1. p \in Copies(o) /\ c = Updated(neighbors[n][o], p)
      BY <1>3, <2>3 DEF Learns, Copies
    <3>2. p \in LinkStateUpdate /\ neighbors[n][o] \in LinkState \cup {NoState}
      BY DEF TypeOK
    <3>3. CASE Replaces(neighbors[n][o], p, c)
      BY <3>1, <3>3 DEF Replaces
    <3>4. CASE Marks(neighbors[n][o], p, c) \/ Keeps(neighbors[n][o], p, c)
      BY <1>1, <3>4 DEF Marks, Keeps, HasState
    <3> QED  BY <3>1, <3>2, <3>3, <3>4, UpdatedCases
  <2>4. ASSUME NEW p \in acks, GetsAcked(n, o, p)
        PROVE  Copied
    <3>1. neighbors[n][o] \in Copies(o) /\ neighbors[n][o] \in LinkState
      BY <1>1, <2>4 DEF GetsAcked
    <3>2. c.version = neighbors[n][o].version /\ c.state = neighbors[n][o].state
      BY <1>3, <2>4, <3>1 DEF GetsAcked, LinkState
    <3> QED  BY <3>1, <3>2
  <2> HIDE DEF Copied
  <2> QED  BY <1>3, <2>1, <2>2, <2>3, <2>4, NeighborsStep
<1>4. \/ c \in updates' /\ c.owner = o
      \/ \E n \in Node \ {o} : HasState(n, o)' /\ c = neighbors'[n][o]
  BY DEF Copies
<1> QED  BY <1>2, <1>3, <1>4

\* Copies of one version agree.
LEMMA AgreementStep == IInv /\ [Next]_vars => Agreement'
<1> SUFFICES ASSUME IInv, [Next]_vars PROVE Agreement'
  OBVIOUS
<1>1. TypeOK /\ Chronology /\ Agreement
  BY DEF IInv
<1>2. ASSUME NEW o \in Node, NEW c \in Copies(o)', NEW d \in Copies(o)', c.version = d.version
      PROVE  c.state = d.state
  BY <1>1, <1>2, CopiesStep DEF Agreement, VersionDeterminesState
<1>3. ASSUME NEW o \in Node, NEW c \in Copies(o)',
             HasState(o, o)', c.version = neighbors'[o][o].version
      PROVE  c.state = Told(o, o)'
  <2>1. c.version <= clock[o] /\ c.version \in Nat /\ clock[o] \in Nat
    <3>1. \A d \in Copies(o) : d.version <= clock[o] /\ d.version \in Nat
      BY <1>1 DEF Copies, HasState, Chronology, TypeOK, LinkState, LinkStateUpdate, Time
    <3>2. HasState(o, o) => neighbors[o][o].version <= clock[o] /\ neighbors[o][o].version \in Nat
      BY <1>1 DEF HasState, Chronology, TypeOK, LinkState, Time
    <3>3. clock[o] \in Nat
      BY <1>1 DEF TypeOK, Time
    <3>4. \/ \E d \in Copies(o) : c.version = d.version
          \/ HasState(o, o) /\ c.version = neighbors[o][o].version
      BY <1>1, CopiesStep
    <3> QED  BY <3>1, <3>2, <3>3, <3>4
  <2>2. ASSUME HasState(o, o), neighbors'[o][o].version = neighbors[o][o].version,
               neighbors'[o][o].state = neighbors[o][o].state
        PROVE  c.state = Told(o, o)'
    <3>1. c.state = Told(o, o)
      BY <1>1, <1>3, <2>2, CopiesStep DEF Agreement
    <3> QED  BY <2>2, <3>1 DEF Told
  <2>3. CASE neighbors'[o][o] = neighbors[o][o]
    BY <1>3, <2>2, <2>3 DEF HasState
  <2>4. CASE Publishes(o, o)
    <3>1. neighbors'[o][o].version = clock[o] + 1
      BY <2>4 DEF Publishes
    <3> QED  BY <1>3, <2>1, <3>1
  <2>5. ASSUME NEW p \in updates, Learns(o, o, p)
        PROVE  FALSE
    BY <2>5 DEF Learns
  <2>6. ASSUME NEW p \in acks, GetsAcked(o, o, p)
        PROVE  c.state = Told(o, o)'
    <3>1. HasState(o, o) /\ neighbors[o][o] \in LinkState
      BY <1>1, <2>6 DEF GetsAcked, TypeOK, HasState
    <3>2. /\ neighbors'[o][o].version = neighbors[o][o].version
          /\ neighbors'[o][o].state = neighbors[o][o].state
      BY <2>6, <3>1 DEF GetsAcked, LinkState
    <3> QED  BY <2>2, <3>1, <3>2
  <2> QED  BY <1>1, <1>3, <2>3, <2>4, <2>5, <2>6, NeighborsStep
<1> QED  BY <1>2, <1>3 DEF Agreement, VersionDeterminesState

\* A node publishes at the new reading of its clock, and starts with nothing.
LEMMA LatestStep == IInv /\ [Next]_vars => Latest'
<1> SUFFICES ASSUME IInv, [Next]_vars PROVE Latest'
  OBVIOUS
<1>1. TypeOK /\ Latest
  BY DEF IInv
<1>2. ASSUME NEW n \in Node, NEW o \in Node, HasState(n, o)'
      PROVE  Running(n)'
  <2>1. CASE HasState(n, o)
    <3>1. Running(n)
      BY <1>1, <2>1 DEF Latest
    <3>2. boot'[n] = boot[n] \/ \E k \in Node : Crash(k) /\ k = n
      BY <1>1, <3>1 DEF TypeOK, Next, vars, nodeVars, Start, Crash, FloodLinkState, SendHello,
         HandleHello, CheckAdja, RemoveRoute, SendPendingLSDB, HandleLinkState, HandleACK
    <3>3. ~Crash(n)
      BY <1>1, <1>2 DEF Crash, NoNeighbors, HasState, TypeOK
    <3> QED  BY <3>1, <3>2, <3>3 DEF Running
  <2>2. CASE ~HasState(n, o)
    <3>1. neighbors'[n][o] # neighbors[n][o]
      BY <1>2, <2>2 DEF HasState
    <3>2. \/ FloodLinkState(n)
          \/ \E p \in updates : HandleLinkState(n, p)
          \/ \E p \in acks : HandleACK(n, p)
      BY <1>1, <1>2, <3>1, NeighborsStep DEF Publishes, Learns, GetsAcked
    <3> QED  BY <3>2 DEF FloodLinkState, HandleLinkState, HandleACK, Running
  <2> QED  BY <2>1, <2>2
<1>3. ASSUME NEW o \in Node, HasState(o, o)'
      PROVE  neighbors'[o][o].version = clock'[o]
  <2>1. CASE Publishes(o, o)
    BY <1>1, <2>1 DEF Publishes, FloodLinkState, TypeOK
  <2>2. ASSUME NEW p \in updates, Learns(o, o, p)
        PROVE  FALSE
    BY <2>2 DEF Learns
  <2>3. ASSUME NEW p \in acks, GetsAcked(o, o, p)
        PROVE  neighbors'[o][o].version = clock'[o]
    <3>1. HasState(o, o) /\ neighbors[o][o] \in LinkState
      BY <1>1, <2>3 DEF GetsAcked, TypeOK, HasState
    <3>2. neighbors'[o][o].version = neighbors[o][o].version /\ clock' = clock
      BY <2>3, <3>1 DEF GetsAcked, LinkState, HandleACK
    <3> QED  BY <1>1, <3>1, <3>2 DEF Latest
  <2>4. CASE neighbors'[o][o] = neighbors[o][o] /\ ~Publishes(o, o)
    <3>1. HasState(o, o)
      BY <1>3, <2>4 DEF HasState
    <3>2. Running(o) /\ neighbors[o][o].version = clock[o]
      BY <1>1, <3>1 DEF Latest
    <3>3. ~FloodLinkState(o)
      <4>1. FloodLinkState(o) => neighbors'[o][o].version = clock[o] + 1
        BY <1>1 DEF FloodLinkState, TypeOK
      <4> QED  BY <1>1, <2>4, <3>2, <4>1 DEF TypeOK, Time
    <3>4. clock'[o] = clock[o]
      BY <1>1, <3>2, <3>3 DEF TypeOK, Next, vars, nodeVars, Start, Crash, FloodLinkState,
         SendHello, HandleHello, CheckAdja, RemoveRoute, SendPendingLSDB, HandleLinkState,
         HandleACK
    <3> QED  BY <2>4, <3>2, <3>4
  <2> QED  BY <1>1, <1>3, <2>1, <2>2, <2>3, <2>4, NeighborsStep
<1> QED  BY <1>2, <1>3 DEF Latest

-----------------------------------------------------------------------------
(* The theorems *)

\* The inductive invariant holds of every behaviour.
THEOREM Invariance == Spec => []IInv
<1>1. IInv /\ [Next]_vars => IInv'
  BY NextType, ChronologyStep, ApartStep, EvidenceStep, AgreementStep, LatestStep DEF IInv
<1> QED  BY InitIInv, <1>1, PTL DEF Spec

\* No node is ever sent its own link state: the "bug" of ospf.go:352 cannot happen.
THEOREM NoSelfUpdates == Spec => []NoSelfUpdate
<1>1. IInv => NoSelfUpdate
  BY DEF IInv, Apart, NoSelfUpdate
<1> QED  BY Invariance, <1>1, PTL

\* Who is marked as having acknowledged since it started is the one that runs.
LEMMA AckedKnown == IInv => AckedIsKnown
<1> SUFFICES ASSUME IInv, NEW n \in Node, NEW o \in Node, NEW m \in Node,
                    HasState(n, o), m # o, Running(m),
                    neighbors[n][o].acked[m] >= boot[m]
             PROVE  HasState(m, o) /\ neighbors[m][o].version >= neighbors[n][o].version
  BY DEF AckedIsKnown
<1>1. neighbors[n][o].acked[m] # Forever
  BY DEF IInv, Apart
<1>2. neighbors[n][o].acked[m] <= boot[m]
  BY <1>1 DEF IInv, Chronology, Booted
<1>3. boot[m] \in Nat \ {0} /\ neighbors[n][o].acked[m] \in Nat
  BY DEF IInv, TypeOK, HasState, LinkState, Running, Time
<1>4. neighbors[n][o].acked[m] = boot[m]
  BY <1>2, <1>3
<1> QED  BY <1>1, <1>3, <1>4 DEF IInv, Evidence, Knows

\* Retransmission ends only when the incarnation that is now adjacent knows.
THEOREM AckedImpliesKnown == Spec => []AckedIsKnown
<1> QED  BY Invariance, AckedKnown, PTL

\* One version of one owner is one link state, through all restarts and losses.
THEOREM VersionsAreStates == Spec => []VersionDeterminesState
<1>1. IInv => VersionDeterminesState
  BY DEF IInv, Agreement
<1> QED  BY Invariance, <1>1, PTL

\* The adjacents of a leaf stay with the leaf.
THEOREM LeavesHide == Spec => []LeafHidesAdjacents
<1>1. Init => LeafHidesAdjacents
  BY LeafAssumption DEF Init, LeafHidesAdjacents, Copies, HasState, NoNeighbors
<1>2. IInv /\ LeafHidesAdjacents /\ [Next]_vars => LeafHidesAdjacents'
  BY LeafAssumption, CopiesStep DEF IInv, LeafHidesAdjacents, Told
<1> QED  BY Invariance, <1>1, <1>2, PTL DEF Spec

\* No handler replaces a link state by an older one.
THEOREM DatabasesNeverRollBack == Spec => NoRollback
<1>1. IInv /\ [Next]_vars =>
         [\A n, o \in Node :
             /\ HasState(n, o)
             /\ boot'[n] = boot[n]
             => /\ neighbors'[n][o] # NoState
                /\ neighbors'[n][o].version >= neighbors[n][o].version]_vars
  BY NeverForgets DEF IInv, HasState
<1> QED  BY Invariance, <1>1, PTL DEF Spec, NoRollback

\* A handler that changes what the node would publish leaves a flood pending.
LEMMA UnpublishedStep == TypeOK /\ NothingUnpublished /\ [Next]_vars => NothingUnpublished'
<1> SUFFICES ASSUME TypeOK, NothingUnpublished, [Next]_vars, NEW k \in Node, ~pendingFlood'[k]
             PROVE  MyLinkState(k)' =
                       IF HasState(k, k)' THEN neighbors'[k][k].state ELSE EmptyDB
  BY DEF NothingUnpublished, EmptyDB
<1> DEFINE Told0 == IF HasState(k, k) THEN neighbors[k][k].state ELSE EmptyDB
           Told1 == IF HasState(k, k)' THEN neighbors'[k][k].state ELSE EmptyDB
           SameTold == Told1 = Told0
           SameState == MyLinkState(k)' = MyLinkState(k) /\ ~pendingFlood[k]
<1> USE DEF TypeOK
<1>1. ~pendingFlood[k] => MyLinkState(k) = Told0
  BY DEF NothingUnpublished
<1>2. ASSUME NEW n \in Node, Crash(n)
      PROVE  MyLinkState(k)' = Told1
  <2>1. CASE n = k
    BY <1>2, <2>1 DEF Crash, MyLinkState, IsAdjacent, HasState, NoAdjacents, NoNeighbors, EmptyDB
  <2>2. CASE n # k
    <3>1. /\ adjacents'[k] = adjacents[k] /\ neighbors'[k] = neighbors[k]
          /\ pendingFlood'[k] = pendingFlood[k]
      BY <1>2, <2>2 DEF Crash
    <3> QED  BY <1>1, <3>1 DEF MyLinkState, IsAdjacent, HasState
  <2> QED  BY <2>1, <2>2
<1>3. ASSUME NEW n \in Node, FloodLinkState(n)
      PROVE  MyLinkState(k)' = Told1
  <2>1. MyLinkState(k)' = MyLinkState(k)
    BY <1>3 DEF FloodLinkState, MyLinkState, IsAdjacent
  <2>2. CASE n = k
    <3>1. neighbors'[k][k] = [version |-> clock[k] + 1, state |-> MyLinkState(k), acked |-> NoAcks]
      BY <1>3, <2>2 DEF FloodLinkState
    <3>2. neighbors'[k][k] \in LinkState
      BY <1>3, <2>2, <3>1 DEF FloodLinkState, LinkState, MyLinkState, NoAcks, DB, Adjacent, IsAdjacent, Time
    <3> QED  BY <2>1, <3>1, <3>2 DEF HasState
  <2>3. CASE n # k
    <3>1. neighbors'[k] = neighbors[k] /\ pendingFlood'[k] = pendingFlood[k]
      BY <1>3, <2>3 DEF FloodLinkState
    <3> QED  BY <1>1, <2>1, <3>1 DEF HasState
  <2> QED  BY <2>2, <2>3
<1>4. ASSUME NEW n \in Node, NEW p \in hellos, HandleHello(n, p)
      PROVE  SameState
  <2>1. CASE UNCHANGED <<adjacents, pendingFlood>>
    BY <2>1 DEF MyLinkState, IsAdjacent
  <2>2. ASSUME NEW metric \in Metric,
               adjacents' = [adjacents EXCEPT ![n][p.src] = [boot |-> p.boot, metric |-> metric]],
               pendingFlood' = [pendingFlood EXCEPT ![n] =
                       \/ @
                       \/ ~IsAdjacent(n, p.src)
                       \/ metric # adjacents[n][p.src].metric]
        PROVE  SameState
    <3>1. CASE n = k
      <4>1. /\ ~pendingFlood[k]
            /\ IsAdjacent(k, p.src)
            /\ metric = adjacents[k][p.src].metric
        BY <2>2, <3>1
      <4>2. p.src \in Node /\ [boot |-> p.boot, metric |-> metric] \in Adjacent
        BY DEF Hello, Adjacent
      <4>3. \A m \in Node : \/ adjacents'[k][m] = adjacents[k][m]
                            \/ /\ IsAdjacent(k, m) /\ IsAdjacent(k, m)'
                               /\ adjacents'[k][m].metric = adjacents[k][m].metric
        BY <2>2, <3>1, <4>1, <4>2 DEF IsAdjacent
      <4> QED  BY <4>1, <4>3 DEF MyLinkState, IsAdjacent
    <3>2. CASE n # k
      <4>1. adjacents'[k] = adjacents[k] /\ pendingFlood'[k] = pendingFlood[k]
        BY <2>2, <3>2
      <4> QED  BY <4>1 DEF MyLinkState, IsAdjacent
    <3> QED  BY <3>1, <3>2
  <2> QED  BY <1>4, <2>1, <2>2 DEF HandleHello, UpdateMetric
<1>5. ASSUME NEW n \in Node, CheckAdja(n)
      PROVE  SameState
  <2>1. PICK new \in [{m \in Node : IsAdjacent(n, m)} -> Metric \cup {NoMetric}] :
           /\ adjacents' = [adjacents EXCEPT ![n] =
                 [m \in Node |->
                     IF m \in DOMAIN new /\ new[m] # NoMetric
                       THEN [boot |-> adjacents[n][m].boot, metric |-> new[m]]
                       ELSE NoAdja]]
           /\ pendingFlood' = [pendingFlood EXCEPT ![n] =
                 @ \/ \E m \in DOMAIN new : new[m] # adjacents[n][m].metric]
    BY <1>5 DEF CheckAdja
  <2>2. CASE n = k
    <3>1. ~pendingFlood[k] /\ \A m \in Node : IsAdjacent(k, m) => new[m] = adjacents[k][m].metric
      BY <2>1, <2>2
    <3>2. \A m \in Node : IsAdjacent(k, m) => adjacents[k][m] \in Adjacent
      BY DEF IsAdjacent
    <3>3. \A m \in Node :
             \/ ~IsAdjacent(k, m) /\ ~IsAdjacent(k, m)'
             \/ /\ IsAdjacent(k, m) /\ IsAdjacent(k, m)'
                /\ adjacents'[k][m].metric = adjacents[k][m].metric
      <4> SUFFICES ASSUME NEW m \in Node
                   PROVE  \/ ~IsAdjacent(k, m) /\ ~IsAdjacent(k, m)'
                          \/ /\ IsAdjacent(k, m) /\ IsAdjacent(k, m)'
                             /\ adjacents'[k][m].metric = adjacents[k][m].metric
        OBVIOUS
      <4>1. adjacents'[k][m] = IF m \in DOMAIN new /\ new[m] # NoMetric
                       THEN [boot |-> adjacents[k][m].boot, metric |-> new[m]]
                       ELSE NoAdja
        BY <2>1, <2>2
      <4>2. CASE IsAdjacent(k, m)
        <5>1. /\ new[m] # NoMetric /\ m \in DOMAIN new
              /\ [boot |-> adjacents[k][m].boot, metric |-> new[m]] \in Adjacent
          BY <2>2, <3>1, <3>2, <4>2 DEF Adjacent
        <5> QED  BY <3>1, <4>1, <4>2, <5>1 DEF IsAdjacent
      <4>3. CASE ~IsAdjacent(k, m)
        BY <2>2, <4>1, <4>3 DEF IsAdjacent
      <4> QED  BY <4>2, <4>3
    <3> QED  BY <3>1, <3>3 DEF MyLinkState
  <2>3. CASE n # k
    <3>1. adjacents'[k] = adjacents[k] /\ pendingFlood'[k] = pendingFlood[k]
      BY <2>1, <2>3
    <3> QED  BY <3>1 DEF MyLinkState, IsAdjacent
  <2> QED  BY <2>2, <2>3
<1>6. ASSUME NEW n \in Node, NEW m \in Node, RemoveRoute(n, m)
      PROVE  SameState
  <2>1. n # k
    BY <1>6 DEF RemoveRoute
  <2>2. adjacents'[k] = adjacents[k] /\ pendingFlood'[k] = pendingFlood[k]
    BY <1>6, <2>1 DEF RemoveRoute
  <2> QED  BY <2>2 DEF MyLinkState, IsAdjacent
<1>7. ASSUME NEW n \in Node, NEW p \in updates, HandleLinkState(n, p)
      PROVE  neighbors'[k][k] = neighbors[k][k]
  BY <1>7 DEF HandleLinkState, UpdateLSDB, LinkStateUpdate
<1>8. ASSUME NEW n \in Node, NEW p \in acks, HandleACK(n, p)
      PROVE  SameTold
  <2>1. ASSUME HasState(k, k)
        PROVE  /\ [neighbors[k][k] EXCEPT !.acked[p.src] = p.boot] # NoState
               /\ [neighbors[k][k] EXCEPT !.acked[p.src] = p.boot].state = neighbors[k][k].state
    <3>1. neighbors[k][k] \in LinkState
      BY <2>1 DEF HasState
    <3>2. [neighbors[k][k].acked EXCEPT ![p.src] = p.boot] \in [Node -> 0 .. Forever]
      BY <3>1 DEF LinkState, LinkStateACK, Time
    <3>3. [neighbors[k][k] EXCEPT !.acked[p.src] = p.boot] \in LinkState
      BY <3>1, <3>2 DEF LinkState
    <3> QED  BY <3>1, <3>3 DEF LinkState
  <2>2. \/ neighbors'[k][k] = neighbors[k][k]
        \/ /\ HasState(k, k)
           /\ neighbors'[k][k] = [neighbors[k][k] EXCEPT !.acked[p.src] = p.boot]
    BY <1>8 DEF HandleACK, LinkStateACK
  <2> QED  BY <2>1, <2>2 DEF HasState
<1>9. ASSUME SameState, SameTold
      PROVE  MyLinkState(k)' = Told1
  BY <1>1, <1>9
<1>10. neighbors'[k][k] = neighbors[k][k] => SameTold
  BY DEF HasState
<1>11. UNCHANGED <<adjacents, pendingFlood>> => SameState
  BY DEF MyLinkState, IsAdjacent
<1>12. UNCHANGED neighbors => SameTold
  BY DEF HasState
<1> HIDE DEF SameState, SameTold, Told1
<1>13. MyLinkState(k)' = Told1
  BY <1>2, <1>3, <1>4, <1>5, <1>6, <1>7, <1>8, <1>9, <1>10, <1>11, <1>12
     DEF Next, vars, nodeVars, Start, SendHello, HandleHello, CheckAdja, RemoveRoute,
         SendPendingLSDB, HandleLinkState, HandleACK
<1> QED  BY <1>13 DEF Told1

\* A change of the adjacents is published or is going to be.
THEOREM NothingStaysUnpublished == Spec => []NothingUnpublished
<1>1. Init => NothingUnpublished
  BY DEF Init, NothingUnpublished, MyLinkState, IsAdjacent, HasState, NoAdjacents, NoNeighbors, EmptyDB
<1> QED  BY <1>1, TypeCorrect, UnpublishedStep, PTL DEF Spec

-----------------------------------------------------------------------------
(* Agreement in quiet *)

\* An adjacent with nothing left to acknowledge knows what n knows, but for what it
\* knows best: its own link state.
LEMMA SettledKnows ==
    ASSUME IInv, NEW n \in Node, NEW m \in Node, Settled(n, m),
           NEW o \in Node \ {m}, HasState(n, o)
    PROVE  HasState(m, o) /\ neighbors[m][o].version >= neighbors[n][o].version
<1>1. /\ neighbors[n][o].acked[m] \in Nat /\ boot[m] \in Nat
      /\ Running(m) /\ IsAdjacent(n, m) /\ adjacents[n][m].boot = boot[m]
  BY DEF IInv, TypeOK, Settled, HasState, LinkState, Time
<1>2. ~(neighbors[n][o].acked[m] < adjacents[n][m].boot)
  BY <1>1 DEF Settled, Unacked
<1> QED  BY <1>1, <1>2, AckedKnown DEF AckedIsKnown

\* A node that is settled with another has published its adjacents, and the other
\* holds what it has published.
LEMMA SettledOwner ==
    ASSUME IInv, NothingUnpublished,
           NEW n \in Node, NEW m \in Node, n # m, Settled(n, m), Settled(m, n)
    PROVE  /\ HasState(m, m) /\ HasState(n, m)
           /\ neighbors[n][m].version = neighbors[m][m].version
           /\ neighbors[n][m].state = Told(m, m)
           /\ Told(m, m) = IF m \in Leaf THEN EmptyDB ELSE MyLinkState(m)
<1>1. ~pendingFlood[m] /\ IsAdjacent(m, n)
  BY DEF Settled
<1>2. MyLinkState(m) = IF HasState(m, m) THEN neighbors[m][m].state ELSE EmptyDB
  BY <1>1 DEF NothingUnpublished
<1>3. MyLinkState(m)[n] # NoMetric
  BY <1>1 DEF MyLinkState, IsAdjacent, IInv, TypeOK, Adjacent
<1>4. HasState(m, m)
  BY <1>2, <1>3 DEF EmptyDB
<1>5. HasState(n, m) /\ neighbors[n][m].version >= neighbors[m][m].version
  BY <1>4, SettledKnows
<1>6. /\ neighbors[n][m].version <= clock[m] /\ neighbors[m][m].version = clock[m]
      /\ neighbors[n][m].version \in Nat /\ clock[m] \in Nat
  BY <1>4, <1>5 DEF IInv, Chronology, Latest, TypeOK, HasState, LinkState, Time
<1>7. neighbors[n][m].version = neighbors[m][m].version
  BY <1>5, <1>6
<1>8. neighbors[n][m] \in Copies(m)
  BY <1>5 DEF Copies
<1>9. neighbors[n][m].state = Told(m, m)
  BY <1>4, <1>7, <1>8 DEF IInv, Agreement
<1>10. Told(m, m) = IF m \in Leaf THEN EmptyDB ELSE MyLinkState(m)
  BY <1>2, <1>4 DEF Told
<1> QED  BY <1>4, <1>5, <1>7, <1>9, <1>10

\* Two nodes that are settled both ways have the same database.
LEMMA SettledAgree ==
    ASSUME IInv, NothingUnpublished,
           NEW n \in Node, NEW m \in Node, n # m, Settled(n, m), Settled(m, n),
           NEW o \in Node
    PROVE  View(n, o) = View(m, o)
<1>1. CASE o = m
  BY <1>1, SettledOwner DEF View, Told
<1>2. CASE o = n
  BY <1>2, SettledOwner DEF View, Told
<1>3. CASE o # n /\ o # m
  <2>1. HasState(n, o) <=> HasState(m, o)
    BY <1>3, SettledKnows
  <2>2. CASE ~HasState(n, o)
    BY <2>1, <2>2 DEF View
  <2>3. CASE HasState(n, o)
    <3>1. /\ neighbors[m][o].version >= neighbors[n][o].version
          /\ neighbors[n][o].version >= neighbors[m][o].version
      BY <1>3, <2>1, <2>3, SettledKnows
    <3>2. neighbors[n][o].version \in Nat /\ neighbors[m][o].version \in Nat
      BY <2>1, <2>3 DEF IInv, TypeOK, HasState, LinkState, Time
    <3>3. neighbors[n][o].version = neighbors[m][o].version
      BY <3>1, <3>2
    <3>4. neighbors[n][o] \in Copies(o) /\ neighbors[m][o] \in Copies(o)
      BY <1>3, <2>1, <2>3 DEF Copies
    <3>5. neighbors[n][o].state = neighbors[m][o].state
      BY <3>3, <3>4 DEF IInv, Agreement, VersionDeterminesState
    <3> QED  BY <1>3, <2>1, <2>3, <3>3, <3>5 DEF View, Told
  <2> QED  BY <2>2, <2>3
<1> QED  BY <1>1, <1>2, <1>3

\* When nothing is left to resend between them, connected nodes have the same
\* database, and each is in it with the adjacents it has now.
THEOREM QuietNodesAgree == Spec => []QuietMeansAgreement
<1>1. IInv /\ NothingUnpublished => QuietMeansAgreement
  <2> SUFFICES ASSUME IInv, NothingUnpublished, NEW S \in SUBSET Node, Connected(S), NEW n \in S
               PROVE  /\ \A m \in S : Held[n] = Held[m]
                      /\ \A o \in S \ {n} :
                            /\ HasState(n, o)
                            /\ neighbors[n][o].state =
                                  IF o \in Leaf THEN EmptyDB ELSE MyLinkState(o)
    BY DEF QuietMeansAgreement
  <2>1. \A m \in S : Held[n] = Held[m]
    <3> DEFINE T == {k \in S : Held[n] = Held[k]}
    <3> SUFFICES ASSUME T # S
                 PROVE  FALSE
      OBVIOUS
    <3>1. T \in SUBSET S /\ T \notin {{}, S}
      OBVIOUS
    <3>2. PICK k \in T, m \in S \ T : Settled(k, m) /\ Settled(m, k)
      BY <3>1 DEF Connected
    <3>3. Held[k] = Held[m]
      BY <3>2, SettledAgree DEF Held
    <3> QED  BY <3>2, <3>3
  <2>2. ASSUME NEW o \in S \ {n}
        PROVE  /\ HasState(n, o)
               /\ neighbors[n][o].state = IF o \in Leaf THEN EmptyDB ELSE MyLinkState(o)
    <3>1. {o} \in SUBSET S /\ {o} \notin {{}, S}
      OBVIOUS
    <3>2. PICK m \in S \ {o} : Settled(o, m) /\ Settled(m, o)
      <4>1. \E k \in {o} : \E m \in S \ {o} : Settled(k, m) /\ Settled(m, k)
        BY <3>1 DEF Connected
      <4> QED  BY <4>1
    <3>3. /\ HasState(o, o)
          /\ Told(o, o) = IF o \in Leaf THEN EmptyDB ELSE MyLinkState(o)
      BY <3>2, SettledOwner
    <3>4. View(n, o) = View(o, o)
      BY <2>1 DEF Held
    <3>5. View(o, o) = [version |-> neighbors[o][o].version, state |-> Told(o, o)]
      BY <3>3 DEF View
    <3>6. View(o, o) # NoState
      <4>1. neighbors[o][o] \in LinkState
        BY <3>3 DEF IInv, TypeOK, HasState
      <4>2. View(o, o) \in [version : Time, state : DB]
        BY <3>5, <4>1 DEF Told, LinkState, EmptyDB, DB
      <4> QED  BY <4>2, AbsentAssumption
    <3>7. /\ HasState(n, o)
          /\ View(n, o) = [version |-> neighbors[n][o].version, state |-> neighbors[n][o].state]
      BY <3>4, <3>6 DEF View, Told
    <3> QED  BY <3>3, <3>4, <3>5, <3>7
  <2> QED  BY <2>1, <2>2
<1> QED  BY <1>1, Invariance, NothingStaysUnpublished, PTL
=============================================================================
