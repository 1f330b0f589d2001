--------------------------- MODULE FloodingProofs ---------------------------
(***************************************************************************)
(* LinkStateDB implements Flooding, for all values of its constants: the   *)
(* databases change only by publishing, forgetting, and learning a later   *)
(* copy that was told by a node that held it.                              *)
(***************************************************************************)
EXTENDS LinkStateDBProofs

USE LinksAssumption, ClockAssumption, AbsentAssumption

\* The adjacencies, the hellos and the acknowledgements are hidden.
LEMMA SameDatabases ==
    ASSUME UNCHANGED neighbors
    PROVE  UNCHANGED Held
  BY DEF Held, View, HasState, Told

LEMMA SameUpdates ==
    ASSUME UNCHANGED updates
    PROVE  UNCHANGED InFlight
  BY DEF InFlight

\* What arrives, or gets lost, was told before.
LEMMA FewerInFlight ==
    ASSUME updates' \subseteq updates
    PROVE  InFlight' \subseteq InFlight
  BY DEF InFlight

\* A step of one entry of a database is a step of one entry of the abstract one.
LEMMA OneEntry ==
    ASSUME NEW k \in Node, NEW o \in Node, NEW view,
           View(k, o)' = view,
           \A n, q \in Node : n # k \/ q # o => View(n, q)' = View(n, q)
    PROVE  Held' = [Held EXCEPT ![k][o] = view]
  BY DEF Held

\* A database with other acknowledgements tells the same.
LEMMA SameView ==
    ASSUME NEW n \in Node, NEW o \in Node,
           HasState(n, o), HasState(n, o)',
           neighbors'[n][o].version = neighbors[n][o].version,
           neighbors'[n][o].state = neighbors[n][o].state
    PROVE  View(n, o)' = View(n, o)
  BY DEF View, Told

LEMMA Unmoved ==
    ASSUME NEW n \in Node, NEW o \in Node, neighbors'[n][o] = neighbors[n][o]
    PROVE  View(n, o)' = View(n, o)
  BY DEF View, Told, HasState

-----------------------------------------------------------------------------
(* One step *)

LEMMA CrashForgets ==
    ASSUME TypeOK, NEW k \in Node, Crash(k)
    PROVE  Abstract!Forget(k)
<1>1. Held' = [Held EXCEPT ![k] = [o \in Node |-> NoState]]
  <2>1. \A o \in Node : View(k, o)' = NoState
    BY DEF Crash, View, HasState, NoNeighbors, TypeOK
  <2>2. \A n \in Node \ {k}, o \in Node : View(n, o)' = View(n, o)
    BY Unmoved DEF Crash, TypeOK
  <2> QED  BY <2>1, <2>2 DEF Held
<1>2. UNCHANGED <<clock, InFlight>>
  BY SameUpdates DEF Crash, netVars
<1> QED  BY <1>1, <1>2 DEF Abstract!Forget, Abstract!Nothing

LEMMA FloodLinkStatePublishes ==
    ASSUME TypeOK, NEW k \in Node, FloodLinkState(k)
    PROVE  Abstract!Publish(k)
<1> DEFINE view == [version |-> clock[k] + 1, state |-> Told(k, k)']
<1>1. Told(k, k)' \in DB
  <2>1. EmptyDB \in DB
    BY DEF EmptyDB, DB
  <2>2. MyLinkState(k) \in DB
    BY DEF MyLinkState, DB, TypeOK, IsAdjacent, Adjacent
  <2>3. neighbors'[k][k].state = MyLinkState(k)
    BY DEF FloodLinkState, TypeOK
  <2> QED  BY <2>1, <2>2, <2>3 DEF Told
<1>2. Held' = [Held EXCEPT ![k][k] = view]
  <2>1. /\ neighbors'[k][k].version = clock[k] + 1
        /\ neighbors'[k][k] \in LinkState
    <3>1. TypeOK'
      BY NextType DEF Next
    <3>2. neighbors'[k][k] # NoState
      <4>1. neighbors'[k][k] = [version |-> clock[k] + 1, state |-> MyLinkState(k),
                                acked |-> NoAcks]
        BY DEF FloodLinkState, TypeOK
      <4>2. MyLinkState(k) \in DB /\ NoAcks \in [Node -> 0 .. Forever] /\ clock[k] + 1 \in Time
        BY DEF MyLinkState, DB, TypeOK, IsAdjacent, Adjacent, NoAcks, Time, FloodLinkState
      <4> QED  BY <4>1, <4>2 DEF LinkState
    <3> QED  BY <3>1, <3>2 DEF TypeOK, FloodLinkState
  <2>2. View(k, k)' = view
    BY <2>1 DEF View, HasState
  <2>3. \A n, q \in Node : n # k \/ q # k => View(n, q)' = View(n, q)
    BY Unmoved DEF FloodLinkState, TypeOK
  <2> QED  BY <2>2, <2>3, OneEntry
<1>3. /\ clock' = [clock EXCEPT ![k] = @ + 1]
      /\ UNCHANGED InFlight
  BY SameUpdates DEF FloodLinkState, netVars
<1> QED  BY <1>1, <1>2, <1>3 DEF Abstract!Publish

LEMMA SendPendingLSDBTells ==
    ASSUME TypeOK, NEW k \in Node, SendPendingLSDB(k)
    PROVE  Abstract!Tell(k)
<1>1. UNCHANGED <<clock, Held>>
  BY SameDatabases DEF SendPendingLSDB, nodeVars
<1>2. ASSUME NEW p \in updates', p \notin updates
      PROVE  \E o \in Node : /\ Abstract!Holds(k, o)
                             /\ Abstract!Telling(k, o) =
                                   [owner |-> p.owner, version |-> p.version, state |-> p.state]
  <2>1. PICK o \in Node, m \in Node : m \in Unacked(k, o) /\ p = UpdatePacket(k, m, o)
    <3>1. p \in UNION {{UpdatePacket(k, m, o) : m \in Unacked(k, o)} : o \in Node}
      BY <1>2, SendBounds DEF SendPendingLSDB
    <3> QED  BY <3>1 DEF Unacked
  <2>2. HasState(k, o)
    BY <2>1 DEF Unacked
  <2>3. Held[k][o] = [version |-> neighbors[k][o].version, state |-> Told(k, o)]
    BY <2>2 DEF Held, View
  <2>4. Held[k][o] # NoState
    <3>1. EmptyDB \in DB
      BY DEF EmptyDB, DB
    <3>2. Told(k, o) \in DB /\ neighbors[k][o].version \in Time
      BY <2>2, <3>1 DEF TypeOK, LinkState, HasState, Told
    <3> QED  BY <2>3, <3>2
  <2> QED  BY <2>1, <2>3, <2>4 DEF Abstract!Holds, Abstract!Telling, UpdatePacket
<1>3. InFlight' \subseteq
         InFlight \cup {Abstract!Telling(k, o) : o \in {q \in Node : Abstract!Holds(k, q)}}
  BY <1>2 DEF InFlight
<1> QED  BY <1>1, <1>3 DEF Abstract!Tell

\* Which updates a delivery takes out of the network does not matter: they had
\* been told, and the database learns at most from the one that is delivered.
LEMMA HandleLinkStateLearns ==
    ASSUME TypeOK, NEW k \in Node, NEW p \in updates, HandleLinkState(k, p)
    PROVE  \/ Abstract!Tell(k)
           \/ \E copy \in InFlight : Abstract!Learn(k, copy)
<1> DEFINE o == p.owner
           copy == [owner |-> o, version |-> p.version, state |-> p.state]
<1>1. /\ UNCHANGED clock
      /\ InFlight' \subseteq InFlight
      /\ o \in Node
      /\ p \in LinkStateUpdate
  BY FewerInFlight, ConsumeBounds DEF HandleLinkState, TypeOK, LinkStateUpdate
<1>2. CASE o = k
  <2>1. UNCHANGED Held
    BY <1>2, SameDatabases DEF HandleLinkState
  <2> QED  BY <1>1, <2>1 DEF Abstract!Tell
<1>3. CASE o # k
  <2> DEFINE old == neighbors[k][o]
             new == neighbors'[k][o]
  <2>1. /\ new = Updated(old, p)
        /\ \A n, q \in Node : n # k \/ q # o => neighbors'[n][q] = neighbors[n][q]
    BY <1>1, <1>3 DEF HandleLinkState, UpdateLSDB, TypeOK
  <2>2. \A n, q \in Node : n # k \/ q # o => View(n, q)' = View(n, q)
    BY <2>1, Unmoved
  <2>3. old \in LinkState \cup {NoState} /\ new \in LinkState
    BY <1>1, <2>1, UpdatedType DEF TypeOK
  <2>4. HasState(k, o)'
    BY <2>3 DEF HasState
  <2>5. Replaces(old, p, new) \/ Marks(old, p, new) \/ Keeps(old, p, new)
    BY <1>1, <2>1, <2>3, UpdatedCases
  <2>6. CASE Replaces(old, p, new)
    <3>1. View(k, o)' = [version |-> p.version, state |-> p.state]
      BY <1>3, <2>4, <2>6 DEF View, Told, Replaces
    <3>2. Held' = [Held EXCEPT ![k][o] = [version |-> p.version, state |-> p.state]]
      BY <1>1, <2>2, <3>1, OneEntry
    <3>3. Abstract!Holds(k, o) => Held[k][o].version < p.version
      BY <1>1, <2>6 DEF Abstract!Holds, Held, View, HasState, Replaces
    <3>4. Abstract!Learn(k, copy)
      BY <1>1, <1>3, <3>2, <3>3 DEF Abstract!Learn
    <3> QED  BY <3>4 DEF InFlight
  <2>7. CASE Marks(old, p, new) \/ Keeps(old, p, new)
    <3>1. View(k, o)' = View(k, o)
      BY <1>1, <2>4, <2>7, SameView DEF Marks, Keeps, HasState
    <3>2. UNCHANGED Held
      BY <2>2, <3>1 DEF Held
    <3> QED  BY <1>1, <3>2 DEF Abstract!Tell
  <2> QED  BY <2>5, <2>6, <2>7
<1> QED  BY <1>2, <1>3

LEMMA HandleACKIsHidden ==
    ASSUME TypeOK, NEW k \in Node, NEW p \in acks, HandleACK(k, p)
    PROVE  UNCHANGED <<clock, Held, InFlight>>
<1> DEFINE o == p.owner
<1>1. UNCHANGED <<clock, InFlight>>
  BY SameUpdates DEF HandleACK
<1>2. CASE UNCHANGED neighbors
  BY <1>1, <1>2, SameDatabases
<1>3. CASE neighbors' # neighbors
  <2>1. /\ o \in Node
        /\ HasState(k, o)
        /\ neighbors' = [neighbors EXCEPT ![k][o].acked[p.src] = p.boot]
    BY <1>3 DEF HandleACK, TypeOK, LinkStateACK
  <2>2. /\ \A n, q \in Node : n # k \/ q # o => neighbors'[n][q] = neighbors[n][q]
        /\ neighbors'[k][o] = [neighbors[k][o] EXCEPT !.acked[p.src] = p.boot]
    BY <2>1 DEF TypeOK
  <2>3. neighbors[k][o] \in LinkState
    BY <2>1 DEF TypeOK, HasState
  <2>4. /\ neighbors'[k][o].version = neighbors[k][o].version
        /\ neighbors'[k][o].state = neighbors[k][o].state
    BY <2>2, <2>3 DEF LinkState
  <2>5. HasState(k, o)'
    <3>1. TypeOK'
      BY NextType DEF Next
    <3>2. neighbors'[k][o] \in LinkState
      <4>1. [neighbors[k][o].acked EXCEPT ![p.src] = p.boot] \in [Node -> 0 .. Forever]
        BY <2>3 DEF LinkState, TypeOK, LinkStateACK, Time
      <4> QED  BY <2>2, <2>3, <4>1 DEF LinkState
    <3> QED  BY <3>2 DEF HasState
  <2>6. View(k, o)' = View(k, o)
    BY <2>1, <2>4, <2>5, SameView
  <2>7. UNCHANGED Held
    BY <2>2, <2>6, Unmoved DEF Held
  <2> QED  BY <1>1, <2>7
<1> QED  BY <1>2, <1>3

-----------------------------------------------------------------------------
(* The refinement *)

LEMMA StepRefines == TypeOK /\ [Next]_vars => [Abstract!Next]_(Abstract!vars)
<1> SUFFICES ASSUME TypeOK, [Next]_vars
             PROVE  Abstract!Next \/ UNCHANGED <<clock, Held, InFlight>>
  BY DEF Abstract!vars
<1>1. ASSUME NEW k \in Node, Start(k)
      PROVE  Abstract!Tick(k)
  <2>1. clock' = [clock EXCEPT ![k] = @ + 1]
    BY <1>1 DEF Start
  <2>2. UNCHANGED <<Held, InFlight>>
    BY <1>1, SameDatabases, SameUpdates DEF Start, netVars
  <2> QED  BY <2>1, <2>2 DEF Abstract!Tick
<1>2. ASSUME NEW k \in Node, \/ CheckAdja(k)
                             \/ \E m \in Node : SendHello(k, m) \/ RemoveRoute(k, m)
                             \/ \E p \in hellos : HandleHello(k, p)
      PROVE  UNCHANGED <<clock, Held, InFlight>>
  <2>1. UNCHANGED <<clock, neighbors, updates>>
    BY <1>2 DEF CheckAdja, SendHello, RemoveRoute, HandleHello, netVars, nodeVars
  <2> QED  BY <2>1, SameDatabases, SameUpdates
<1>3. CASE UNCHANGED vars
  BY <1>3, SameDatabases, SameUpdates DEF vars
<1>4. CASE Next
  <2> SUFFICES ASSUME NEW k \in Node,
                      \/ Start(k) \/ Crash(k) \/ CheckAdja(k) \/ FloodLinkState(k)
                      \/ SendPendingLSDB(k)
                      \/ \E m \in Node : SendHello(k, m) \/ RemoveRoute(k, m)
                      \/ \E p \in hellos : HandleHello(k, p)
                      \/ \E p \in updates : HandleLinkState(k, p)
                      \/ \E p \in acks : HandleACK(k, p)
               PROVE  Abstract!Next \/ UNCHANGED <<clock, Held, InFlight>>
    BY <1>4 DEF Next
  <2> QED
    BY <1>1, <1>2, CrashForgets, FloodLinkStatePublishes, SendPendingLSDBTells,
       HandleLinkStateLearns, HandleACKIsHidden
    DEF Abstract!Next
<1> QED  BY <1>3, <1>4

\* The protocol implements what flooding promises: for any nodes and links, with
\* packets lost, overtaken and duplicated and processes restarting, a database
\* learns only later copies that a holder has told.
THEOREM Refinement == Spec => ImplementsFlooding
<1>1. Init => Abstract!Init
  BY DEF Init, Abstract!Init, Abstract!Nothing, Held, View, HasState, NoNeighbors, InFlight
<1> QED  BY <1>1, StepRefines, TypeCorrect, PTL DEF Spec, ImplementsFlooding, Abstract!Spec
=============================================================================
