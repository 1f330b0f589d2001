---------------------------- MODULE LinkStateDB ----------------------------
(***************************************************************************)
(* The link-state database of the routing protocol (ospf/ospf.go): every   *)
(* node measures its adjacents with a three-way hello, publishes versions  *)
(* of its own link state, and floods every link state it knows to every    *)
(* adjacent until that adjacent has acknowledged it.                       *)
(*                                                                         *)
(* A step of a node is one iteration of the event loop ospf.New starts: a  *)
(* packet handler, one of the three tickers, or a dead route.  The loop    *)
(* runs one handler at a time and nothing else writes adjacents,           *)
(* neighbors and pendingFlood, so a handler is atomic.  Packets travel     *)
(* over UDP, IPIP or TLS links and through channels that drop when full    *)
(* (OSPF.Inject, stream.Send): they are lost, reordered, delayed across    *)
(* restarts of either end and, if Duplicating, delivered again.            *)
(*                                                                         *)
(* Round-trip times are abstracted to the choice of a metric; the routes   *)
(* of one adjacent to the fact that at least one is alive.                 *)
(***************************************************************************)
EXTENDS Integers, FiniteSets

CONSTANTS
    Node,          \* IPv4 addresses of the cutevpn instances
    Links,         \* <<dialer, listener>>: the links that have a Peer
    Leaf,          \* nodes whose ospf.New got isLeaf
    Metric,        \* metrics a measurement can produce
    Crashing,      \* nodes whose process may stop or die
    MaxClock,      \* MaxClock[n]: bound of n's wall clock
    Forever,       \* ^uint64(0): later than every reading of a clock
    HelloQueue,    \* bound of the hellos on their way to one node
    QueueSize,     \* bound of the updates, and of the acks, on their way to one node
    Duplicating,   \* may the network deliver a packet more than once?
    NoMetric,      \* absent from the map LinkStateUpdate.State
    NoAdja,        \* absent from the map ospf.adjacents
    NoState        \* absent from the map ospf.neighbors

ASSUME LinksAssumption ==
    /\ Links \subseteq Node \X Node
    /\ \A n \in Node : <<n, n>> \notin Links
ASSUME LeafAssumption == Leaf \subseteq Node
ASSUME CrashingAssumption == Crashing \subseteq Node
ASSUME QueueAssumption == HelloQueue \in Nat /\ QueueSize \in Nat
ASSUME ClockAssumption == Forever \in Nat /\ MaxClock \in [Node -> 0 .. Forever - 1]
ASSUME DuplicatingAssumption == Duplicating \in BOOLEAN

VARIABLES
    clock,         \* clock[n]: last value of time.Now().UnixNano() on n's host
    boot,          \* boot[n]: OSPF.boot, 0 while the process does not run
    adjacents,     \* adjacents[n][m]: OSPF.adjacents
    neighbors,     \* neighbors[n][o]: OSPF.neighbors, the database
    pendingFlood,  \* pendingFlood[n]: OSPF.pendingFlood
    hellos,        \* message.Hello packets in flight
    updates,       \* message.LinkStateUpdate packets in flight
    acks           \* message.LinkStateACK packets in flight

nodeVars == <<clock, boot, adjacents, neighbors, pendingFlood>>
netVars == <<hellos, updates, acks>>
vars == <<clock, boot, adjacents, neighbors, pendingFlood, hellos, updates, acks>>

Time == 0 .. Forever - 1

\* A LinkStateUpdate.State: the metric of each adjacent, NoMetric if absent.
DB == [Node -> Metric \cup {NoMetric}]

Adjacent == [boot : Time \ {0}, metric : Metric]

\* acked[m] = 0 stands for a key absent from the map: boot times are positive.
LinkState == [version : Time, state : DB, acked : [Node -> 0 .. Forever]]

ASSUME AbsentAssumption ==
    /\ NoMetric \notin Metric
    /\ NoAdja \notin Adjacent
    /\ NoState \notin LinkState \cup [version : Time, state : DB]

\* src and dst are the two ends of the route a packet takes.
Hello == [src : Node, dst : Node, boot : Time \ {0}, forwarded : {0, 1, 2}]
LinkStateUpdate == [src : Node, dst : Node, boot : Time \ {0},
                    owner : Node, version : Time, state : DB]
LinkStateACK == [src : Node, dst : Node, boot : Time \ {0},
                 owner : Node, version : Time]

TypeOK ==
    /\ clock \in [Node -> Time]
    /\ boot \in [Node -> Time]
    /\ adjacents \in [Node -> [Node -> Adjacent \cup {NoAdja}]]
    /\ neighbors \in [Node -> [Node -> LinkState \cup {NoState}]]
    /\ pendingFlood \in [Node -> BOOLEAN]
    /\ hellos \subseteq Hello
    /\ updates \subseteq LinkStateUpdate
    /\ acks \subseteq LinkStateACK

-----------------------------------------------------------------------------

NoAdjacents == [m \in Node |-> NoAdja]
EmptyDB == [m \in Node |-> NoMetric]
NoNeighbors == [o \in Node |-> NoState]
NoAcks == [m \in Node |-> 0]

Running(n) == boot[n] # 0
IsAdjacent(n, m) == adjacents[n][m] # NoAdja
HasState(n, o) == neighbors[n][o] # NoState

Init ==
    /\ clock = [n \in Node |-> 0]
    /\ boot = [n \in Node |-> 0]
    /\ adjacents = [n \in Node |-> NoAdjacents]
    /\ neighbors = [n \in Node |-> NoNeighbors]
    /\ pendingFlood = [n \in Node |-> FALSE]
    /\ hellos = {}
    /\ updates = {}
    /\ acks = {}

\* Any of the packets may be lost: on the link, or because a queue on the way is
\* full (stream.Send and OSPF.Inject drop the packet and go on).
Send(net, packets, queueSize) ==
    {net \cup sent : sent \in {s \in SUBSET packets :
        \A p \in s : Cardinality({q \in net \cup s : q.dst = p.dst}) <= queueSize}}

\* A delivered packet leaves the network, unless the network duplicates it.
Consume(net, p) == {net \ {p}} \cup (IF Duplicating THEN {net} ELSE {})

-----------------------------------------------------------------------------
(* The life of a process *)

\* ospf.New: the boot time is read from the wall clock, every map is empty.
Start(n) ==
    /\ ~Running(n)
    /\ clock[n] < MaxClock[n]
    /\ clock' = [clock EXCEPT ![n] = @ + 1]
    /\ boot' = [boot EXCEPT ![n] = clock[n] + 1]
    /\ UNCHANGED <<adjacents, neighbors, pendingFlood, netVars>>

\* The process stops or dies; nothing is persisted.
Crash(n) ==
    /\ Running(n)
    /\ n \in Crashing
    /\ boot' = [boot EXCEPT ![n] = 0]
    /\ adjacents' = [adjacents EXCEPT ![n] = NoAdjacents]
    /\ neighbors' = [neighbors EXCEPT ![n] = NoNeighbors]
    /\ pendingFlood' = [pendingFlood EXCEPT ![n] = FALSE]
    /\ UNCHANGED <<clock, netVars>>

-----------------------------------------------------------------------------
(* Hello: adjacency *)

HelloPacket(n, m, forwarded) ==
    [src |-> n, dst |-> m, boot |-> boot[n], forwarded |-> forwarded]

\* AddLink's goroutine: the dialer of a link sends a hello every helloInterval.
SendHello(n, m) ==
    /\ Running(n)
    /\ <<n, m>> \in Links
    /\ hellos' \in Send(hellos, {HelloPacket(n, m, 0)}, HelloQueue)
    /\ UNCHANGED <<nodeVars, updates, acks>>

\* updateMetric: adjacent.Update reports a change when the new metric differs
\* from the old one, and always for a new adjacent, whose Metric is maxMetric.
UpdateMetric(n, src, bootTime) ==
    \E metric \in Metric :
        /\ adjacents' = [adjacents EXCEPT ![n][src] = [boot |-> bootTime, metric |-> metric]]
        /\ pendingFlood' =
              [pendingFlood EXCEPT ![n] =
                  \/ @
                  \/ ~IsAdjacent(n, src)
                  \/ metric # adjacents[n][src].metric]

HandleHello(n, hello) ==
    /\ Running(n)
    /\ hello.dst = n
    /\ \E rest \in Consume(hellos, hello) :
          \/ /\ hello.forwarded = 0
             /\ hellos' \in Send(rest, {HelloPacket(n, hello.src, 1)}, HelloQueue)
             /\ UNCHANGED <<adjacents, pendingFlood>>
          \/ /\ hello.forwarded = 1
             /\ hellos' \in Send(rest, {HelloPacket(n, hello.src, 2)}, HelloQueue)
             /\ UpdateMetric(n, hello.src, hello.boot)
          \/ /\ hello.forwarded = 2
             /\ hellos' = rest
             /\ UpdateMetric(n, hello.src, hello.boot)
    /\ UNCHANGED <<clock, boot, neighbors, updates, acks>>

\* Mutant: only a changed metric is flooded, not a deleted adjacent.
CheckAdjaForgetsToFlood(n) ==
    /\ Running(n)
    /\ \E new \in [{m \in Node : IsAdjacent(n, m)} -> Metric \cup {NoMetric}] :
          /\ adjacents' = [adjacents EXCEPT ![n] =
                [m \in Node |->
                    IF m \in DOMAIN new /\ new[m] # NoMetric
                      THEN [boot |-> adjacents[n][m].boot, metric |-> new[m]]
                      ELSE NoAdja]]
          /\ pendingFlood' = [pendingFlood EXCEPT ![n] =
                @ \/ \E m \in DOMAIN new : new[m] \notin {NoMetric, adjacents[n][m].metric}]
    /\ UNCHANGED <<clock, boot, neighbors, netVars>>

\* checkAdja: every adjacent is re-evaluated; the ones that have been silent for
\* routerDeadInterval on every route are deleted.
CheckAdja(n) ==
    /\ Running(n)
    /\ \E new \in [{m \in Node : IsAdjacent(n, m)} -> Metric \cup {NoMetric}] :
          /\ adjacents' = [adjacents EXCEPT ![n] =
                [m \in Node |->
                    IF m \in DOMAIN new /\ new[m] # NoMetric
                      THEN [boot |-> adjacents[n][m].boot, metric |-> new[m]]
                      ELSE NoAdja]]
          /\ pendingFlood' = [pendingFlood EXCEPT ![n] =
                @ \/ \E m \in DOMAIN new : new[m] # adjacents[n][m].metric]
    /\ UNCHANGED <<clock, boot, neighbors, netVars>>

\* removeRoute: a link died. The adjacent is deleted with its last route; its
\* metric is not recomputed. (When the adjacent is already gone the handler
\* dereferences nil: the process dies, see Crash and module Adjacency.)
RemoveRoute(n, m) ==
    /\ Running(n)
    /\ IsAdjacent(n, m)
    /\ \/ adjacents' = [adjacents EXCEPT ![n][m] = NoAdja]
       \/ UNCHANGED adjacents
    /\ pendingFlood' = [pendingFlood EXCEPT ![n] = TRUE]
    /\ UNCHANGED <<clock, boot, neighbors, netVars>>

-----------------------------------------------------------------------------
(* Flooding *)

\* linkState
MyLinkState(n) ==
    [m \in Node |-> IF IsAdjacent(n, m) THEN adjacents[n][m].metric ELSE NoMetric]

\* Mutant: the version is the boot time instead of a new reading of the clock.
FloodLinkStateAtBoot(n) ==
    /\ Running(n)
    /\ pendingFlood[n]
    /\ neighbors' = [neighbors EXCEPT ![n][n] =
          [version |-> boot[n], state |-> MyLinkState(n), acked |-> NoAcks]]
    /\ pendingFlood' = [pendingFlood EXCEPT ![n] = FALSE]
    /\ UNCHANGED <<clock, boot, adjacents, netVars>>

\* floodLinkState: publish a new version of the node's own link state.
FloodLinkState(n) ==
    /\ Running(n)
    /\ pendingFlood[n]
    /\ clock[n] < MaxClock[n]
    /\ clock' = [clock EXCEPT ![n] = @ + 1]
    /\ neighbors' = [neighbors EXCEPT ![n][n] =
          [version |-> clock[n] + 1, state |-> MyLinkState(n), acked |-> NoAcks]]
    /\ pendingFlood' = [pendingFlood EXCEPT ![n] = FALSE]
    /\ UNCHANGED <<boot, adjacents, netVars>>

\* Mutant: an acknowledgement of an earlier incarnation counts.
UnackedEver(n, o) ==
    {m \in Node : /\ IsAdjacent(n, m)
                  /\ HasState(n, o)
                  /\ neighbors[n][o].acked[m] = 0}

\* The adjacents of n that have not acknowledged n's link state of o.
Unacked(n, o) ==
    {m \in Node : /\ IsAdjacent(n, m)
                  /\ HasState(n, o)
                  /\ neighbors[n][o].acked[m] < adjacents[n][m].boot}

\* Mutant: a leaf tells its adjacents.
TellsAll(n, o) == neighbors[n][o].state

\* What n tells about o: a leaf hides its adjacents.
Told(n, o) == IF o = n /\ n \in Leaf THEN EmptyDB ELSE neighbors[n][o].state

UpdatePacket(n, m, o) ==
    [src |-> n, dst |-> m, boot |-> boot[n],
     owner |-> o, version |-> neighbors[n][o].version, state |-> Told(n, o)]

\* sendPendingLSDB: (re)send every link state to every adjacent that lacks it.
SendPendingLSDB(n) ==
    /\ Running(n)
    /\ updates' \in Send(updates,
          UNION {{UpdatePacket(n, m, o) : m \in Unacked(n, o)} : o \in Node}, QueueSize)
    /\ UNCHANGED <<nodeVars, hellos, acks>>

\* Mutant: only news is acknowledged.
AckNews(n, msg) ==
    IF /\ IsAdjacent(n, msg.src)
       /\ HasState(n, msg.owner) => neighbors[n][msg.owner].version < msg.version
      THEN {[src |-> n, dst |-> msg.src, boot |-> boot[n],
             owner |-> msg.owner, version |-> msg.version]}
      ELSE {}

\* ack: sent for every update, known or not, if there is a route to its sender.
Ack(n, msg) ==
    IF IsAdjacent(n, msg.src)
      THEN {[src |-> n, dst |-> msg.src, boot |-> boot[n],
             owner |-> msg.owner, version |-> msg.version]}
      ELSE {}

\* Mutant: the owner is not marked.
UpdatedOwnerUnmarked(old, msg) ==
    IF old = NoState \/ old.version < msg.version
      THEN [version |-> msg.version, state |-> msg.state,
            acked |-> [NoAcks EXCEPT ![msg.src] = msg.boot]]
      ELSE old

\* Mutant: acknowledgements of the old version count for the new one.
UpdatedKeepsAcks(old, msg) ==
    IF old = NoState \/ old.version < msg.version
      THEN [version |-> msg.version, state |-> msg.state,
            acked |-> [(IF old = NoState THEN NoAcks ELSE old.acked)
                         EXCEPT ![msg.src] = msg.boot, ![msg.owner] = Forever]]
      ELSE old

\* Mutant: any other version replaces the old one.
UpdatedByOther(old, msg) ==
    IF old = NoState \/ old.version # msg.version
      THEN [version |-> msg.version, state |-> msg.state,
            acked |-> [NoAcks EXCEPT ![msg.src] = msg.boot, ![msg.owner] = Forever]]
      ELSE old

\* updateLSDB: a new link state replaces the old one. The one it has already
\* counts as an acknowledgement of the sender.
Updated(old, msg) ==
    IF old = NoState \/ old.version < msg.version
      THEN [version |-> msg.version, state |-> msg.state,
            acked |-> [NoAcks EXCEPT ![msg.src] = msg.boot, ![msg.owner] = Forever]]
      ELSE IF old.version = msg.version /\ old.acked[msg.src] < msg.boot
             THEN [old EXCEPT !.acked[msg.src] = msg.boot]
             ELSE old

UpdateLSDB(n, msg) ==
    [neighbors EXCEPT ![n][msg.owner] = Updated(neighbors[n][msg.owner], msg)]

HandleLinkState(n, msg) ==
    /\ Running(n)
    /\ msg.dst = n
    /\ updates' \in Consume(updates, msg)
    /\ acks' \in Send(acks, Ack(n, msg), QueueSize)
    /\ neighbors' = IF msg.owner = n THEN neighbors ELSE UpdateLSDB(n, msg)
    /\ UNCHANGED <<clock, boot, adjacents, pendingFlood, hellos>>

\* Mutant: the version of an acknowledgement is not looked at.
HandleACKOfAnyVersion(n, ack) ==
    /\ Running(n)
    /\ ack.dst = n
    /\ acks' \in Consume(acks, ack)
    /\ neighbors' =
          IF HasState(n, ack.owner)
            THEN [neighbors EXCEPT ![n][ack.owner].acked[ack.src] = ack.boot]
            ELSE neighbors
    /\ UNCHANGED <<clock, boot, adjacents, pendingFlood, hellos, updates>>

HandleACK(n, ack) ==
    /\ Running(n)
    /\ ack.dst = n
    /\ acks' \in Consume(acks, ack)
    /\ neighbors' =
          IF HasState(n, ack.owner) /\ ack.version >= neighbors[n][ack.owner].version
            THEN [neighbors EXCEPT ![n][ack.owner].acked[ack.src] = ack.boot]
            ELSE neighbors
    /\ UNCHANGED <<clock, boot, adjacents, pendingFlood, hellos, updates>>

-----------------------------------------------------------------------------
Next ==
    \E n \in Node :
          \/ Start(n)
          \/ Crash(n)
          \/ CheckAdja(n)
          \/ FloodLinkState(n)
          \/ SendPendingLSDB(n)
          \/ \E m \in Node : SendHello(n, m) \/ RemoveRoute(n, m)
          \/ \E p \in hellos : HandleHello(n, p)
          \/ \E p \in updates : HandleLinkState(n, p)
          \/ \E p \in acks : HandleACK(n, p)

Spec == Init /\ [][Next]_vars

-----------------------------------------------------------------------------
(* Safety *)

\* No node is ever sent its own link state: handleLinkState would log "bug:
\* receive a LinkStateUpdate packet whose owner is myself" (ospf.go:352). What
\* prevents it is updateLSDB marking the owner as having acknowledged forever.
NoSelfUpdate == \A p \in updates : p.owner # p.dst

\* A node stops resending o's link state to the adjacent m only when the very
\* incarnation of m that it heard hellos from holds that version or a later
\* one: lost, late or duplicated packets of an earlier incarnation of m never
\* end the retransmission (sendPendingLSDB, handleACK, updateLSDB).
AckedIsKnown ==
    \A n, o, m \in Node :
        /\ HasState(n, o)
        /\ m # o
        /\ Running(m)
        /\ neighbors[n][o].acked[m] >= boot[m]
        => HasState(m, o) /\ neighbors[m][o].version >= neighbors[n][o].version

\* A change of the adjacents is published or is going to be: every handler that
\* adds, deletes or re-measures an adjacent remembers to flood.
NothingUnpublished ==
    \A n \in Node :
        \/ pendingFlood[n]
        \/ MyLinkState(n) = IF HasState(n, n) THEN neighbors[n][n].state ELSE EmptyDB

\* What the nodes other than o know or are being told about o.
Copies(o) ==
    {p \in updates : p.owner = o}
      \cup {neighbors[n][o] : n \in {k \in Node \ {o} : HasState(k, o)}}

\* Two copies of the same version of a link state are equal, whatever restarts
\* of the owner happened between them: a version number is never reused
\* (floodLinkState), so "same version" is a sound test for "already known".
VersionDeterminesState ==
    \A o \in Node : \A c, d \in Copies(o) :
        c.version = d.version => c.state = d.state

\* The adjacents of a leaf are never told to anyone.
LeafHidesAdjacents == \A o \in Leaf : \A c \in Copies(o) : c.state = EmptyDB

\* No handler replaces a link state by an older one while the process lives:
\* late and duplicated updates never roll a database back.
NoRollback ==
    [][\A n, o \in Node :
          /\ HasState(n, o)
          /\ boot'[n] = boot[n]
          => /\ neighbors'[n][o] # NoState
             /\ neighbors'[n][o].version >= neighbors[n][o].version]_vars
-----------------------------------------------------------------------------
(* Why the safety properties hold: an inductive invariant *)

\* b may be the boot time of an incarnation of m.
Booted(m, b) == b <= clock[m] /\ (Running(m) => b <= boot[m])

\* No version and no boot time a node remembers or is told comes from the future
\* of the node it belongs to. (An acked entry may be Forever, see Apart.)
Chronology ==
    /\ \A n \in Node : boot[n] <= clock[n]
    /\ \A n, m \in Node : IsAdjacent(n, m) => Booted(m, adjacents[n][m].boot)
    /\ \A n, o \in Node : HasState(n, o) =>
          /\ neighbors[n][o].version <= clock[o]
          /\ \A m \in Node :
                neighbors[n][o].acked[m] # Forever => Booted(m, neighbors[n][o].acked[m])
    /\ \A p \in hellos : Booted(p.src, p.boot)
    /\ \A p \in updates \cup acks : Booted(p.src, p.boot) /\ p.version <= clock[p.owner]

\* No node has itself as adjacent, is told or acknowledges its own link state;
\* exactly the owner, in the copies of the others, has acknowledged forever.
Apart ==
    /\ \A n \in Node : ~IsAdjacent(n, n)
    /\ \A p \in hellos : p.src # p.dst
    /\ \A p \in updates : p.owner # p.dst
    /\ \A p \in acks : p.src # p.owner
    /\ \A n, o, m \in Node :
          HasState(n, o) => (neighbors[n][o].acked[m] = Forever <=> m = o /\ n # o)

\* The database of incarnation b of m, if that incarnation still runs, holds
\* version v of o's link state or a later one.
Knows(m, b, o, v) ==
    boot[m] = b => HasState(m, o) /\ neighbors[m][o].version >= v

\* Who sends an update or an ack, and who is marked as having acknowledged, knows.
Evidence ==
    /\ \A p \in updates \cup acks : Knows(p.src, p.boot, p.owner, p.version)
    /\ \A n, o, m \in Node :
          /\ HasState(n, o)
          /\ neighbors[n][o].acked[m] \notin {0, Forever}
          => Knows(m, neighbors[n][o].acked[m], o, neighbors[n][o].version)

\* Copies agree with each other, and with their owner while it has that version.
Agreement ==
    /\ VersionDeterminesState
    /\ \A o \in Node : \A c \in Copies(o) :
          HasState(o, o) /\ c.version = neighbors[o][o].version => c.state = Told(o, o)

\* What a node has published since it started is at the last reading of its clock:
\* no copy of its link state anywhere is later.
Latest ==
    /\ \A n, o \in Node : HasState(n, o) => Running(n)
    /\ \A o \in Node : HasState(o, o) => neighbors[o][o].version = clock[o]

\* The inductive invariant: each safety property above follows from it, some with
\* NothingUnpublished, which is inductive by itself.
IInv == TypeOK /\ Chronology /\ Apart /\ Evidence /\ Agreement /\ Latest

-----------------------------------------------------------------------------
(* What it implements *)

\* What n would tell about o: without the acknowledgements, and without the
\* adjacents of n if it is a leaf and speaks of itself.
View(n, o) ==
    IF HasState(n, o) THEN [version |-> neighbors[n][o].version, state |-> Told(n, o)]
                      ELSE NoState

Held == [n \in Node |-> [o \in Node |-> View(n, o)]]

InFlight == {[owner |-> p.owner, version |-> p.version, state |-> p.state] : p \in updates}

Abstract == INSTANCE Flooding
    WITH State <- DB, NoCopy <- NoState, held <- Held, told <- InFlight

\* Whatever packets are lost, overtaken, duplicated or delayed across restarts,
\* every database changes only as flooding promises: it learns copies that were
\* told by a node that held them, and only later ones (updateLSDB).
ImplementsFlooding == Abstract!Spec

-----------------------------------------------------------------------------
(* What flooding is for *)

\* n has heard hellos of the m that runs now, has published what it knows of its own
\* adjacents, and has nothing to tell m that m has not acknowledged.
Settled(n, m) ==
    /\ Running(m)
    /\ IsAdjacent(n, m)
    /\ adjacents[n][m].boot = boot[m]
    /\ ~pendingFlood[n]
    /\ \A o \in Node : m \notin Unacked(n, o)

\* The nodes of S hang together by adjacents that are settled both ways: there are
\* two of them on the two sides of every cut.
Connected(S) ==
    \A T \in SUBSET S : T \notin {{}, S} =>
        \E n \in T : \E m \in S \ T : Settled(n, m) /\ Settled(m, n)

\* When nothing is left to resend, connected nodes have the same database, whatever
\* was lost, came late or restarted on the way to it, and whatever is still in
\* flight; and each is in it with the adjacents it has now. It is what the routes of
\* Forwarding are computed from once they agree.
QuietMeansAgreement ==
    \A S \in SUBSET Node : Connected(S) =>
        \A n \in S :
            /\ \A m \in S : Held[n] = Held[m]
            /\ \A o \in S \ {n} :
                  /\ HasState(n, o)
                  /\ neighbors[n][o].state = IF o \in Leaf THEN EmptyDB ELSE MyLinkState(o)

-----------------------------------------------------------------------------
(* Liveness *)

(***************************************************************************)
(* The tickers of AddLink and ospf.New fire forever, and a link that is    *)
(* given the same kind of packet again and again delivers some of them.    *)
(***************************************************************************)
HelloGoesOut(n, m) ==
    SendHello(n, m) /\ HelloPacket(n, m, 0) \in hellos'

HelloArrives(n, m, forwarded) ==
    \E p \in hellos :
        /\ p.src = m
        /\ p.forwarded = forwarded
        /\ HandleHello(n, p)
        /\ forwarded # 2 => HelloPacket(n, m, forwarded + 1) \in hellos'

UpdateGoesOut(n, m, o) ==
    /\ m \in Unacked(n, o)
    /\ SendPendingLSDB(n)
    /\ UpdatePacket(n, m, o) \in updates'

UpdateArrives(n, m, o) ==
    \E p \in updates :
        /\ p.src = m
        /\ p.owner = o
        /\ HandleLinkState(n, p)
        /\ Ack(n, p) \subseteq acks'

ACKArrives(n, m, o) ==
    \E p \in acks : p.src = m /\ p.owner = o /\ HandleACK(n, p)

\* <<n, m, o>>: n may tell m, at the other end of a link, about o.
Flows == {f \in Node \X Node \X Node :
            /\ <<f[1], f[2]>> \in Links \/ <<f[2], f[1]>> \in Links
            /\ f[3] # f[2]}

Fairness ==
    /\ \A l \in Links :
          /\ SF_vars(HelloGoesOut(l[1], l[2]))
          /\ SF_vars(HelloArrives(l[2], l[1], 0))
          /\ SF_vars(HelloArrives(l[1], l[2], 1))
          /\ SF_vars(HelloArrives(l[2], l[1], 2))
    /\ \A f \in Flows :
          /\ SF_vars(UpdateGoesOut(f[1], f[2], f[3]))
          /\ SF_vars(UpdateArrives(f[2], f[1], f[3]))
          /\ SF_vars(ACKArrives(f[1], f[2], f[3]))

FairSpec == Spec /\ Fairness

\* m lacks what its running adjacent n knows about o.
Behind(n, m, o) ==
    /\ Running(n)
    /\ Running(m)
    /\ IsAdjacent(n, m)
    /\ HasState(n, o)
    /\ ~HasState(m, o) \/ neighbors[m][o].version < neighbors[n][o].version

\* Flooding is reliable: whatever is lost, and whichever end restarts, a node
\* does not stay behind an adjacent forever.
CatchesUp == \A f \in Flows : []<>~Behind(f[1], f[2], f[3])

\* Retransmission ends: two nodes that keep each other as adjacents do not
\* resend the same link state forever (acks, and updates serving as acks, get
\* through). A receiver without a route back does not acknowledge (OSPF.ack).
ResendingStops ==
    \A f \in Flows :
        []<>~(/\ f[2] \in Unacked(f[1], f[3])
              /\ IsAdjacent(f[2], f[1]))
=============================================================================
