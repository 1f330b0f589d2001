# CuteVPN in TLA+

This directory holds a formal model of CuteVPN: TLA+ modules translated from the Go
source, TLC configurations that check them on small instances, and proofs, checked by
TLAPS, of what holds for every instance. Source references are `path:line`.

## The system

CuteVPN joins hosts ("nodes") into one virtual network. Each process connects to others
over *links* (TLS connections, UDP sockets, IPIP), runs a simplified OSPF over them and
forwards IPv4 packets along the routes it finds.

| Component | State | Operations | Talks to |
|---|---|---|---|
| Flooding (`ospf/ospf.go`, `ospf/message`) | `adjacents`, `neighbors` (the link-state database with its acks), `pendingFlood`, `boot` | handlers of Hello, LinkStateUpdate, LinkStateACK; tickers `checkAdja`, `sendPendingLSDB`, `floodLinkState`; `removeRoute` | `OSPF.in`, `OSPF.out`; watchers of links by `deadRoutes` |
| Adjacency, route table (`ospf/adjacent.go`, `ospf/table.go`) | routes and metric of each adjacent; heaps `table.adja`, next hops `table.shortest` | `Update`, `UpdateMetric`, `GetRoutes`, `cut`; `getAdja`, `getShortest` | read by the router under a lock |
| Metric (`ospf/metric.go`) | the last nine round trips of a route | `Push`, `Value` | adjacency, flooding, route table |
| Shortest paths (`ospf/dijkstra.go`) | none | `dijkstra`, `visit`, `calcShortest` | database, route table |
| Router and connections (`vpn/router.go`, `vpn/connection.go`) | `conn.queue`, `socketQueue`, gateway | `forwardFromConn`, `forwardFromSocket`, `Forward`, `Send` | links, tun device, `OSPF.Inject`, `GetShortest` |
| Static routes (`vpn/table.go`) | sorted table | `parseRouteTable`, `Get` | router |
| Lifecycle (`vpn/vpn.go`, `vpn/config.go`) | context, wait group | `StartWithSocket`, `Go`, `Loop`, `OnCancel`, `Stop` | every goroutine |
| TLS framing (`link/stream.go`) | `out` queue, buffer of the scanner | `Send`, `sendLoop`, `addSep`, `split`, `Recv` | connections |
| Links (`link/*.go`) | sockets; a connection per dialer | `Send`, `Recv`, `Cancel`; dialer, listener | connections |
| I/O (`socket`, `encryption`, `ipv4`, `dns`, `vpn/http.go`, `vpn/iproute.go`, `cutevpn/main.go`, `android`) | | | |

What is hard here: the protocol runs over links that lose, reorder and delay, among
processes that restart with nothing persisted and tell incarnations apart by clock
readings; the event loop, the router, a reader per link, tickers and watchers run
concurrently over small channels, some of which drop and some of which block; links die
at any moment, and the news of it competes with tickers. What makes each part correct:

- flooding: no node stays behind an adjacent; retransmission ends, but never before the
  receiver's present incarnation has the link state; versions identify states; databases
  do not go back; nobody is told about itself; leaves hide their adjacents;
- adjacency: no empty heap; dead routes leave the table; a dead link costs its routes only;
- shortest paths: distances are shortest, next hops start shortest walks;
- lifecycle: no gridlock while running; whatever fails or ends, at start-up or later, `Stop`
  returns and leaves nothing running;
- metric: losses are counted right and, until the arithmetic overflows, never pay; what is flooded does not creep away from
  the truth; routes get their shares of the packets;
- data plane: packets in a routing loop die, errors draw no errors, agreed routes deliver;
  static routes are longest-prefix first;
- framing: what is received is what was sent.

`PROJECT.json` lists the hazards at their source lines, each with the properties for it or the reason why there is none.

## The plan

1. `LinkStateDB`, the flooding protocol, with `LinkStateDBProofs` - done.
2. `Adjacency` with `AdjacencyProofs` - done, with the ends of UDP and IPIP links.
3. `Dijkstra` with `DijkstraProofs`, and `Routes`, what a route computation should yield - done.
4. `Lifecycle` with `LifecycleProofs`: goroutines and channels, start-up and its failures,
   dialer and listener, callers from outside, the Android app - done.
5. `Flooding`, an abstract specification of flooding, and `FloodingProofs`, that `LinkStateDB`
   implements it - done.
6. `Metric` with `MetricProofs` - done, with the order the routes of a heap are served in.
7. `StaticRoutes`, `Forwarding` with `ForwardingProofs` - done.
8. `Framing` with `FramingProofs`, the TLS stream, and `Pipe`, the abstract specification it
   implements - done.
9. To prove next: that the databases which agree by `QuietMeansAgreement` are databases of
   `Routes` (the metrics of `LinkStateDB` are any values), so that flooding, routes and
   forwarding become one chain; that `Metric` supplies the heaps `Adjacency` allows; that
   a node which `Flooding` lets hear of an owner hears of it in order.
10. Left: `UpdateGateway` as a blocking caller in `Lifecycle`; a clock that steps back across a
   restart and a bound of hello tickers, of which nothing in the repository says what should hold.

Parts share runs with each other where they answer one question, so that each run stays a
question of its own.

## The modules

### LinkStateDB - flooding

One action is one iteration of the event loop `ospf.New` starts. The loop runs one handler
at a time and no other goroutine writes the maps, so a handler is atomic.

| TLA+ | Code |
|---|---|
| `clock`, `boot` | `time.Now().UnixNano()` of the host, `OSPF.boot` |
| `adjacents[n][m]` | `OSPF.adjacents`: boot time and metric; its routes are one bit (some are alive) |
| `neighbors[n][o]` | `OSPF.neighbors`: version, state, `acked` |
| `pendingFlood` | `OSPF.pendingFlood` |
| `hellos`, `updates`, `acks` | packets on links and in queues |
| `Start`, `Crash` | `ospf.New`; the end of the process |
| `SendHello`, `HandleHello` | `OSPF.AddLink`, `handleHello` with `updateMetric` |
| `CheckAdja`, `RemoveRoute` | `checkAdja`, `removeRoute` |
| `FloodLinkState`, `SendPendingLSDB` | `floodLinkState`, `sendPendingLSDB` |
| `HandleLinkState`, `HandleACK` | `handleLinkState` (ack first, then `updateLSDB`), `handleACK` |

A packet may be lost whenever it is sent (`stream.Send` and `OSPF.Inject` drop on a full
queue, and the network drops), is taken from a set (reordering, delay across restarts) and,
with `Duplicating`, may stay there after delivery. A clock reading is a step of a counter
that never goes back: two readings on one host differ. `boot = 0` stands for a process that
does not run; nothing survives a crash but the clock and what is in flight. `MaxClock`,
`HelloQueue` and `QueueSize` are the bounds.

Abstracted: the metric is any member of a small set (`Metric` has the number); name and
round-trip stamps of packets; which of several routes a packet takes. A new adjacent is always
published: that `UpdateMetric` does not report one whose first metric is within a third of
`maxMetric` (a round trip of more than forty minutes) is left out. The VPN passes
`isLeaf = false` today (`vpn/config.go:45`); the model covers leaves as `ospf.New` offers them.

### Flooding - what it promises

No adjacencies, packets or acknowledgements: `held[n][o]` is the version and state of `o` that
`n` tells, `told` what has been told and may still be heard. An owner publishes ever later
versions (`Publish`), whatever it has forgotten (`Forget`); a node hears of another owner only
from somebody who has told, and replaces a copy only by a later one (`Learn`). `LinkStateDB`
implements it (`ImplementsFlooding`) under the mapping

| Flooding | LinkStateDB |
|---|---|
| `clock` | `clock` |
| `held` | `View`: the own state as published, copies without their acks |
| `told` | `InFlight`: what the `updates` on their way say |

Most steps (hellos, acks, `CheckAdja`) stutter; `Start` and `SendHello` are ticks.

### Adjacency - routes, watchers, heaps

One node. `adjacents` and `table` are partial functions from peers to sets of routes, as the
maps are; `watchers[r]` counts the goroutines `updateMetric` starts for a new route
(`ospf.go:237`). `inbox` holds hellos waiting in `conn.queue` and `OSPF.in`: their link may
die before the event loop gets to them. `Heaps` is what `updateRouteTable` may make of the
adjacents: `cut` keeps the best route and any number of the others. `RemoveRoute` follows the
code into the nil dereference at `ospf.go:255`, after which the process does not run.

`dead` are the links whose `Done()` is closed, `open` those whose loop of `conn.AddLink` still
receives. A failed `Send` makes a link dead (`SendFails`, `connection.go:111`); then the socket of
a UDP link is closed and its loop ends (`RecvFails`), but the one IPIP socket of the process is
closed with the VPN only, so that an IPIP link goes on receiving, and each hello brings a dead
route back for a moment. TLS connections close themselves, as UDP links do. `MaxWatchers` is
the bound.

### Metric - round trips, losses, shares

The routes to one adjacent. Time passes in ticks (`Tick`), the peers send a hello by each route
every `HelloInterval`, which comes within `Jitter` (`owed`) or not at all; only one side of a link
sends hellos, so there is one round trip per interval and route. (A hello that the network
duplicates, or an IPIP link configured at both ends, would bring more; `LossIsCounted` does not
speak of them.)

| TLA+ | Code |
|---|---|
| `routes[r]` | the window of round trips in `metric`; ages in place of readings of `nanotime()` |
| `Value`, `HelloTimes`, `Push` | `metric.Value`, `Push`; `Word` is 2^64, `Unit` is 128 |
| `HandleHello`, `CheckAdja`, `RemoveRoute` | `updateMetric`, `checkAdja`, `removeRoute`, with `adjacent.Update`, `UpdateMetric`, `updateRouteTable` |
| `GetRoutes`, `heap`, `GetAdja` | `adjacent.GetRoutes` and `cut`, the heap of `table.adja`, `getAdja` |
| `metric`, `pendingFlood`, `published`, `FloodLinkState` | `adjacent.Metric`, `OSPF.pendingFlood`, the node's own link state, `floodLinkState` |

`since` of a round trip and `checked` are history. The product in `Value` is computed modulo a
word, and wraps when the true metric passes 2^43 ns, which is 2.4 times `maxMetric`: a route
that is young (one or two round trips in its window) gets there after some 160 to 250 seconds of
silence, shortly before it is given up, and then looks good. The properties about `Value` are
stated for products that fit (`Fits`), which includes all the metrics below `maxMetric`; the wrap
itself is a hazard that no property covers, since nothing says how bad a route may look good.
Nor does one cover the time from `RemoveRoute`, which leaves the metric of the dead route, to the
next `CheckAdja` or hello: `NoCreep` starts there (`checked`).

### Routes, Dijkstra - shortest paths

`Routes` has the definitions both `Dijkstra` and `Forwarding` are held to: databases, walks,
the shortest of them, `ShortestTables` (all the route tables made of first steps of shortest
walks) and `EachHopNearer` (what a packet needs of them).

A step is an iteration of the loop in `visit` (`Relax`) or the end of a visit and the choice
of the next node (`Settle`); both loops range over Go maps, so their order is free. Paths are
Go slices: `memory` holds the arrays, `Append1` is `append` with the doubling of small
capacities. `NextHop` is `p.Nodes[1]` and `CalcShortest` the table
that `calcShortest` makes of the result. The database need not be symmetric
or complete, as link states come one by one.

### Lifecycle - goroutines, channels, Stop

`pc[g]` is where goroutine `g` is; `wg` is the wait group; channels are their lengths.
`Again` is the look at the context with which every iteration of `VPN.Loop` begins. Sends
outside of a select block (`ospf.out <-`, `c.queue <-`, `r.socketQueue <-`); `Inject` drops;
`sendHello` and the watchers select on the context. The dialer makes a new connection, with
its goroutines, whenever the last has died, and the listener accepts one after the other, until
the `Link`s (the bound) are used up. Goroutines that only wait for a context and return are
left out.

`main` goes through `StartWithSocket` phase by phase. `StartFails` is an error between any two
of them: what runs by then is stopped. `AcceptFails` is a `Loop` that fails by itself and
cancels the VPN. `platform` is what it runs on: on Linux the cancellation closes the tun device,
the Android library closes it when `Stop` has returned (`android/cutevpn/vpn.go`). The `Caller`
is `GetNeighbors` of the Android library, or a handler of the debug HTTP server: it sends on
the unbuffered `tasks` and is not in the wait group.

### Framing - packets on a TLS stream

`stream` is every byte written; `arrived` and `scanned` are positions in it, as TCP keeps the
order and cuts where it likes. `TakePacket`, `TryNextSep` and `Write` are an iteration of
`sendLoop` with the loop of `addSep`; `Tokens` is `split`; `NextSep` is `nextSep` with `Base` in
place of 256. `Send` drops when `out` is full. A write may fail after any part of the frame
(`WriteFails`), and then `sendLoop` ends; the reader may fail at any moment. `accepted`, `frames`
and `received` are history.

`Pipe` is what a connection promises: the packets come out once each and in order until it
breaks, and from then on none does that was not already on its way. `Framing` implements
it (`ImplementsPipe`) with `Coming` for its queue, the packets accepted and not yet received,
of which a failed write loses those that were not written to the end; the sending end is alive
as long as `sendLoop` is, the receiving end open as long as the reader reads.

### Forwarding, StaticRoutes - the data plane

All nodes, with an action per handler of the router's loop.

| TLA+ | Code |
|---|---|
| `shortest[n]` | `table.shortest`: the next hop to each node |
| `table`, `gateway` | `router.table`, `router.gateway` |
| `packets` | packets waiting in the `conn.queue` of the node `at`, with the tail (`flags`, `dst`), the source and time to live of the IP header, and the route they came in by (`from`) |
| `FromSocket`, `FromConn` | `forwardFromSocket` (`Via` is its choice of a node), `forwardFromConn` with `conn.Forward` |
| `UpdateRoutes`, `UpdateGateway` | `table.Update`; the loop's case for `gatewayUpdateCh` |

`RouteTable[db][n]` are the tables `n` may compute from the database `db`, as it breaks ties
at random. The constants' assumption about them is `EachHopNearer`: a next hop is strictly
nearer and knows the way on. `DijkstraProofs` proves it of `ShortestTables` with positive metrics
(`TablesLeadNearer`), and that `CalcShortest` is one of these (`NextHopsLead`); `MCForwarding`
takes them from the links. Before `Agree` any node may have computed from any database
at any time; from then on (`agreed`) the network rests. `errors`, `hops` and `late` of a packet
are history. Queues are sets and any packet may be lost. What a handler only drops from the
socket, or gives back to it, changes no variable and has no action.

`StaticRoutes` keeps the table as a sequence in an order `sort.Sort`, which is not stable, may
leave it in; `Get` takes the first match. Addresses have `Width` bits.

## What the runs check

| Run | Instance | Shows |
|---|---|---|
| `lsdb_flooding` | a - b - c, c a leaf, duplication. First a pair: a and b have five readings of the clock between them and a may restart. Or all three, adjacencies up: a publishes twice, or a and c once | the inductive invariant `IInv`, `NoSelfUpdate`, `AckedIsKnown`, `VersionDeterminesState`, `LeafHidesAdjacents`, `NothingUnpublished`, `NoRollback`, `QuietMeansAgreement`, and the refinement `ImplementsFlooding` |
| `lsdb_live` | the pair, a may restart, fair loss | `CatchesUp`, `ResendingStops` |
| `adjacency_routes` | two peers on a UDP socket, one also over IPIP | `NoEmptyHeap`, `EveryRouteWatched`, `IInv`, `DeadRoutesLeave` |
| `adjacency_failover` | the same | violated: `LinkDeathIsSurvived` |
| `metric_routes` | two routes, one with round trips of 6 or 8, one of 8; windows of two | `LossIsCounted`, `LosslessCostsRtt`, `LossNeverPays`, `NoCreep`, `FairShares`, `IInv` |
| `dijkstra_shortest` | all symmetric graphs of four nodes with metrics 1 and 3, d with and without a link state; twelve asymmetric ones of five, with metrics of 0 | `ShortestDistances` and `NextHopsLead` against all walks, `Optimal`, `IInv` |
| `dijkstra_nodes` | the same | violated: `NodesAreShortestPaths` |
| `lifecycle_running` | channels of capacity 1, one connection, no Stop | `NoGridlock` |
| `lifecycle_stop` | start-up, its failures, dialer or listener, Linux and Android, Stop | `QuietAfterStop`, `StaysBlocked`, `EndsUnlessStuck`, `IInv` |
| `lifecycle_hang` | Linux, with all the fairness there is | violated: `StopTerminates` |
| `framing_stream` | bytes 0, 1, 2; all packets of one or two bytes and three longer ones; two packets | `ReceivedWhatWasSent`, `CompleteIsFound`, `AcceptedIsReceived`, `IInv`, and the refinement `ImplementsPipe` |
| `forwarding_packets` | four nodes with a cycle, three networks they may believe in, one packet of a host, four static routes, nested and one twice, a movable gateway | `HopsBounded`, `NoErrorsAboutErrors`, `AgreedRoutesDeliver`, `LongestPrefixWins`, `IInv` |

Why the bounds are enough to be interesting:

- Flooding: a restart needs a second boot time, a race of versions a second version, so the
  clocks hold restart, publication and republication in each order. One hello at a time goes
  back and forth; two updates and two acks on their way to each node suffice for loss,
  reordering and delay across a restart, since sets make any two packets reorder. The chain
  starts with its adjacencies up, a state the hellos of the pair lead to link by link, because
  three nodes with hellos are beyond TLC, and keeps them (`ChainStep`, with one update and one
  ack to each node); what it adds is the relay b, with updates from both sides.
- Metric: windows of two have a first, a last and a full state; three ticks to an interval hold
  a hello before, in and after the grace, one late by `Jitter` included; five ticks of silence
  (over an interval and a half) lose hellos before the route is dead; the word of 4096 wraps
  within these ages. Four packets by a route (`MaxServed`) are a round of routes whose metrics
  are as 6 to 8; `MCSpec` serves them when no hello is on its way, nothing waits to be flooded and
  no time passes, as `GetAdja` reads and writes nothing but the heap.
- Dijkstra: five nodes are the least with two paths that extend one of three nodes, where
  arrays are shared.
- Lifecycle: capacity 1 makes every channel full at once. `RunningSpec` and `EndingSpec` in
  `MCLifecycle` restrict what meets nowhere: in the first a caller from outside and
  packets of the tun device, which only share the scheduling of the event loop and the router,
  are not under way at once, and there is no listener, which puts nothing on a channel; in the second
  there are no callers, for a caller is not waited for, the Android app does not listen, and not both
  queues of the router hold packets at once, as senders on the one and the other share nothing
  but the router.
- Framing: the longer packets contain the first separators, so that one carry, and two, are
  needed, and the second packet stands for all that follows a border; three values of a
  byte are 0, one that counts on and one that wraps.
- Forwarding: packets do not meet, so one at a time (`MaxSent`) shows every life of a packet: it
  can go around until the hop limit, expire anywhere, and its error can go around too. Four
  bits of address are enough for a subnet and prefixes nested three deep outside of it, two of them the same with
  different next hops, which the sort may leave in either order.

Deadlock is not checked: the models stop when their clocks, connections or packets are used up,
and a VPN that has stopped stays so.

### Fairness

- `LinkStateDB`: tickers run forever and retransmission repeats, so a sent packet gets
  through if sent again and again: strong fairness of sending *with* the packet getting onto
  the link, and of receiving it. Nothing is assumed of restarts, publications, metrics.
- `Adjacency`: `select` picks at random, so a ready handler is served: weak fairness; `Recv`
  fails on a socket that is closed. Nothing makes a route silent or a link die.
- `Lifecycle`: weak fairness of scheduling for `EndsUnlessStuck`, none of packets, ticks or
  handshakes; for `NoGridlock` also strong fairness of selects and of senders, which Go serves
  first come first served.
- `Framing`: weak fairness of `sendLoop` and the reader, and TCP delivers what was written.

### Disagreements with the source's own words

1. `ospf.go:255`: after 256 s of silence `checkAdja` deletes an adjacent, its watchers remain;
   when the link then dies (a UDP send error cancels it), `removeRoute` dereferences nil and
   the process ends. README.md:53 promises failover.
2. `dijkstra.go:57`: `append` shares arrays, so the nodes of a path may be overwritten;
   `dijkstra_test.go:38` expects them intact. Routing is not affected: `NextHopsLead` holds.
3. `connection.go:76` (and `ospf.go:319`, `router.go:84`): a goroutine blocked on a channel
   of the router keeps `Stop` from returning once the router has, against
   `cutevpn/config.toml.example:57`. `EndsUnlessStuck` shows the only other reasons: a TLS
   handshake, which has no deadline, and on Android the read of a device that is closed later.

## What is proved

`LinkStateDBProofs` proves, for any set of nodes, links, leaves, clocks, queue bounds, with and
without duplication: `TypeOK`, `NoSelfUpdate`, `AckedIsKnown`, `VersionDeterminesState`,
`LeafHidesAdjacents`, `NothingUnpublished` as invariants and `NoRollback` as an action
property. None of the first is inductive. `AckedIsKnown`, say, breaks unless every ack in
flight is backed by its sender (`Evidence`), which needs boot times and versions never to
come from the future (`Chronology`: a restart makes the evidence about earlier incarnations
void, because a new boot time is later than every one remembered); `NoSelfUpdate` needs the
owner marked as having acknowledged forever in every copy but its own (`Apart`);
`VersionDeterminesState` needs copies to agree with the owner's present state as well
(`Agreement`). `IInv` is their conjunction; the proof has a lemma for each conjunct, one step
per action. Assumptions: the constants' (no link from a node to itself, `Forever` beyond every
clock, absent values distinct) and the modelling of time as a counter.

`QuietNodesAgree` says what the flooding is for. Two adjacents are `Settled` when each has
heard the present incarnation of the other, has published its adjacents and has nothing left to
resend to the other. Nodes that hang together by settled adjacents (`Connected`) hold the same
database (`QuietMeansAgreement`), and it has every one of them with the adjacents it has at
that moment, although hellos, old updates and acks may still be on their way. The argument: by
`AckedIsKnown` settled adjacents know each other's copies in at least the same version, so in
the same, and by `VersionDeterminesState` in the same state; a cut between those who hold what `n`
holds and the others would contain such a pair.

`FloodingProofs` proves `ImplementsFlooding`: `Spec` of `LinkStateDB` implies
`Spec` of `Flooding` under the mapping above. There is a lemma for each handler that does
more than stutter: `FloodLinkState` publishes a version above every earlier one,
`SendPendingLSDB` tells what is held, `HandleLinkState` learns a later copy or only marks who
has it, and `HandleACK` changes nothing that is told. Type correctness is all they need.

`AdjacencyProofs` proves `IInv`, `NoEmptyHeap` and `EveryRouteWatched` for any peers, links and
routes: each route is filed under the peer it leads to and has a watcher, and the table is
made of the adjacents. The links that outlive their `Done()` change nothing about it, as a
watcher is started for every route that comes back.

`MetricProofs` proves `IInv`, `LossIsCounted`, `LosslessCostsRtt`, `LossNeverPays`, `NoCreep` and
`FairShares` for any intervals, windows of up to nine, thresholds and word. `Windows` is the
heart of `IInv`: a round trip taken `since` hellos ago is `since` intervals old, but for a
`Jitter`; so the count of hellos that should have come, with its second of grace, is that of
the hellos sent, up to the last. `GraceAssumption` is what the constants of the code
satisfy as long as hellos are late by less than the grace. `Balanced` says that no route is more than one
packet ahead of another.

`FramingProofs` proves `IInv` and `ReceivedWhatWasSent` for all packets, bytes and portions. `Layout`
says where the frames are in the stream and `Aligned` that the scanner stands between two
of them. The point of the argument is at the border: a separator has its only 0 at its end, so an
occurrence that overlaps the packet and the closing separator would end in the packet or at the
end of the frame. `CompleteFramesAreFound` is the other half: the frame that has arrived is a
token, so `split` never waits for what follows it. `StreamIsPipe` proves `ImplementsPipe`, the
refinement of `Pipe`: `Send` puts a packet in, `Scan` takes the oldest one out or closes, the
failure of a write breaks the pipe after the packets written, and the rest stutters. That
`addSep` finds a separator at all is liveness (`AcceptedIsReceived`) and checked.

`LifecycleProofs` proves `IInv`, and with it `QuietAfterStop`, for any number of connections and
any capacities (`StopIsFinal`). `QuietAfterStop` alone is not inductive: what is needed is
that `wg` counts the running goroutines (`WaitGroup`), that a goroutine is only started by one
that is itself counted (`Dialed`, `Starting`), and that no ticker is started twice.

`BlockedForGood` proves `StaysBlocked`: a goroutine that sends on a full channel of a router which
has returned stays so in every step, since nothing else takes from the channel and a
router is not started twice. With `WaitGroup` it follows (`BlockedHangsStop`) that `Stop` never
returns from there on. The counterexample of `lifecycle_hang` is thus no matter of scheduling:
no run recovers from the state it reaches, whatever the capacities.

`DijkstraProofs` proves `IInv` and `Optimal` for every set of databases with natural metrics
(asymmetric and incomplete ones included) and every order of the ranges. `Optimal` is the
textbook certificate of shortest paths: `Self` at distance 0, no adjacency over nodes with a
link state shortens a path, every other path extends one of the result and shares its next
hop. `IInv` adds to the usual loop invariant (`Frontier`, `Progress`) what `append` needs
(`Slices`): the array of the one-element path is full, so the first `append` copies and every
later one writes at index 3 or beyond; `AppendKeepsSeconds` concludes that the next hop of a
stored path never changes, though its later nodes may.

From `Optimal` follow the properties about walks: `FindsShortestDistances` and
`NextHopsAreFirstSteps`, that the distances are those of the shortest of `Walks`, and the table a
member of `ShortestTables`; and `NoWalkIsShorter`, that `Walks`, which bounds the number of nodes
so that TLC can list them, leaves out none that matters. A length is a recursive function of
the walk, so none of the provers does the induction; the argument is by a least counterexample
instead: of the places of a walk where the result is worse than the walk up to there, take the first,
and `Optimal` contradicts it. `TablesLeadNearer` is the link to `Forwarding`: with positive metrics a
shortest walk without its first step is a shorter one to the same destination, so its next hop has
fewer nodes ahead of it (`RankIn`) and an entry for the destination. Metrics of 0 are excluded
there, and there only: a metric of 0 is an average round trip of less than a nanosecond, or the
product in `Value` that wraps.

Metrics whose sum reaches 2^64 - 1 are outside the proof: the code's sum would wrap, and its search for the
nearest node starts at that value.

`ForwardingProofs` proves `IInv`, `HopsBounded`, `NoErrorsAboutErrors` and `AgreedRoutesDeliver`
for any network, packets, gateways and changes of routes. None is inductive: an error has
`ttl + hops = 64`, and hops end at 15, so its time to live is never used up; a late packet has
more of its hop limit left than its node has ranks to go (`Rank`), and each hop takes one of
the first and at least one of the second. The assumption `RankAssumption` is that no way has
more than fifteen nodes, for longer ones the hop limit is too small. That packets do arrive
is liveness, and depends on loss; what is shown is that the VPN never drops them for want of
a route or of hops.

`LongestPrefixesWin` shows that the order `sort.Sort` leaves the static routes in, whichever it
is among equal prefix lengths, makes the first match a longest one.

## What is only model-checked

Every liveness property: `CatchesUp`, `ResendingStops`, `DeadRoutesLeave`, `NoGridlock`,
`EndsUnlessStuck`, `AcceptedIsReceived`. The provers have no rules for fairness and `ENABLED`.
Every other property of a passing run is also a theorem.

The chain from the flooded databases to the packets is proved link by link, not as one
specification: `Dijkstra` starts from a database, `Forwarding` from tables of a database, and that
the databases of connected nodes agree at all is `QuietNodesAgree`.

## Not modelled

- The encoding of packets (`ospf/message`), field by field and without state: packets are records.
- Encryption, the shell commands for tun device and default route, the HTTP page and the debug
  output, SOCKS5, DNS over HTTPS, configuration, addresses, the Android user interface: I/O
  or library calls. What their goroutines do to the rest is in `Lifecycle`.
- `UpdateGateway` as a caller that blocks on the router; its effect is in `Forwarding`.
- A wall clock that steps back, and the number of hello tickers that redials leave behind: there
  is a hazard for each, and nothing in the repository that says what should hold.
- The default route: its commands change the host and nothing in the process. Those that undo it
  stop at the first that fails, and look for the saved name servers under another name.
- Two IPIP links with the same peer, which may take each other's packets.
