----------------------------- MODULE Lifecycle -----------------------------
(***************************************************************************)
(* The goroutines of one cutevpn process, the channels between them, how   *)
(* they are started and how they come to an end (vpn/config.go, vpn/vpn.go, *)
(* vpn/router.go, vpn/connection.go, ospf/ospf.go, link/tls.go,            *)
(* link/stream.go; android/cutevpn/vpn.go for the Android app).            *)
(*                                                                         *)
(* A goroutine <<kind>> exists once, a goroutine <<kind, l>> once for each *)
(* TLS connection l:                                                       *)
(*   "ospf"      the event loop of ospf.New                                *)
(*   "router"    the loop of router.Start, the only reader of out, queue   *)
(*               and socketQueue                                           *)
(*   "socket"    the loop of readSocket                                    *)
(*   "dialer"    the loop of newTLSDialer                                  *)
(*   "listener"  the loop of newTLSListener                                *)
(*   "recv"      the loop of conn.AddLink                                  *)
(*   "hello"     the ticker of OSPF.AddLink                                *)
(*   "watch"     waits for the end of the connection and tells the "ospf"  *)
(*   "caller"    of Neighbors or Dump: the user interface or an HTTP       *)
(*               handler                                                   *)
(* All but the last are started by VPN.Go, VPN.Loop or VPN.OnCancel, which *)
(* count them in the wait group that Stop waits for.  Left out are the     *)
(* goroutines that only wait for a context to end and then return,         *)
(* whatever the others do: stream.sendLoop, and those of OnCancel that     *)
(* stop a ticker, close a connection, the listener or the device.  Of the  *)
(* packets only their number is kept.                                      *)
(***************************************************************************)
EXTENDS Integers, FiniteSets

CONSTANTS
    Link,          \* the TLS connections, made one after the other
    InCap,         \* capacity of OSPF.in
    OutCap,        \* capacity of OSPF.out
    QueueCap,      \* capacity of conn.queue
    SocketCap,     \* capacity of router.socketQueue
    Burst,         \* bound of the packets one handler of the "ospf" sends
    Platform,      \* what it runs on: a subset of {"linux", "android"}
    NoLink         \* the dialer has not made a connection

ASSUME CapacityAssumption ==
    {InCap, OutCap, QueueCap, SocketCap, Burst} \subseteq Nat \ {0}
ASSUME LinkAssumption == NoLink \notin Link /\ IsFiniteSet(Link)
ASSUME PlatformAssumption == Platform \subseteq {"linux", "android"}

VARIABLES
    platform,
    main,          \* the caller of StartWithSocket and Stop
    cancelled,     \* is VPN.ctx cancelled?
    wg,            \* the counter of VPN.wg
    pc,            \* pc[g]: what goroutine g does
    burst,         \* packets the handler of the "ospf" has still to send
    peer,          \* the connection the dialer has made last
    failed,        \* connections that have failed: their Link.Cancel was called
    in, out, queue, socketQueue   \* number of packets in each channel

chans == <<in, out, queue, socketQueue>>
conns == <<peer, failed>>
vars == <<platform, main, cancelled, wg, pc, burst, conns, chans>>

Caller == <<"caller">>
Loops == {<<"ospf">>, <<"router">>, <<"socket">>, <<"dialer">>, <<"listener">>}
Goroutine == {Caller} \cup Loops \cup ({"recv", "hello", "watch"} \X Link)

\* "wait": in select, Recv, Accept or <-Done(); "put": sending on a channel (a caller:
\* on tasks); "inject": router.forwardFromConn calls OSPF.Inject; "dial": in connect;
\* "handshake": in tls.Conn.Handshake.
State == {"none", "wait", "put", "inject", "dial", "handshake", "done"}

\* Before ospf.New, before router.Start, before the links, and on.
Phase == {"starting", "routing", "linking", "running", "stopping", "stopped"}

TypeOK ==
    /\ platform \in Platform
    /\ main \in Phase
    /\ cancelled \in BOOLEAN
    /\ wg \in Nat
    /\ pc \in [Goroutine -> State]
    /\ burst \in 0 .. Burst
    /\ peer \in Link \cup {NoLink}
    /\ failed \subseteq Link
    /\ in \in 0 .. InCap
    /\ out \in 0 .. OutCap
    /\ queue \in 0 .. QueueCap
    /\ socketQueue \in 0 .. SocketCap

-----------------------------------------------------------------------------

\* Mutant: the watchers are started with go, not with vpn.Go.
CountedButWatchers(g) == g # Caller /\ g[1] # "watch"

\* Go, Loop and OnCancel: wg.Add before the goroutine starts, wg.Done at its end.
Counted(g) == g # Caller

Init ==
    /\ platform \in Platform
    /\ main = "starting"
    /\ cancelled = FALSE
    /\ pc = [g \in Goroutine |-> "none"]
    /\ wg = 0
    /\ burst = 0
    /\ peer = NoLink /\ failed = {}
    /\ in = 0 /\ out = 0 /\ queue = 0 /\ socketQueue = 0

\* Mutant: Add is forgotten where a goroutine starts.
BecomeWithoutAdd(next) ==
    LET counted == {g \in DOMAIN next : Counted(g)}
    IN  /\ pc' = [g \in Goroutine |-> IF g \in DOMAIN next THEN next[g] ELSE pc[g]]
        /\ wg' = wg - Cardinality({g \in counted : next[g] = "done"})

\* The goroutines in the domain of next go on to the states it gives: the ones that
\* had not started start, the ones that get to "done" return.
Become(next) ==
    LET counted == {g \in DOMAIN next : Counted(g)}
    IN  /\ pc' = [g \in Goroutine |-> IF g \in DOMAIN next THEN next[g] ELSE pc[g]]
        /\ wg' = wg + Cardinality({g \in counted : pc[g] = "none"})
                    - Cardinality({g \in counted : next[g] = "done"})

Goes(g, s) == Become([h \in {g} |-> s])

\* One iteration of a VPN.Loop is over: the next one begins with a look at ctx.
Again(state) == IF cancelled THEN "done" ELSE state

\* Link.Done() of a connection is closed: its context is derived from VPN.ctx.
Dead(l) == cancelled \/ l \in failed

-----------------------------------------------------------------------------
(* The event loop of the routing protocol *)

\* A handler has put n packets it is going to send; a hello by a new route starts
\* a watcher.
OspfHandles(n, watchers) ==
    /\ Become([g \in {<<"ospf">>} \cup watchers |->
                  IF g # <<"ospf">> THEN "wait" ELSE IF n = 0 THEN Again("wait") ELSE "put"])
    /\ burst' = n

\* handlePacket: at most one reply.
OspfTakesPacket ==
    /\ pc[<<"ospf">>] = "wait"
    /\ in > 0
    /\ in' = in - 1
    /\ \E n \in {0, 1}, l \in Link :
          \E watchers \in {{}} \cup
                (IF pc[<<"recv", l>>] # "none" /\ pc[<<"watch", l>>] = "none"
                   THEN {{<<"watch", l>>}} ELSE {}) :
              OspfHandles(n, watchers)
    /\ UNCHANGED <<platform, main, cancelled, conns, out, queue, socketQueue>>

\* retryTick: sendPendingLSDB sends any number of packets, to adjacents, of which there
\* are none before there is a route. (The other tickers' handlers send none.)
OspfTicks ==
    /\ pc[<<"ospf">>] = "wait"
    /\ \E n \in 0 .. Burst :
          /\ n > 0 => \E l \in Link : pc[<<"watch", l>>] # "none"
          /\ OspfHandles(n, {})
    /\ UNCHANGED <<platform, main, cancelled, conns, chans>>

\* ospf.out <- Packet{...}, outside of any select.
OspfPuts ==
    /\ pc[<<"ospf">>] = "put"
    /\ out < OutCap
    /\ out' = out + 1
    /\ OspfHandles(burst - 1, {})
    /\ UNCHANGED <<platform, main, cancelled, conns, in, queue, socketQueue>>

\* case r := <-ospf.deadRoutes, an unbuffered channel.
OspfTakesDeadRoute(l) ==
    /\ pc[<<"ospf">>] = "wait"
    /\ pc[<<"watch", l>>] = "put"
    /\ Become([g \in {<<"ospf">>, <<"watch", l>>} |->
                  IF g = <<"ospf">> THEN Again("wait") ELSE "done"])
    /\ UNCHANGED <<platform, main, cancelled, burst, conns, chans>>

-----------------------------------------------------------------------------
(* The router *)

RouterTakesOut ==
    /\ pc[<<"router">>] = "wait"
    /\ out > 0
    /\ out' = out - 1
    /\ Goes(<<"router">>, Again("wait"))
    /\ UNCHANGED <<platform, main, cancelled, burst, conns, in, queue, socketQueue>>

\* forwardFromConn: a packet of the routing protocol, or any other.
RouterTakesPacket ==
    /\ pc[<<"router">>] = "wait"
    /\ queue > 0
    /\ queue' = queue - 1
    /\ \E s \in {"inject", Again("wait")} : Goes(<<"router">>, s)
    /\ UNCHANGED <<platform, main, cancelled, burst, conns, in, out, socketQueue>>

\* Mutant: Inject waits for room.
RouterInjectsWaiting ==
    /\ pc[<<"router">>] = "inject"
    /\ in < InCap
    /\ in' = in + 1
    /\ Goes(<<"router">>, Again("wait"))
    /\ UNCHANGED <<platform, main, cancelled, burst, conns, out, queue, socketQueue>>

\* Inject drops the packet when OSPF.in is full.
RouterInjects ==
    /\ pc[<<"router">>] = "inject"
    /\ in' = IF in < InCap THEN in + 1 ELSE in
    /\ Goes(<<"router">>, Again("wait"))
    /\ UNCHANGED <<platform, main, cancelled, burst, conns, out, queue, socketQueue>>

\* forwardFromSocket: Link.Send does not block.
RouterTakesFromSocket ==
    /\ pc[<<"router">>] = "wait"
    /\ socketQueue > 0
    /\ socketQueue' = socketQueue - 1
    /\ Goes(<<"router">>, Again("wait"))
    /\ UNCHANGED <<platform, main, cancelled, burst, conns, in, out, queue>>

\* case <-ctx.Done(), of the "ospf" or the "router".
LoopEnds(g) ==
    /\ pc[g] = "wait"
    /\ cancelled
    /\ Goes(g, "done")
    /\ UNCHANGED <<platform, main, cancelled, burst, conns, chans>>

-----------------------------------------------------------------------------
(* The tun device *)

\* A packet has come: r.socketQueue <- payload is next.
SocketReads ==
    /\ pc[<<"socket">>] = "wait"
    /\ Goes(<<"socket">>, "put")
    /\ UNCHANGED <<platform, main, cancelled, burst, conns, chans>>

\* Mutant: readSocket drops the packet when socketQueue is full.
SocketPutsOrDrops ==
    /\ pc[<<"socket">>] = "put"
    /\ socketQueue' = IF socketQueue < SocketCap THEN socketQueue + 1 ELSE socketQueue
    /\ Goes(<<"socket">>, Again("wait"))
    /\ UNCHANGED <<platform, main, cancelled, burst, conns, in, out, queue>>

SocketPuts ==
    /\ pc[<<"socket">>] = "put"
    /\ socketQueue < SocketCap
    /\ socketQueue' = socketQueue + 1
    /\ Goes(<<"socket">>, Again("wait"))
    /\ UNCHANGED <<platform, main, cancelled, burst, conns, in, out, queue>>

\* The cancellation has closed the device, and Recv fails, which is no error by now. The
\* Android app closes it when Stop has returned.
SocketEnds ==
    /\ pc[<<"socket">>] = "wait"
    /\ cancelled
    /\ platform = "linux"
    /\ Goes(<<"socket">>, Again("wait"))
    /\ UNCHANGED <<platform, main, cancelled, burst, conns, chans>>

-----------------------------------------------------------------------------
(* The caller from outside *)

\* Neighbors, Dump: ospf.tasks <- func() {...}, an unbuffered channel.
CallsTask ==
    /\ main = "running"
    /\ pc[Caller] = "none"
    /\ Goes(Caller, "put")
    /\ UNCHANGED <<platform, main, cancelled, burst, conns, chans>>

\* case f := <-ospf.tasks; the caller is there to take what f sends.
OspfTakesTask ==
    /\ pc[<<"ospf">>] = "wait"
    /\ pc[Caller] = "put"
    /\ Become([g \in {<<"ospf">>, Caller} |-> IF g = Caller THEN "none" ELSE Again("wait")])
    /\ UNCHANGED <<platform, main, cancelled, burst, conns, chans>>

-----------------------------------------------------------------------------
(* A TLS connection *)

\* connect: newStream, then VPN.AddLink up to the first hello.
Dial(l) ==
    /\ pc[<<"dialer">>] = "dial"
    /\ pc[<<"recv", l>>] = "none"
    /\ peer' = l
    /\ Become([g \in {<<"dialer">>, <<"recv", l>>} |->
                  IF g = <<"dialer">> THEN "put" ELSE "wait"])
    /\ UNCHANGED <<platform, main, cancelled, burst, failed, chans>>

\* The first hello of OSPF.AddLink, in a select with the end of VPN.ctx; then the
\* ticker starts.
DialerPuts ==
    /\ pc[<<"dialer">>] = "put"
    /\ \/ out < OutCap /\ out' = out + 1
       \/ cancelled /\ UNCHANGED out
    /\ Become([g \in {<<"dialer">>, <<"hello", peer>>} |-> "wait"])
    /\ UNCHANGED <<platform, main, cancelled, burst, conns, in, queue, socketQueue>>

\* <-peer.Done()
DialerRedials ==
    /\ pc[<<"dialer">>] = "wait"
    /\ Dead(peer)
    /\ Goes(<<"dialer">>, Again("dial"))
    /\ UNCHANGED <<platform, main, cancelled, burst, conns, chans>>

\* DialContext fails once its context has ended, and connect returns.
DialerEnds ==
    /\ pc[<<"dialer">>] = "dial"
    /\ cancelled
    /\ Goes(<<"dialer">>, "done")
    /\ UNCHANGED <<platform, main, cancelled, burst, conns, chans>>

\* listener.Accept returns a connection.
Accept ==
    /\ pc[<<"listener">>] = "wait"
    /\ Goes(<<"listener">>, "handshake")
    /\ UNCHANGED <<platform, main, cancelled, burst, conns, chans>>

\* The handshake fails, or the client has no certificate and gets a page to see.
Visited ==
    /\ pc[<<"listener">>] = "handshake"
    /\ Goes(<<"listener">>, Again("wait"))
    /\ UNCHANGED <<platform, main, cancelled, burst, conns, chans>>

\* The peer is known: newStream and VPN.AddLink. It is for the peer to send hellos.
Accepted(l) ==
    /\ pc[<<"listener">>] = "handshake"
    /\ pc[<<"recv", l>>] = "none"
    /\ Become([g \in {<<"listener">>, <<"recv", l>>} |->
                  IF g = <<"listener">> THEN Again("wait") ELSE "wait"])
    /\ UNCHANGED <<platform, main, cancelled, burst, conns, chans>>

\* Accept fails: of itself (too many open files), when Loop cancels the VPN; or because
\* the cancellation has closed the listener.
AcceptFails ==
    /\ pc[<<"listener">>] = "wait"
    /\ cancelled' = TRUE
    /\ Goes(<<"listener">>, "done")
    /\ UNCHANGED <<platform, main, burst, conns, chans>>

\* A packet has come: c.queue <- p is next.
Recv(l) ==
    /\ pc[<<"recv", l>>] = "wait"
    /\ Goes(<<"recv", l>>, "put")
    /\ UNCHANGED <<platform, main, cancelled, burst, conns, chans>>

RecvPuts(l) ==
    /\ pc[<<"recv", l>>] = "put"
    /\ queue < QueueCap
    /\ queue' = queue + 1
    /\ Goes(<<"recv", l>>, Again("wait"))
    /\ UNCHANGED <<platform, main, cancelled, burst, conns, in, out, socketQueue>>

\* The connection has failed, or was closed because its context has ended: Recv
\* returns an error, Link.Cancel is called, the loop ends.
RecvFails(l) ==
    /\ pc[<<"recv", l>>] = "wait"
    /\ failed' = failed \cup {l}
    /\ Goes(<<"recv", l>>, "done")
    /\ UNCHANGED <<platform, main, cancelled, burst, peer, chans>>

\* conn.Write has failed in stream.sendLoop: the connection ends as well.
SendFails(l) ==
    /\ pc[<<"recv", l>>] # "none"
    /\ failed' = failed \cup {l}
    /\ UNCHANGED <<platform, main, cancelled, wg, pc, burst, peer, chans>>

HelloTicks(l) ==
    /\ pc[<<"hello", l>>] = "wait"
    /\ Goes(<<"hello", l>>, "put")
    /\ UNCHANGED <<platform, main, cancelled, burst, conns, chans>>

HelloPuts(l) ==
    /\ pc[<<"hello", l>>] = "put"
    /\ out < OutCap
    /\ out' = out + 1
    /\ Goes(<<"hello", l>>, "wait")
    /\ UNCHANGED <<platform, main, cancelled, burst, conns, in, queue, socketQueue>>

\* Mutant: sendHello does not look at the context.
HelloEndsBetween(l) ==
    /\ pc[<<"hello", l>>] = "wait"
    /\ cancelled
    /\ Goes(<<"hello", l>>, "done")
    /\ UNCHANGED <<platform, main, cancelled, burst, conns, chans>>

\* The ticker ends with VPN.ctx, not with its connection: in the select of the
\* loop, or in the one of sendHello, after which it gets to that of the loop.
HelloEnds(l) ==
    /\ pc[<<"hello", l>>] \in {"wait", "put"}
    /\ cancelled
    /\ Goes(<<"hello", l>>, "done")
    /\ UNCHANGED <<platform, main, cancelled, burst, conns, chans>>

\* <-route.Link.Done()
WatchWakes(l) ==
    /\ pc[<<"watch", l>>] = "wait"
    /\ Dead(l)
    /\ Goes(<<"watch", l>>, "put")
    /\ UNCHANGED <<platform, main, cancelled, burst, conns, chans>>

WatchEnds(l) ==
    /\ pc[<<"watch", l>>] = "put"
    /\ cancelled
    /\ Goes(<<"watch", l>>, "done")
    /\ UNCHANGED <<platform, main, cancelled, burst, conns, chans>>

-----------------------------------------------------------------------------
(* StartWithSocket and Stop *)

\* ospf.New
StartOspf ==
    /\ main = "starting"
    /\ main' = "routing"
    /\ Goes(<<"ospf">>, "wait")
    /\ UNCHANGED <<platform, cancelled, burst, conns, chans>>

\* newRouter and router.Start
StartRouter ==
    /\ main = "routing"
    /\ main' = "linking"
    /\ Become([g \in {<<"router">>, <<"socket">>} |-> "wait"])
    /\ UNCHANGED <<platform, cancelled, burst, conns, chans>>

\* link.New: a dialer or a listener.
StartLink ==
    /\ main = "linking"
    /\ pc[<<"dialer">>] = "none" /\ pc[<<"listener">>] = "none"
    /\ Goes(<<"dialer">>, "dial") \/ Goes(<<"listener">>, "wait")
    /\ UNCHANGED <<platform, main, cancelled, burst, conns, chans>>

StartReturns ==
    /\ main = "linking"
    /\ main' = "running"
    /\ UNCHANGED <<platform, cancelled, wg, pc, burst, conns, chans>>

\* An error on the way, in the configuration, a link or the default route: what has
\* been started is stopped.
StartFails ==
    /\ main \in {"starting", "routing", "linking"}
    /\ main' = "stopping"
    /\ cancelled' = TRUE
    /\ UNCHANGED <<platform, wg, pc, burst, conns, chans>>

Stop ==
    /\ main = "running"
    /\ main' = "stopping"
    /\ cancelled' = TRUE
    /\ UNCHANGED <<platform, wg, pc, burst, conns, chans>>

\* wg.Wait returns.
StopReturns ==
    /\ main = "stopping"
    /\ wg = 0
    /\ main' = "stopped"
    /\ UNCHANGED <<platform, cancelled, wg, pc, burst, conns, chans>>

Start == StartOspf \/ StartRouter \/ StartLink \/ StartReturns \/ StartFails
Ospf == OspfTakesPacket \/ OspfTicks \/ OspfPuts \/ CallsTask \/ OspfTakesTask \/ LoopEnds(<<"ospf">>)
Router ==
    \/ RouterTakesOut \/ RouterTakesPacket \/ RouterInjects \/ RouterTakesFromSocket
    \/ LoopEnds(<<"router">>)
Socket == SocketReads \/ SocketPuts \/ SocketEnds
Dialer == DialerPuts \/ DialerRedials \/ DialerEnds
Listener == Accept \/ Visited \/ AcceptFails
Connection(l) ==
    \/ Dial(l) \/ Accepted(l)
    \/ Recv(l) \/ RecvPuts(l) \/ RecvFails(l) \/ SendFails(l)
    \/ HelloTicks(l) \/ HelloPuts(l) \/ HelloEnds(l)
    \/ WatchWakes(l) \/ WatchEnds(l) \/ OspfTakesDeadRoute(l)

Next ==
    \/ Ospf \/ Router \/ Socket \/ Dialer \/ Listener \/ \E l \in Link : Connection(l)
    \/ Start \/ Stop \/ StopReturns

Spec == Init /\ [][Next]_vars

-----------------------------------------------------------------------------
(* Safety *)

Running(g) == pc[g] \notin {"none", "done"}

AllEnded == \A g \in Goroutine \ {Caller} : ~Running(g)

\* "Call f in a new goroutine and wait it to return before exiting"
\* (component.go:24): once Stop has returned nothing of the VPN runs or starts,
\* not even what a connection made while Stop was under way had started.
QuietAfterStop == main = "stopped" => AllEnded

\* The wait group counts the goroutines that run.
WaitGroup == wg = Cardinality({g \in Goroutine : Counted(g) /\ Running(g)})

\* The dialer's connection is one whose ticker has not been started before.
Dialed ==
    /\ \A l \in Link : pc[<<"recv", l>>] = "none" => pc[<<"hello", l>>] = "none"
    /\ pc[<<"dialer">>] \in {"put", "wait"} => peer \in Link
    /\ pc[<<"dialer">>] = "put" => pc[<<"recv", peer>>] # "none" /\ pc[<<"hello", peer>>] = "none"

\* What StartWithSocket has not started does not run.
Starting ==
    /\ main = "starting" => pc[<<"ospf">>] = "none"
    /\ main \in {"starting", "routing"} => pc[<<"router">>] = "none" /\ pc[<<"socket">>] = "none"

\* The handler that sends has packets left.
Sending == pc[<<"ospf">>] = "put" => burst > 0

\* g sends, in no select with the end of its context, on a full channel that only the
\* router would drain, which has returned.
Blocked(g) ==
    /\ pc[g] = "put"
    /\ pc[<<"router">>] = "done"
    /\ \/ g = <<"ospf">> /\ out = OutCap
       \/ g = <<"socket">> /\ socketQueue = SocketCap
       \/ g[1] = "recv" /\ queue = QueueCap

\* The goroutine that is blocked when the router has returned is blocked for good:
\* nobody else drains the channel and the router does not start again. The wait group
\* counts it, and so Stop never returns (out <-, queue <- and socketQueue <- of ospf.go,
\* connection.go and router.go).
StaysBlocked == [][\A g \in Goroutine : Blocked(g) => Blocked(g)']_vars

\* The inductive invariant from which QuietAfterStop follows.
IInv == TypeOK /\ WaitGroup /\ Starting /\ Dialed /\ Sending /\ QuietAfterStop

-----------------------------------------------------------------------------
(* Liveness *)

(***************************************************************************)
(* The runtime schedules every goroutine that can go on.  Nothing is       *)
(* assumed of what comes from outside: packets, ticks, failures, Stop.     *)
(***************************************************************************)
Scheduled ==
    /\ WF_vars(OspfTakesPacket) /\ WF_vars(OspfPuts) /\ WF_vars(LoopEnds(<<"ospf">>))
    /\ WF_vars(RouterInjects) /\ WF_vars(LoopEnds(<<"router">>))
    /\ WF_vars(SocketPuts) /\ WF_vars(SocketEnds)
    /\ WF_vars(DialerPuts) /\ WF_vars(DialerRedials) /\ WF_vars(DialerEnds)
    /\ WF_vars(AcceptFails /\ cancelled)
    /\ \A l \in Link :
          /\ WF_vars(RecvPuts(l)) /\ WF_vars(RecvFails(l) /\ Dead(l))
          /\ WF_vars(HelloPuts(l)) /\ WF_vars(HelloEnds(l))
          /\ WF_vars(WatchWakes(l)) /\ WF_vars(WatchEnds(l))
    /\ WF_vars(StopReturns)

\* A select picks at random among its ready cases, and the senders blocked on a
\* channel are served in turn: none is passed over forever. (Of one connection, dialer
\* and ticker send one after the other.)
Served ==
    /\ SF_vars(RouterTakesOut) /\ SF_vars(RouterTakesPacket) /\ SF_vars(RouterTakesFromSocket)
    /\ SF_vars(OspfPuts)
    /\ SF_vars(OspfTakesTask)
    /\ \A l \in Link : SF_vars(OspfTakesDeadRoute(l)) /\ SF_vars(DialerPuts \/ HelloPuts(l))

FairSpec == Spec /\ Scheduled
ServedSpec == FairSpec /\ Served

Sender == Goroutine \ {<<"router">>, <<"listener">>}

\* While the VPN runs its bounded channels never gridlock: the router drains
\* OSPF.out whatever the event loop waits for, because it never waits for the
\* event loop (Inject drops), and so whoever has a packet to put gets rid of it.
NoGridlock ==
    \A g \in Sender : pc[g] = "put" ~> (pc[g] # "put" \/ cancelled)

\* Who still runs long after the end is blocked on a channel; in a handshake, for which
\* there is no deadline; or, on Android, in reading a device that is closed after Stop.
Stuck(g) ==
    \/ Blocked(g)
    \/ pc[g] = "handshake"
    \/ g = <<"socket">> /\ platform = "android" /\ pc[g] = "wait"

\* Whatever ends the VPN (Stop, a start that fails half-way, a Loop that fails), all
\* that was started ends unless one is stuck, and then Stop returns.
EndsUnlessStuck ==
    /\ cancelled ~> [](AllEnded \/ \E g \in Goroutine : Stuck(g))
    /\ main = "stopping" ~> (main = "stopped" \/ \E g \in Goroutine : Stuck(g))

\* VPN.Stop returns, so that main runs "Shell scripts which will run after VPN
\* stops" (cutevpn/config.toml.example:57).
StopTerminates == main = "stopping" ~> main = "stopped"
=============================================================================
