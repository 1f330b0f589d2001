------------------------------- MODULE Metric -------------------------------
(***************************************************************************)
(* The metric of the routes to one adjacent: from the round trips and the  *)
(* losses of hellos (ospf/metric.go), to the metric that is flooded        *)
(* (ospf/adjacent.go) and to the shares of the packets the routes get      *)
(* (ospf/table.go).                                                        *)
(*                                                                         *)
(* Time passes in ticks.  A round trip is kept with its age in place of    *)
(* the reading of nanotime() it was taken at.  Arithmetic is that of       *)
(* uint64, with Word in place of 2^64.                                     *)
(***************************************************************************)
EXTENDS Integers, Sequences, FiniteSets

CONSTANTS
    Route,              \* the routes to the adjacent
    Rtt,                \* Rtt[r]: the round-trip times by a route r
    HelloInterval, Grace, RouterDeadInterval,    \* in ticks; Grace is the time.Second of Value
    AverageWindow, UpdateThreshold, MaxMetric,
    Unit,               \* 128, the fixed point of ratio
    Word,               \* 2^64
    Jitter,             \* bound of the delay of a hello that is not lost
    MaxAge,             \* bound of the ages
    MaxServed           \* bound of the packets between two updates of the route table

ASSUME IntervalAssumption ==
    HelloInterval \in Nat \ {0} /\ {Grace, RouterDeadInterval, Jitter, MaxAge, MaxServed} \subseteq Nat
ASSUME GraceAssumption ==
    Jitter < Grace /\ Grace < HelloInterval /\ Grace + Jitter <= HelloInterval
ASSUME WindowAssumption == AverageWindow \in 1 .. 9
ASSUME NumberAssumption ==
    Rtt \in [Route -> SUBSET Nat] /\ UpdateThreshold \in Nat /\ MaxMetric \in Nat /\ {Unit, Word} \subseteq Nat \ {0}

VARIABLES
    phase,              \* ticks since the peers sent their last hello
    owed,               \* the routes by which that hello may still come
    routes,             \* the map adjacent.Routes; routes[r]: the round trips, the latest last
    metric,             \* adjacent.Metric
    pendingFlood,       \* OSPF.pendingFlood
    published,          \* the metric in the node's own link state
    checked,            \* history: was metric compared with the routes since anything changed?
    heap                \* the heap of the adjacent in table.adja, a map from its routes

vars == <<phase, owed, routes, metric, pendingFlood, published, checked, heap>>

-----------------------------------------------------------------------------
(* The metric of a route *)

\* A round trip d, its age, and (history) the hellos sent since.
Sample == [d : Nat, age : Nat, since : Nat]

\* A sample a tick later, at which hellos are sent or not.
Older(s, sent) == [d |-> s.d, age |-> s.age + 1, since |-> IF sent THEN s.since + 1 ELSE s.since]

D(m, i) == IF i <= Len(m) THEN m[i].d ELSE 0

\* The window has nine round trips at most.
Sum(m) == (D(m, 1) + D(m, 2) + D(m, 3) + D(m, 4) + D(m, 5)
                   + D(m, 6) + D(m, 7) + D(m, 8) + D(m, 9)) % Word

Average(m) == Sum(m) \div Len(m)

\* Mutant: no second of grace.
HelloTimesAtOnce(m) ==
    LET expected == m[1].age \div HelloInterval + 1
    IN  IF expected < Len(m) THEN Len(m) ELSE expected

\* Mutant: more hellos than expected are not provided for.
HelloTimesFew(m) ==
    LET d == IF m[1].age > Grace THEN m[1].age - Grace ELSE m[1].age
    IN  d \div HelloInterval + 1

\* The hellos that should have come since the first of the window.
HelloTimes(m) ==
    LET d == IF m[1].age > Grace THEN m[1].age - Grace ELSE m[1].age
        expected == d \div HelloInterval + 1
    IN  IF expected < Len(m) THEN Len(m) ELSE expected

Cube(n) == n * n * n

Scaled(m) == Average(m) * Cube((HelloTimes(m) * Unit) \div Len(m))

\* metric.Value
Value(m) ==
    IF m = <<>> \/ m[Len(m)].age > RouterDeadInterval
      THEN MaxMetric
      ELSE (Scaled(m) % Word) \div Cube(Unit)

\* metric.Push
Push(m, d) ==
    Append(IF Len(m) < AverageWindow THEN m ELSE Tail(m), [d |-> d, age |-> 0, since |-> 0])

-----------------------------------------------------------------------------
(* The adjacent *)

Least(values) == CHOOSE v \in values : \A w \in values : v <= w

Keep(f, s) == [r \in s |-> f[r]]

\* getMinMetricAndDeleteDeadRoute: what is left of the routes, and the least metric.
Alive(rs) == {r \in DOMAIN rs : Value(rs[r]) # MaxMetric}
Min(rs) == Least({MaxMetric} \cup {Value(rs[r]) : r \in Alive(rs)})

Diff(x, y) == IF x > y THEN x - y ELSE y - x

Differs(old, new) == Diff(old, new) * 100 > old * UpdateThreshold

\* Mutant: the metric follows, and only the jumps are flooded.
UpdateMetricAlways(old, rs) ==
    /\ routes' = Keep(rs, Alive(rs))
    /\ metric' = Min(rs)
    /\ pendingFlood' = (pendingFlood \/ Differs(old, Min(rs)))
    /\ checked' = TRUE

\* adjacent.UpdateMetric, of the routes rs and the old metric.
UpdateMetric(old, rs) ==
    /\ routes' = Keep(rs, Alive(rs))
    /\ metric' = IF Differs(old, Min(rs)) THEN Min(rs) ELSE old
    /\ pendingFlood' = (pendingFlood \/ Differs(old, Min(rs)))
    /\ checked' = TRUE

\* adjacent.GetRoutes: the best route and those whose metric is at most 1425/1024 of its.
GetRoutes(rs) ==
    LET best == Least({Value(rs[r]) : r \in DOMAIN rs})
    IN  [r \in {q \in DOMAIN rs : Value(rs[q]) <= (best * 1425) \div 1024} |->
            [metric |-> Value(rs[r]), current |-> Value(rs[r]), served |-> 0]]

None == [r \in {} |-> <<>>]

\* table.Update. (With no routes the adjacent is gone from the table.)
UpdateRouteTable == heap' = IF DOMAIN routes' = {} THEN None ELSE GetRoutes(routes')

-----------------------------------------------------------------------------
Init ==
    /\ phase = 0
    /\ owed = {}
    /\ routes = None
    /\ metric = MaxMetric
    /\ pendingFlood = FALSE
    /\ published = MaxMetric
    /\ checked = FALSE
    /\ heap = None

\* Time passes. Every HelloInterval a hello is sent by every route; one that has not
\* come for longer than Jitter is lost.
Tick ==
    LET sent == phase + 1 = HelloInterval
    IN  /\ \A r \in DOMAIN routes : routes[r][1].age < MaxAge
        /\ phase' = (phase + 1) % HelloInterval
        /\ owed' = IF sent THEN Route ELSE IF phase + 1 > Jitter THEN {} ELSE owed
        /\ routes' = [r \in DOMAIN routes |->
                         [i \in 1 .. Len(routes[r]) |-> Older(routes[r][i], sent)]]
        /\ checked' = FALSE
        /\ UNCHANGED <<metric, pendingFlood, published, heap>>

\* updateMetric: a hello has come by r, its round trip took d. The first one of all
\* makes a new adjacent. (Were the metric of the only route MaxMetric to the nanosecond,
\* GetRoutes would panic: no such step.)
HandleHello(r, d) ==
    LET m == IF r \in DOMAIN routes THEN routes[r] ELSE <<>>
        rs == [q \in DOMAIN routes \cup {r} |-> IF q = r THEN Push(m, d) ELSE routes[q]]
    IN  /\ r \in owed
        /\ owed' = owed \ {r}
        /\ UpdateMetric(IF DOMAIN routes = {} THEN MaxMetric ELSE metric, rs)
        /\ DOMAIN routes' # {}
        /\ UpdateRouteTable
        /\ UNCHANGED <<phase, published>>

\* checkAdja: the adjacent is deleted with its last route.
CheckAdja ==
    /\ DOMAIN routes # {}
    /\ routes' = Keep(routes, Alive(routes))
    /\ IF DOMAIN routes' = {}
         THEN pendingFlood' = TRUE /\ metric' = MaxMetric /\ checked' = TRUE
         ELSE UpdateMetric(metric, routes)
    /\ UpdateRouteTable
    /\ UNCHANGED <<phase, owed, published>>

\* removeRoute: the link of r has died. The metric is not compared. (Of a route or an
\* adjacent that is gone already, see Adjacency.)
RemoveRoute(r) ==
    /\ r \in DOMAIN routes
    /\ routes' = Keep(routes, DOMAIN routes \ {r})
    /\ metric' = IF DOMAIN routes' = {} THEN MaxMetric ELSE metric
    /\ pendingFlood' = TRUE
    /\ checked' = FALSE
    /\ UpdateRouteTable
    /\ UNCHANGED <<phase, owed, published>>

\* floodLinkState
FloodLinkState ==
    /\ pendingFlood
    /\ pendingFlood' = FALSE
    /\ published' = metric
    /\ UNCHANGED <<phase, owed, routes, metric, checked, heap>>

\* Mutant: a packet costs its route nothing.
ServeForFree(e) == [metric |-> e.metric, current |-> e.current, served |-> e.served + 1]

\* A route one packet later.
Serve(e) == [metric |-> e.metric, current |-> e.current + e.metric, served |-> e.served + 1]

\* Mutant: the heap is not put in order again.
GetAdjaUnordered(r) ==
    /\ r \in DOMAIN heap
    /\ heap[r].served < MaxServed
    /\ heap' = [heap EXCEPT ![r] = Serve(@)]
    /\ UNCHANGED <<phase, owed, routes, metric, pendingFlood, published, checked>>

\* getAdja: the route at the top of the heap gets the packet.
GetAdja(r) ==
    /\ r \in DOMAIN heap
    /\ \A q \in DOMAIN heap : heap[r].current <= heap[q].current
    /\ heap[r].served < MaxServed
    /\ heap' = [heap EXCEPT ![r] = Serve(@)]
    /\ UNCHANGED <<phase, owed, routes, metric, pendingFlood, published, checked>>

Next ==
    \/ Tick
    \/ \E r \in Route : RemoveRoute(r) \/ GetAdja(r) \/ \E d \in Rtt[r] : HandleHello(r, d)
    \/ CheckAdja
    \/ FloodLinkState

Spec == Init /\ [][Next]_vars

-----------------------------------------------------------------------------
(* Properties *)

TypeOK ==
    /\ phase \in 0 .. HelloInterval - 1
    /\ owed \subseteq Route
    /\ DOMAIN routes \subseteq Route
    /\ routes \in [DOMAIN routes -> Seq(Sample)]
    /\ metric \in Nat /\ published \in Nat
    /\ pendingFlood \in BOOLEAN /\ checked \in BOOLEAN
    /\ DOMAIN heap \subseteq Route
    /\ heap \in [DOMAIN heap -> [metric : Nat, current : Nat, served : Nat]]

\* A window: a sample that is since hellos old was taken within Jitter of its hello,
\* and the samples are of as many hellos.
Windows ==
    \A r \in DOMAIN routes :
        LET m == routes[r]
            waiting == IF r \in owed THEN 1 ELSE 0
        IN  /\ m # <<>>
            /\ \A i \in 1 .. Len(m) :
                  /\ m[i].since >= Len(m) - i + waiting
                  /\ \E p \in 0 .. Jitter : m[i].age = m[i].since * HelloInterval + phase - p

\* What is flooded, the metric, and the routes.
Known ==
    /\ ~pendingFlood => published = metric
    /\ DOMAIN routes = {} => metric = MaxMetric
    /\ checked /\ DOMAIN routes # {} => ~Differs(metric, Min(routes))

\* A route is at most one packet ahead of any other.
Balanced ==
    \A r \in DOMAIN heap :
        /\ heap[r].current = heap[r].metric * (heap[r].served + 1)
        /\ \A q \in DOMAIN heap : heap[r].current - heap[r].metric <= heap[q].current

\* The inductive invariant from which the properties below follow.
IInv == TypeOK /\ (owed # {} => phase <= Jitter) /\ Windows /\ Known /\ Balanced

Silent(m) == m[Len(m)].age > RouterDeadInterval

\* The hellos known to be lost since the first of the window.
Lost(r) ==
    routes[r][1].since + 1 - Len(routes[r]) - (IF r \in owed THEN 1 ELSE 0)

\* The count of hellos that should have come is right up to the last one, however
\* hellos are delayed and at whatever moment it is taken (metric.go:40-48).
LossIsCounted ==
    \A r \in DOMAIN routes :
        LET charged == HelloTimes(routes[r]) - Len(routes[r])
        IN  Lost(r) - 1 <= charged /\ charged <= Lost(r)

\* The product of Value fits a word. (With 2^64 it does up to a metric of 2^43 ns,
\* or 2.4 times maxMetric.)
Fits(m) == Scaled(m) < Word

\* A route costs its round-trip time, unless hellos are lost or the product overflows.
LosslessCostsRtt ==
    \A r \in DOMAIN routes :
        Lost(r) = 0 /\ Fits(routes[r]) /\ ~Silent(routes[r]) =>
            Value(routes[r]) = Average(routes[r])

\* Until the product overflows it never pays to lose hellos: a route is never cheaper
\* than its round-trip time, and it does not get cheaper while none come.
LossNeverPays ==
    [][\A r \in DOMAIN routes \cap DOMAIN routes' :
          LET m == routes[r]
              n == routes[r]'
          IN  ~Silent(m) /\ ~Silent(n) /\ Fits(n) /\ Tick =>
                  Average(m) <= Value(m) /\ Value(m) <= Value(n)]_vars

\* Small changes do not add up: when nothing is waiting to be flooded, what the
\* others know differs from the best route by no more than the threshold.
NoCreep ==
    checked /\ ~pendingFlood /\ DOMAIN routes # {} => ~Differs(published, Min(routes))

\* Load balancing: a route gets its share of the packets, which is in the inverse
\* ratio of the metrics, up to one packet.
FairShares ==
    \A r, q \in DOMAIN heap :
        heap[r].served * heap[r].metric <= (heap[q].served + 1) * heap[q].metric
=============================================================================
