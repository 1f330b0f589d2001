--------------------------- MODULE MCLinkStateDB ---------------------------
(* Instances of LinkStateDB for TLC: a pair of nodes, and a chain of three. *)
EXTENDS LinkStateDB, TLC

CONSTANTS a, b, c

\* The pair: a dials b.
PairLinks == {<<a, b>>}

\* Both boot; then each restarts (if it may) or publishes.
RestartClock == [n \in Node |-> 2]

\* The chain: a - b - c.
ChainLinks == {<<a, b>>, <<c, b>>}
FloodClock == [n \in Node |-> IF n = a THEN 4 ELSE 2]

\* While c does not run: five readings of the clocks. a boots, publishes, restarts
\* and publishes again; or, with one less, b publishes as well.
\* One hello is on its way at a time: an exchange of hellos is one packet that goes
\* back and forth.
PairStep ==
    /\ boot'[c] = 0
    /\ clock'[a] + clock'[b] <= 5
    /\ Cardinality(hellos') <= 1

\* Every node runs and has measured its adjacents, nothing is published yet.
\* (Reached from Init when every hello exchange of the links succeeds.)
Established(metric) ==
    /\ clock = [n \in Node |-> 1]
    /\ boot = [n \in Node |-> 1]
    /\ adjacents = [n \in Node |-> [m \in Node |->
          IF <<n, m>> \in Links \/ <<m, n>> \in Links
            THEN [boot |-> 1, metric |-> metric] ELSE NoAdja]]
    /\ neighbors = [n \in Node |-> NoNeighbors]
    /\ pendingFlood = [n \in Node |-> TRUE]
    /\ hellos = {}
    /\ updates = {}
    /\ acks = {}

Few(packets) == \A m \in Node : Cardinality({p \in packets : p.dst = m}) <= 1

\* While c runs: a publishes twice, or a and c publish; b hands it on. The adjacents
\* stay what they are.
ChainStep ==
    /\ boot' = boot /\ adjacents' = adjacents
    /\ clock'[b] = 1 /\ clock'[a] + clock'[c] <= 4
    /\ hellos' = {} /\ Few(updates') /\ Few(acks')

FloodSpec ==
    /\ Init \/ \E metric \in Metric : Established(metric)
    /\ [][Next /\ IF boot[c] = 0 THEN PairStep ELSE ChainStep]_vars
============================================================================
