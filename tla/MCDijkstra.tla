---------------------------- MODULE MCDijkstra ----------------------------
(* Databases of four and five nodes for Dijkstra, and what its test expects.  *)
EXTENDS Dijkstra, TLC

CONSTANTS a, b, c, d, e

\* The database with the given metrics: those of the links.
FromMetrics(nodes, metric) ==
    [n \in nodes |-> [m \in {k \in Node : <<n, k>> \in DOMAIN metric} |-> metric[<<n, m>>]]]

\* Every pair of a, b, c, d is adjacent or not, with a metric of 1 or 3 both ways;
\* d may be known to its adjacents only.
FourNodes ==
    LET pairs == {<<a, b>>, <<a, c>>, <<a, d>>, <<b, c>>, <<b, d>>, <<c, d>>}
        bothWays(links, metric) ==
            [p \in links \cup {<<p[2], p[1]>> : p \in links} |->
                IF p \in links THEN metric[p] ELSE metric[<<p[2], p[1]>>]]
    IN  UNION {{FromMetrics(nodes, bothWays(links, metric)) :
                    metric \in [links -> {1, 3}], nodes \in {{a, b, c}, {a, b, c, d}}} :
                links \in SUBSET pairs}

\* The metrics of the two ends of a link differ: a - b - c - d and a - b - c - e,
\* with a way back and ways that are shorter in one direction.
FiveNodes ==
    {FromMetrics(Node,
         <<a, b>> :> 1 @@ <<b, a>> :> 2 @@ <<b, c>> :> 1 @@ <<c, b>> :> 5 @@
         <<c, d>> :> 1 @@ <<d, c>> :> 0 @@ <<c, e>> :> x @@ <<e, c>> :> 1 @@
         <<d, e>> :> y @@ <<a, d>> :> z @@ <<a, c>> :> 4) :
     x \in {1, 2}, y \in {0, 4}, z \in {2, 3, 7}}

SomeDatabases == FourNodes \cup FiveNodes

\* What TestFindShortestPaths (dijkstra_test.go) expects of path.Nodes: the nodes
\* of a shortest walk, from Self to the node it is the path to.
NodesAreShortestPaths ==
    Done =>
        LET walks == Walks(database, Self)
        IN  \A n \in DOMAIN result :
                Elements(memory, result[n].nodes) \in Shortest(database, walks, n)
===========================================================================
