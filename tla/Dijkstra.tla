------------------------------ MODULE Dijkstra ------------------------------
(***************************************************************************)
(* The route computation of the routing protocol: dijkstra and visit       *)
(* (ospf/dijkstra.go) and the next hops calcShortest (ospf/table.go) makes *)
(* of their result.                                                        *)
(*                                                                         *)
(* Both loops range over Go maps, whose order is not defined: one step is  *)
(* one iteration of the loop of visit (Relax), or the end of a visit and   *)
(* the choice of the next node to visit (Settle).  A path is kept as a Go  *)
(* slice and extended with append, which shares the array of the path it   *)
(* extends as long as the array has room: memory holds the arrays.         *)
(***************************************************************************)
EXTENDS Routes

CONSTANTS
    Node,          \* IPv4 addresses
    Self,          \* OSPF.ip, the node that computes its routes
    emptyIPv4,     \* the zero value of IPv4
    Databases      \* the link-state databases to compute routes from

ASSUME DatabasesAssumption == \A db \in Databases : IsDatabase(Node, db)
ASSUME NodeAssumption == Self \in Node /\ emptyIPv4 \notin Node /\ IsFiniteSet(Node)

VARIABLES
    database,      \* states: OSPF.neighbors, not written
    graph,         \* the nodes left in graph: the ones not visited to the end
    from,          \* the node dijkstra visits
    edges,         \* the adjacents visit has not ranged over yet
    distances,     \* the map distances: node -> [nodes |-> slice, d |-> distance]
    result,        \* the map result, of the same type
    memory         \* the arrays behind the slices, each as long as its capacity

vars == <<database, graph, from, edges, distances, result, memory>>

\* path.Nodes: the first len elements of the array memory[array].
Slice == [array : 1 .. Len(memory), len : Nat \ {0}]
Path == [nodes : Slice, d : Nat]

TypeOK ==
    /\ database \in Databases
    /\ graph \subseteq DOMAIN database
    /\ from \in Node
    /\ edges \subseteq Node
    /\ memory \in Seq(Seq(Node \cup {emptyIPv4}))
    /\ DOMAIN distances \subseteq Node /\ distances \in [DOMAIN distances -> Path]
    /\ DOMAIN result \subseteq Node /\ result \in [DOMAIN result -> Path]

-----------------------------------------------------------------------------
(* Slices *)

Elements(mem, slice) == SubSeq(mem[slice.array], 1, slice.len)

\* append(slice, x): the array that results, and where. A full array is copied
\* to one of twice the capacity; otherwise x goes into the array at hand.
Append1(slice, x) ==
    LET old == memory[slice.array]
        copy == [i \in 1 .. 2 * slice.len |->
                    IF i <= slice.len THEN old[i]
                    ELSE IF i = slice.len + 1 THEN x ELSE emptyIPv4]
    IN  IF slice.len < Len(old)
          THEN [memory |-> [memory EXCEPT ![slice.array][slice.len + 1] = x],
                slice |-> [slice EXCEPT !.len = @ + 1]]
          ELSE [memory |-> Append(memory, copy),
                slice |-> [array |-> Len(memory) + 1, len |-> slice.len + 1]]

-----------------------------------------------------------------------------

\* Mutant: the first path is made with room for one more node.
FirstArrayWithRoom == <<Self, emptyIPv4>>

\* []IPv4{from}
FirstArray == <<Self>>

\* The adjacents in graph[n]: none if there is no link state of n.
Edges(db, g, n) == IF n \in g THEN DOMAIN db[n] ELSE {}

Init ==
    /\ database \in Databases
    /\ graph = DOMAIN database
    /\ from = Self
    /\ edges = Edges(database, graph, Self)
    /\ memory = <<FirstArray>>
    /\ distances = [n \in {Self} |-> [nodes |-> [array |-> 1, len |-> 1], d |-> 0]]
    /\ result = [n \in {} |-> distances[n]]

\* Mutant: the first distance found is kept.
ShorterNever(adja, d1) == adja \notin DOMAIN distances

\* A way to adja over from has been found that is shorter than any before.
Shorter(adja, d1) == adja \in DOMAIN distances => distances[adja].d > d1

\* One iteration of the loop of visit.
Relax(adja) ==
    LET d1 == distances[from].d + database[from][adja]
        longer == Append1(distances[from].nodes, adja)
    IN  /\ adja \in edges
        /\ edges' = edges \ {adja}
        /\ \/ /\ adja \in graph
              /\ Shorter(adja, d1)
              /\ memory' = longer.memory
              /\ distances' = [n \in DOMAIN distances \cup {adja} |->
                    IF n = adja THEN [nodes |-> longer.slice, d |-> d1] ELSE distances[n]]
           \/ /\ adja \notin graph \/ ~Shorter(adja, d1)
              /\ UNCHANGED <<memory, distances>>
        /\ UNCHANGED <<database, graph, from, result>>

\* Mutant: the node with the fewest hops, not the nearest one, is next.
FewestHops(dist) ==
    {n \in DOMAIN dist : \A m \in DOMAIN dist : dist[n].nodes.len <= dist[m].nodes.len}

\* The nodes the loop over distances may end with: it keeps the first of the
\* nearest ones it meets.
Nearest(dist) == {n \in DOMAIN dist : \A m \in DOMAIN dist : dist[n].d <= dist[m].d}

Done == DOMAIN distances = {}

\* visit has returned: from gets its result, the nearest node is next.
Settle ==
    /\ ~Done
    /\ edges = {}
    /\ result' = [n \in DOMAIN result \cup {from} |->
                    IF n = from THEN distances[n] ELSE result[n]]
    /\ distances' = [n \in DOMAIN distances \ {from} |-> distances[n]]
    /\ graph' = graph \ {from}
    /\ \/ /\ from' \in Nearest(distances')
          /\ edges' = Edges(database, graph', from')
       \/ /\ DOMAIN distances' = {}
          /\ UNCHANGED <<from, edges>>
    /\ UNCHANGED <<database, memory>>

Next == Settle \/ \E adja \in Node : Relax(adja)

Spec == Init /\ [][Next]_vars

\* p.Nodes[1]
NextHop(path) == memory[path.nodes.array][2]

\* calcShortest, when dijkstra has returned
CalcShortest == [n \in DOMAIN result \ {Self} |-> NextHop(result[n])]

-----------------------------------------------------------------------------
(* Safety *)

Known == DOMAIN result \cup DOMAIN distances
PathTo(n) == IF n \in DOMAIN result THEN result[n] ELSE distances[n]

\* No path to v can be shortened by going over u.
Relaxed(u, v) ==
    /\ v \in Known
    /\ PathTo(v).d <= PathTo(u).d + database[u][v]

\* The path to v goes over u: its length and its next hop are those of the path
\* to u, taken one node further.
Over(v, u) ==
    /\ v \in Reached(database, u)
    /\ PathTo(v).d = PathTo(u).d + database[u][v]
    /\ NextHop(PathTo(v)) = IF u = Self THEN v ELSE NextHop(PathTo(u))

\* What makes the result optimal: it starts with Self at 0, no adjacency shortens
\* any path in it, and each path but the first extends another one in it, with the
\* same next hop whatever append has done to the arrays they share.
Optimal ==
    Done =>
        /\ Self \in DOMAIN result /\ result[Self].d = 0
        /\ \A u \in DOMAIN result : \A v \in Reached(database, u) : Relaxed(u, v)
        /\ \A v \in DOMAIN result \ {Self} : \E u \in DOMAIN result : Over(v, u)

-----------------------------------------------------------------------------
(* What it computes *)

\* dijkstra finds exactly the nodes that can be reached over nodes that have a
\* link state, each at the length of the shortest walk to it.
ShortestDistances ==
    Done =>
        LET walks == Walks(database, Self)
        IN  /\ DOMAIN result = {Target(w) : w \in walks}
            /\ \A n \in DOMAIN result :
                  \E w \in Shortest(database, walks, n) : Length(database, w) = result[n].d

\* The next hops calcShortest returns are where shortest walks go first, to all
\* nodes but Self that can be reached.
NextHopsLead == Done => CalcShortest \in ShortestTables(database, Self)

-----------------------------------------------------------------------------
(* Why: an inductive invariant *)

\* The map and the loops: what is left in graph has no result yet; from is the
\* nearest of the nodes that have a distance, and no nearer than those done with.
Frontier ==
    /\ graph = DOMAIN database \ DOMAIN result
    /\ Known \subseteq DOMAIN database \cup {Self}
    /\ DOMAIN result \cap DOMAIN distances = {}
    /\ edges \subseteq Edges(database, graph, from)
    /\ ~Done => from \in Nearest(distances)
    /\ Done => edges = {}
    /\ \A u \in DOMAIN result : \A v \in DOMAIN distances : result[u].d <= distances[v].d

\* The slices: the array of the one-element path is full, so each path of two or
\* more nodes lives in an array whose first two elements are never written again.
Slices ==
    /\ PathTo(Self).nodes = [array |-> 1, len |-> 1] /\ Len(memory[1]) = 1
    /\ \A n \in Known \ {Self} : PathTo(n).nodes.len >= 2
    /\ \A n \in Known : PathTo(n).nodes.len <= Len(memory[PathTo(n).nodes.array])

\* The nodes visited so far, and of the node being visited the adjacents ranged
\* over so far, are relaxed; every path goes over a node that was or is visited.
Progress ==
    /\ Self \in Known /\ PathTo(Self).d = 0
    /\ \A u \in DOMAIN result : \A v \in Reached(database, u) : Relaxed(u, v)
    /\ ~Done => \A v \in Reached(database, from) \ edges : Relaxed(from, v)
    /\ \A v \in Known \ {Self} : \E u \in Known \cap (DOMAIN result \cup {from}) : Over(v, u)

\* Each distance is the length of a walk, which visits as many nodes as the path
\* has and goes first to its next hop, whatever append has done to the path.
Walked(n, w) ==
    /\ IsWalk(database, Self, w) /\ Target(w) = n
    /\ Length(database, w) = PathTo(n).d
    /\ n # Self => w[2] = NextHop(PathTo(n))
Attained ==
    \A n \in Known :
        \E w \in [1 .. PathTo(n).nodes.len -> Present(database, Self)] : Walked(n, w)

\* No path visits more nodes than there are: it grows by one with each visit.
Bounded ==
    /\ \A n \in DOMAIN result : result[n].nodes.len <= Cardinality(DOMAIN result)
    /\ \A n \in DOMAIN distances :
          distances[n].nodes.len <= Cardinality(DOMAIN result) + (IF n = from THEN 1 ELSE 2)

IInv == TypeOK /\ Frontier /\ Slices /\ Progress /\ Attained /\ Bounded
=============================================================================
