------------------------------- MODULE Routes -------------------------------
(***************************************************************************)
(* What the routes of a link-state database should be: the definitions     *)
(* that the route computation (Dijkstra) is held to, and that the packets  *)
(* (Forwarding) rely on.                                                   *)
(*                                                                         *)
(* A database maps the nodes whose link state is known to the metrics of   *)
(* their adjacents.  Link states come one by one, so it need not be        *)
(* symmetric, and an adjacent need not have a link state of its own.       *)
(***************************************************************************)
EXTENDS Integers, Sequences, FiniteSets

IsDatabase(nodes, db) ==
    /\ DOMAIN db \subseteq nodes
    /\ \A n \in DOMAIN db :
          /\ DOMAIN db[n] \subseteq nodes
          /\ \A m \in DOMAIN db[n] : db[n][m] \in Nat

\* The adjacents of n that have a link state themselves: the others are not taken
\* to exist.
Reached(db, n) == IF n \in DOMAIN db THEN DOMAIN db[n] \cap DOMAIN db ELSE {}

-----------------------------------------------------------------------------
(* Walks, as the sequences of the nodes they visit *)

IsWalk(db, from, w) ==
    w[1] = from /\ \A i \in 1 .. Len(w) - 1 : w[i + 1] \in Reached(db, w[i])

\* How long w is up to each of its nodes, and up to the last one.
Lengths(db, w) ==
    LET upTo[i \in 1 .. Len(w)] ==
            IF i = 1 THEN 0 ELSE upTo[i - 1] + db[w[i - 1]][w[i]]
    IN  upTo

Length(db, w) == Lengths(db, w)[Len(w)]
Target(w) == w[Len(w)]

\* The walks that visit no more nodes than there are: they hold a shortest one to
\* each node, as metrics are not negative (that no other walk is shorter, however
\* long it is, is theorem NoWalkIsShorter of DijkstraProofs).
Present(db, from) == DOMAIN db \cup {from}
Walks(db, from) ==
    {w \in UNION {[1 .. k -> Present(db, from)] : k \in 1 .. Cardinality(Present(db, from))} :
        IsWalk(db, from, w)}

\* The shortest of the given walks to n.
Shortest(db, walks, n) ==
    LET to == {w \in walks : Target(w) = n}
        length == [w \in to |-> Length(db, w)]
    IN  {w \in to : \A v \in to : length[w] <= length[v]}

-----------------------------------------------------------------------------
(* Route tables *)

\* The next hops from a node to all that can be reached from it, each the first
\* step of a shortest walk: there are several where walks are equally short.
ShortestTables(db, from) ==
    LET walks == Walks(db, from)
    IN  {t \in [{Target(w) : w \in walks} \ {from} -> DOMAIN db] :
            \A n \in DOMAIN t : \E w \in Shortest(db, walks, n) : w[2] = t[n]}

\* It is shorter to m from k than from n.
WalkLengths(db, from, m) == {Length(db, w) : w \in {v \in Walks(db, from) : Target(v) = m}}
Nearer(db, m, k, n) ==
    LET lengths == WalkLengths(db, n, m)
    IN  \E i \in WalkLengths(db, k, m) : \A j \in lengths : i < j

\* How many nodes are nearer to m than n is.
RankIn(db, n, m) == Cardinality({k \in DOMAIN db : Nearer(db, m, k, n)})

\* From one database, whatever table of tables[n] each node n has: the next node
\* is strictly nearer, and knows the way or is the destination.
EachHopNearer(nodes, tables, rank) ==
    \A n \in nodes : \A t \in tables[n] :
        /\ DOMAIN t \subseteq nodes \ {n}
        /\ \A dst \in DOMAIN t :
              /\ t[dst] \in nodes
              /\ rank[<<t[dst], dst>>] < rank[<<n, dst>>]
              /\ t[dst] # dst => \A next \in tables[t[dst]] : dst \in DOMAIN next
=============================================================================
