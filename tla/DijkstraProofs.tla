--------------------------- MODULE DijkstraProofs ---------------------------
(***************************************************************************)
(* What dijkstra computes for every database, whatever the order in which  *)
(* Go ranges over its maps, and in spite of the arrays its paths share.    *)
(***************************************************************************)
EXTENDS Dijkstra, SequenceTheorems, FiniteSetTheorems, WellFoundedInduction, TLAPS

USE DatabasesAssumption, NodeAssumption DEF IsDatabase

-----------------------------------------------------------------------------
(* Slices *)

\* What TypeOK says of the arrays, and Slices of a path in them.
Arrays(mem) == mem \in Seq(Seq(Node \cup {emptyIPv4}))
Held(mem, slice) ==
    /\ slice.array \in 1 .. Len(mem) /\ slice.len \in Nat \ {0}
    /\ slice.len <= Len(mem[slice.array])

\* What append(slice, x) should make: no second element of any array changes, the
\* arrays keep their lengths, and the longer slice has the second element of slice,
\* or x if it had none.
Extends(slice, x, longer) ==
    /\ Arrays(longer.memory)
    /\ Len(longer.memory) >= Len(memory)
    /\ \A i \in 1 .. Len(memory) :
          /\ Len(longer.memory[i]) = Len(memory[i])
          /\ longer.memory[i][2] = memory[i][2]
    /\ longer.slice \in [array : 1 .. Len(longer.memory), len : Nat \ {0}]
    /\ longer.slice.len = slice.len + 1
    /\ longer.slice.len <= Len(longer.memory[longer.slice.array])
    /\ longer.memory[longer.slice.array][2] =
          IF slice.len = 1 THEN x ELSE memory[slice.array][2]

\* It does, if slice has two elements or more, or is as long as its array.
LEMMA AppendKeepsSeconds ==
    ASSUME Arrays(memory),
           NEW slice \in [array : 1 .. Len(memory), len : Nat \ {0}],
           Held(memory, slice), NEW x \in Node,
           slice.len >= 2 \/ slice.len = Len(memory[slice.array])
    PROVE  Extends(slice, x, Append1(slice, x))
<1> DEFINE longer == Append1(slice, x)
<1> DEFINE old == memory[slice.array]
<1> DEFINE Cell == Node \cup {emptyIPv4}
<1>0. /\ Len(memory) \in Nat /\ old \in Seq(Cell) /\ Len(old) \in Nat
      /\ slice.array \in 1 .. Len(memory) /\ slice.len \in Nat \ {0}
      /\ slice.len <= Len(old)
      /\ memory \in Seq(Seq(Cell))
  BY DEF Arrays, Held
<1>1. CASE slice.len < Len(old)
  <2> DEFINE written == [old EXCEPT ![slice.len + 1] = x]
  <2>1. longer = [memory |-> [memory EXCEPT ![slice.array] = written],
                  slice |-> [slice EXCEPT !.len = @ + 1]]
    BY <1>1 DEF Append1
  <2>2. written \in Seq(Cell) /\ Len(written) = Len(old)
    BY <1>0, <1>1, ExceptSeq, slice.len + 1 \in 1 .. Len(old)
  <2>3. written[2] = old[2]
    BY <1>0, <1>1
  <2>4. longer.memory \in Seq(Seq(Cell)) /\ Len(longer.memory) = Len(memory)
    BY <2>1, <2>2, <1>0
  <2>5. \A i \in 1 .. Len(memory) :
            longer.memory[i] = IF i = slice.array THEN written ELSE memory[i]
    BY <2>1, <1>0
  <2>6. longer.slice = [array |-> slice.array, len |-> slice.len + 1]
    BY <2>1
  <2>7. /\ longer.slice.array = slice.array /\ longer.slice.len = slice.len + 1
        /\ slice.len >= 2
    BY <2>6, <1>0, <1>1
  <2> HIDE DEF written
  <2>8. \A i \in 1 .. Len(memory) : Len(longer.memory[i]) = Len(memory[i])
                                  /\ longer.memory[i][2] = memory[i][2]
    BY <2>2, <2>3, <2>5
  <2>9. /\ longer.slice.len <= Len(longer.memory[longer.slice.array])
        /\ longer.memory[longer.slice.array][2] = memory[slice.array][2]
    BY <2>7, <2>8, <1>0, <1>1
  <2>10. longer.slice \in [array : 1 .. Len(longer.memory), len : Nat \ {0}]
    BY <2>4, <2>6, <1>0
  <2> QED
    BY <2>4, <2>7, <2>8, <2>9, <2>10, <1>0 DEF Arrays, Extends
<1>2. CASE ~(slice.len < Len(old))
  <2> DEFINE copy == [i \in 1 .. 2 * slice.len |->
                        IF i <= slice.len THEN old[i]
                        ELSE IF i = slice.len + 1 THEN x ELSE emptyIPv4]
  <2>1. longer = [memory |-> Append(memory, copy),
                  slice |-> [array |-> Len(memory) + 1, len |-> slice.len + 1]]
    BY <1>2 DEF Append1
  <2>2. copy \in Seq(Cell) /\ Len(copy) = 2 * slice.len
    <3>1. 2 * slice.len \in Nat
      BY <1>0
    <3>2. \A i \in 1 .. 2 * slice.len : copy[i] \in Cell
      BY <1>0
    <3> QED  BY <3>1, <3>2
  <2>3. copy[2] = IF slice.len = 1 THEN x ELSE old[2]
    BY <1>0
  <2> HIDE DEF copy
  <2>4. longer.memory \in Seq(Seq(Cell)) /\ Len(longer.memory) = Len(memory) + 1
    BY <2>1, <2>2, <1>0
  <2>5. /\ \A i \in 1 .. Len(memory) : longer.memory[i] = memory[i]
        /\ longer.memory[Len(memory) + 1] = copy
    BY <2>1, <2>2, <1>0
  <2>6. longer.slice = [array |-> Len(memory) + 1, len |-> slice.len + 1]
    BY <2>1
  <2>7. longer.slice.array = Len(memory) + 1 /\ longer.slice.len = slice.len + 1
    BY <2>6
  <2>8. /\ longer.slice.len <= Len(longer.memory[longer.slice.array])
        /\ longer.memory[longer.slice.array][2] =
                IF slice.len = 1 THEN x ELSE memory[slice.array][2]
    BY <2>2, <2>3, <2>5, <2>7, <1>0, SMTT(30)
  <2>9. longer.slice \in [array : 1 .. Len(longer.memory), len : Nat \ {0}]
    BY <2>4, <2>6, <1>0, SMTT(30)
  <2>10. \A i \in 1 .. Len(memory) : Len(longer.memory[i]) = Len(memory[i])
                                  /\ longer.memory[i][2] = memory[i][2]
    BY <2>5
  <2> QED
    BY <2>4, <2>7, <2>8, <2>9, <2>10, <1>0 DEF Arrays, Extends
<1> QED  BY <1>1, <1>2
-----------------------------------------------------------------------------
(* Walks *)

\* Induction over an interval, for a set.
LEMMA Upward ==
    ASSUME NEW n \in Nat, NEW G, 1 \in G,
           \A i \in 1 .. n - 1 : i \in G => i + 1 \in G
    PROVE  \A i \in 1 .. n : i \in G
<1> DEFINE S == {i \in 1 .. n : i \notin G}
<1> SUFFICES ASSUME S # {}
             PROVE  FALSE
  OBVIOUS
<1>1. S \subseteq Nat
  OBVIOUS
<1>2. PICK x \in S : \A y \in S : ~(<<y, x>> \in OpToRel(<, Nat))
  BY <1>1, NatLessThanWellFounded, WFMin, Zenon
<1>3. x \in 2 .. n /\ x - 1 \in 1 .. n - 1
  <2>1. x \in 1 .. n /\ x # 1
    OBVIOUS
  <2> QED  BY <2>1
<1>4. x - 1 \notin S
  <2>1. x - 1 \in Nat /\ x \in Nat /\ x - 1 < x
    BY <1>3
  <2>2. <<x - 1, x>> \in OpToRel(<, Nat)
    BY ONLY <2>1 DEF OpToRel
  <2> QED  BY <1>2, <2>2, Zenon
<1>5. x - 1 \in G /\ x - 1 \in 1 .. n - 1 /\ (x - 1) + 1 = x
  BY <1>3, <1>4
<1> QED  BY <1>5

LEMMA LengthsRecursive ==
    ASSUME NEW db, NEW w, Len(w) \in Nat \ {0}
    PROVE  Lengths(db, w) = [i \in 1 .. Len(w) |->
              IF i = 1 THEN 0 ELSE Lengths(db, w)[i - 1] + db[w[i - 1]][w[i]]]
<1> DEFINE Step(f, m) == [i \in 1 .. m |->
              IF i = 1 THEN 0 ELSE f[i - 1] + db[w[i - 1]][w[i]]]
           G == {m \in Nat : \E f : f = Step(f, m)}
<1>1. Lengths(db, w) = CHOOSE f : f = Step(f, Len(w))
  BY DEF Lengths
<1>2. 1 \in G
  <2>1. [i \in 1 .. 1 |-> 0] = Step([i \in 1 .. 1 |-> 0], 1)
    OBVIOUS
  <2> QED  BY <2>1
<1>3. ASSUME NEW m \in 1 .. Len(w) - 1, m \in G
      PROVE  m + 1 \in G
  <2>1. PICK f : f = Step(f, m)
    BY <1>3
  <2> DEFINE g == [i \in 1 .. m + 1 |->
                      IF i <= m THEN f[i] ELSE f[m] + db[w[m]][w[m + 1]]]
  <2>2. m \in Nat \ {0} /\ m + 1 \in Nat
    OBVIOUS
  <2>3. ASSUME NEW i \in 1 .. m + 1
        PROVE  g[i] = IF i = 1 THEN 0 ELSE g[i - 1] + db[w[i - 1]][w[i]]
    <3>1. CASE i <= m
      <4>1. i \in 1 .. m /\ f[i] = IF i = 1 THEN 0 ELSE f[i - 1] + db[w[i - 1]][w[i]]
        BY <2>1, <3>1
      <4>2. i # 1 => i - 1 \in 1 .. m + 1 /\ i - 1 <= m
        BY <2>2
      <4> QED  BY <3>1, <4>1, <4>2
    <3>2. CASE i = m + 1
      <4>1. /\ i \in 1 .. m + 1 /\ ~(i <= m) /\ i # 1 /\ i - 1 = m
            /\ m \in 1 .. m + 1 /\ m <= m
        BY <2>2, <3>2
      <4>2. g[m] = f[m] /\ g[i] = f[m] + db[w[m]][w[i]]
        BY <3>2, <4>1
      <4> QED  BY <4>1, <4>2
    <3> QED  BY <3>1, <3>2, <2>2
  <2>4. g = Step(g, m + 1)
    BY <2>3
  <2> QED  BY <2>2, <2>4
<1>4. Len(w) \in G
  <2> HIDE DEF G
  <2>1. \A i \in 1 .. Len(w) : i \in G
    BY <1>2, <1>3, Upward
  <2> QED  BY <2>1
<1>5. \E f : f = Step(f, Len(w))
  BY <1>4
<1>6. Lengths(db, w) = Step(Lengths(db, w), Len(w))
  <2> HIDE DEF Step
  <2> QED  BY <1>1, <1>5
<1> QED  BY <1>6

\* The length of a walk grows by the metric of each adjacency it takes.
LEMMA LengthsGrow ==
    ASSUME NEW db, NEW w, Len(w) \in Nat \ {0}
    PROVE  /\ Lengths(db, w)[1] = 0
           /\ \A i \in 1 .. Len(w) - 1 :
                  Lengths(db, w)[i + 1] = Lengths(db, w)[i] + db[w[i]][w[i + 1]]
<1> DEFINE step(i) == IF i = 1 THEN 0 ELSE Lengths(db, w)[i - 1] + db[w[i - 1]][w[i]]
<1>1. \A i \in 1 .. Len(w) : Lengths(db, w)[i] = step(i)
  <2>1. Lengths(db, w) = [i \in 1 .. Len(w) |-> step(i)]
    BY LengthsRecursive
  <2> HIDE DEF step
  <2> QED  BY <2>1
<1>2. 1 \in 1 .. Len(w)
  OBVIOUS
<1>3. ASSUME NEW i \in 1 .. Len(w) - 1
      PROVE  i + 1 \in 1 .. Len(w) /\ i + 1 # 1 /\ (i + 1) - 1 = i
  OBVIOUS
<1> QED  BY <1>1, <1>2, <1>3

LEMMA ReachedFacts ==
    ASSUME NEW db, IsDatabase(Node, db), NEW n, NEW v \in Reached(db, n)
    PROVE  /\ n \in DOMAIN db /\ v \in DOMAIN db /\ v \in Node
           /\ db[n][v] \in Nat
  BY DEF Reached, IsDatabase

\* The walk w of k nodes, taken one node further.
Longer(w, k, v) == [i \in 1 .. k + 1 |-> IF i <= k THEN w[i] ELSE v]

OneFurther(db, start, k, w, v, x) ==
    /\ x \in [1 .. k + 1 -> Present(db, start)]
    /\ IsWalk(db, start, x) /\ Target(x) = v
    /\ Length(db, x) = Length(db, w) + db[w[k]][v]
    /\ \A i \in 1 .. k : x[i] = w[i]

LEMMA WalkExtended ==
    ASSUME NEW db, IsDatabase(Node, db), NEW start, NEW k \in Nat \ {0}, NEW w,
           w \in [1 .. k -> Present(db, start)], IsWalk(db, start, w),
           NEW v \in Reached(db, w[k])
    PROVE  OneFurther(db, start, k, w, v, Longer(w, k, v))
<1> DEFINE x == Longer(w, k, v)
<1>1. v \in Present(db, start) /\ k + 1 \in Nat \ {0}
  BY ReachedFacts DEF Present
<1>2. x \in [1 .. k + 1 -> Present(db, start)] /\ \A i \in 1 .. k : i \in 1 .. k + 1 /\ x[i] = w[i]
  BY <1>1 DEF Longer
<1>3. x[k + 1] = v
  BY <1>1 DEF Longer
<1>4. Len(w) = k /\ Len(x) = k + 1
  BY <1>1 DEF Longer
<1> HIDE DEF x
<1>5. IsWalk(db, start, x)
  <2>1. x[1] = start
    BY <1>2 DEF IsWalk
  <2>2. ASSUME NEW i \in 1 .. Len(x) - 1
        PROVE  x[i + 1] \in Reached(db, x[i])
    <3>1. CASE i = k
      BY <1>2, <1>3, <3>1
    <3>2. CASE i # k
      <4>1. i \in 1 .. k - 1 /\ i \in 1 .. k /\ i + 1 \in 1 .. k
        BY <1>4, <3>2
      <4> QED  BY <1>2, <1>4, <4>1 DEF IsWalk
    <3> QED  BY <3>1, <3>2
  <2> QED  BY <2>1, <2>2 DEF IsWalk
<1>6. \A i \in 1 .. k : Lengths(db, x)[i] = Lengths(db, w)[i]
  <2> DEFINE G == {i \in 1 .. k : Lengths(db, x)[i] = Lengths(db, w)[i]}
  <2>1. /\ Lengths(db, w)[1] = 0 /\ Lengths(db, x)[1] = 0
        /\ \A i \in 1 .. k - 1 : Lengths(db, w)[i + 1] = Lengths(db, w)[i] + db[w[i]][w[i + 1]]
        /\ \A i \in 1 .. k : Lengths(db, x)[i + 1] = Lengths(db, x)[i] + db[x[i]][x[i + 1]]
    <3>1. Len(w) \in Nat \ {0} /\ Len(x) \in Nat \ {0} /\ Len(x) - 1 = k
      BY <1>1, <1>4
    <3>2. /\ Lengths(db, w)[1] = 0
          /\ \A i \in 1 .. Len(w) - 1 :
                 Lengths(db, w)[i + 1] = Lengths(db, w)[i] + db[w[i]][w[i + 1]]
      BY <3>1, LengthsGrow
    <3>3. /\ Lengths(db, x)[1] = 0
          /\ \A i \in 1 .. Len(x) - 1 :
                 Lengths(db, x)[i + 1] = Lengths(db, x)[i] + db[x[i]][x[i + 1]]
      BY <3>1, LengthsGrow
    <3> QED  BY <1>4, <3>1, <3>2, <3>3
  <2>2. 1 \in G
    BY <2>1
  <2>3. ASSUME NEW i \in 1 .. k - 1, i \in G
        PROVE  i + 1 \in G
    <3>1. i \in 1 .. k /\ i + 1 \in 1 .. k
      OBVIOUS
    <3>2. Lengths(db, x)[i + 1] = Lengths(db, w)[i + 1]
      BY <1>2, <2>1, <2>3, <3>1
    <3> QED  BY <3>1, <3>2
  <2> HIDE DEF G
  <2>4. \A i \in 1 .. k : i \in G
    BY <2>2, <2>3, Upward
  <2> QED  BY <2>4 DEF G
<1>7. Length(db, x) = Length(db, w) + db[w[k]][v]
  <2>1. k \in 1 .. k /\ k \in 1 .. Len(x) - 1
    BY <1>4
  <2>2. Lengths(db, x)[k + 1] = Lengths(db, x)[k] + db[x[k]][x[k + 1]]
    BY <1>1, <1>4, <2>1, LengthsGrow
  <2> QED  BY <1>2, <1>3, <1>4, <1>6, <2>1, <2>2 DEF Length
<1>8. Target(x) = v
  BY <1>3, <1>4 DEF Target
<1> QED  BY <1>2, <1>5, <1>7, <1>8 DEF x, OneFurther

\* In a result that no adjacency shortens, no walk is shorter than the distance of
\* the node it ends in, however often it goes in circles.
LEMMA NoShorterWalk ==
    ASSUME database \in Databases, DOMAIN result \subseteq Node,
           \A u \in DOMAIN result : result[u].d \in Nat,
           Self \in DOMAIN result, result[Self].d = 0,
           \A u \in DOMAIN result : \A v \in Reached(database, u) :
               v \in DOMAIN result /\ result[v].d <= result[u].d + database[u][v],
           NEW w, Len(w) \in Nat \ {0}, IsWalk(database, Self, w)
    PROVE  Target(w) \in DOMAIN result /\ result[Target(w)].d <= Length(database, w) /\ Length(database, w) \in Nat
<1> DEFINE G == {i \in 1 .. Len(w) :
                    /\ Lengths(database, w)[i] \in Nat /\ w[i] \in DOMAIN result
                    /\ result[w[i]].d <= Lengths(database, w)[i]}
<1>1. 1 \in G
  BY LengthsGrow DEF IsWalk
<1>2. ASSUME NEW i \in 1 .. Len(w) - 1, i \in G
      PROVE  i + 1 \in G
  <2>1. w[i + 1] \in Reached(database, w[i]) /\ i + 1 \in 1 .. Len(w)
    BY DEF IsWalk
  <2>2. database[w[i]][w[i + 1]] \in Nat
    BY <2>1, ReachedFacts
  <2>3. Lengths(database, w)[i + 1] = Lengths(database, w)[i] + database[w[i]][w[i + 1]]
    BY LengthsGrow
  <2>4. /\ w[i] \in DOMAIN result /\ Lengths(database, w)[i] \in Nat
        /\ result[w[i]].d <= Lengths(database, w)[i] /\ result[w[i]].d \in Nat
    BY <1>2
  <2>5. /\ w[i + 1] \in DOMAIN result /\ result[w[i + 1]].d \in Nat
        /\ result[w[i + 1]].d <= result[w[i]].d + database[w[i]][w[i + 1]]
    BY <2>1, <2>4
  <2> DEFINE here == Lengths(database, w)[i]
             there == Lengths(database, w)[i + 1]
             edge == database[w[i]][w[i + 1]]
             near == result[w[i]].d
             far == result[w[i + 1]].d
  <2>6. there \in Nat /\ far <= there
    <3>1. there = here + edge /\ edge \in Nat /\ here \in Nat
      BY <2>2, <2>3, <2>4
    <3>2. near <= here /\ near \in Nat /\ far \in Nat /\ far <= near + edge
      BY <2>4, <2>5
    <3> HIDE DEF here, there, edge, near, far
    <3> QED  BY <3>1, <3>2
  <2> QED  BY <2>1, <2>5, <2>6
<1> HIDE DEF G
<1>3. \A i \in 1 .. Len(w) : i \in G
  BY <1>1, <1>2, Upward
<1>4. Len(w) \in 1 .. Len(w)
  OBVIOUS
<1>5. Len(w) \in G
  BY <1>3, <1>4
<1> QED  BY <1>5 DEF G, Target, Length

\* Walks and their lengths depend on the database alone.
LEMMA WalksStay ==
    ASSUME database' = database
    PROVE  /\ Present(database, Self)' = Present(database, Self) /\ \A n : Reached(database, n)' = Reached(database, n)
           /\ \A w : IsWalk(database, Self, w)' = IsWalk(database, Self, w) /\ Length(database, w)' = Length(database, w)
<1>1. \A n : Reached(database, n)' = Reached(database, n)
  BY DEF Reached, Edges
<1>2. \A w : Length(database, w)' = Length(database, w)
  BY DEF Length, Lengths
<1> QED  BY <1>1, <1>2 DEF Present, IsWalk

-----------------------------------------------------------------------------
(* The loops *)

\* What the invariant says of each path, gathered.
LEMMA PathFacts ==
    ASSUME IInv
    PROVE  /\ Known \subseteq Node
           /\ \A n \in Known : PathTo(n) \in Path /\ Held(memory, PathTo(n).nodes)
           /\ Arrays(memory) /\ Len(memory) \in Nat
  BY DEF IInv, TypeOK, Slices, Known, PathTo, Path, Slice, Held, Arrays

LEMMA InitIInv == Init => IInv
<1> SUFFICES ASSUME Init
             PROVE  IInv
  OBVIOUS
<1>1. /\ DOMAIN result = {} /\ DOMAIN distances = {Self} /\ Known = {Self}
      /\ PathTo(Self) = [nodes |-> [array |-> 1, len |-> 1], d |-> 0]
      /\ PathTo(Self) = distances[Self]
  BY DEF Init, Known, PathTo
<1>2. memory \in Seq(Seq(Node \cup {emptyIPv4})) /\ Len(memory) = 1 /\ Len(memory[1]) = 1
  BY DEF Init, FirstArray
<1>3. database \in Databases /\ DOMAIN database \subseteq Node
      /\ \A n \in DOMAIN database : DOMAIN database[n] \subseteq Node
  BY DEF Init
<1>4. TypeOK
  BY <1>1, <1>2, <1>3 DEF Init, TypeOK, Path, Slice, Edges
<1>5. Frontier
  BY <1>1, <1>2, <1>3 DEF Init, Frontier, Done, Nearest
<1>6. Slices
  BY <1>1, <1>2, SMTT(30) DEF Slices
<1>7. Progress
  <2>1. Reached(database, from) \ edges = {}
    BY DEF Init, Reached, Edges
  <2> QED  BY <1>1, <2>1 DEF Progress
<1>8. Attained
  <2> DEFINE w == [i \in 1 .. 1 |-> Self]
  <2>1. w \in [1 .. 1 -> Present(database, Self)] /\ Len(w) = 1 /\ w[1] = Self
    BY DEF Present
  <2> HIDE DEF w
  <2>2. IsWalk(database, Self, w) /\ Target(w) = Self
    BY <2>1 DEF IsWalk, Target
  <2>3. Length(database, w) = 0
    <3>1. Len(w) \in Nat \ {0}
      BY <2>1
    <3>2. Lengths(database, w)[1] = 0
      BY <3>1, LengthsGrow
    <3> QED  BY <2>1, <3>2 DEF Length
  <2>4. Walked(Self, w)
    BY <1>1, <2>2, <2>3 DEF Walked
  <2>5. PathTo(Self).nodes.len = 1
    BY <1>1
  <2> QED  BY <1>1, <2>1, <2>4, <2>5 DEF Attained
<1>9. Bounded
  <2>1. Cardinality(DOMAIN result) = 0
    BY <1>1, FS_EmptySet
  <2>2. distances[Self].nodes.len = 1 /\ from = Self
    BY <1>1 DEF Init
  <2> QED  BY <1>1, <2>1, <2>2 DEF Bounded
<1> QED  BY <1>4, <1>5, <1>6, <1>7, <1>8, <1>9 DEF IInv

\* No shorter way to adja over from: one iteration of visit that changes no path.
LEMMA RelaxNothing ==
    ASSUME IInv, NEW adja \in edges,
           adja \notin graph \/ ~Shorter(adja, distances[from].d + database[from][adja]),
           edges' = edges \ {adja},
           UNCHANGED <<database, graph, from, distances, result, memory>>
    PROVE  IInv'
<1>1. /\ Known' = Known /\ \A n : PathTo(n)' = PathTo(n)
      /\ \A n : Reached(database, n)' = Reached(database, n)
      /\ Done' = Done /\ Nearest(distances)' = Nearest(distances)
      /\ \A u, v : Relaxed(u, v)' = Relaxed(u, v)
      /\ \A u, v : Over(v, u)' = Over(v, u)
  BY DEF Known, PathTo, Reached, Edges, Done, Nearest, Relaxed, Over, NextHop
<1>2. TypeOK'
  BY DEF IInv, TypeOK, Path, Slice
<1>3. Frontier'
  BY <1>1 DEF IInv, Frontier, Edges
<1>4. Slices'
  BY <1>1 DEF IInv, Slices
<1>5. ASSUME adja \in Reached(database, from)
      PROVE  Relaxed(from, adja)
  <2>1. /\ ~Done /\ from \in DOMAIN distances /\ from \notin DOMAIN result
        /\ adja \in DOMAIN database /\ from \in DOMAIN database
        /\ database[from][adja] \in Nat
        /\ PathTo(from) = distances[from] /\ distances[from].d \in Nat
    BY <1>5 DEF IInv, TypeOK, Frontier, Nearest, Path, PathTo, Reached, Edges
  <2>2. CASE adja \notin graph
    <3>1. adja \in DOMAIN result /\ result[adja].d <= distances[from].d /\ result[adja].d \in Nat
      BY <2>1, <2>2 DEF IInv, TypeOK, Frontier, Path
    <3> QED  BY <2>1, <3>1 DEF Relaxed, Known, PathTo
  <2>3. CASE adja \in graph
    <3>1. /\ adja \in DOMAIN distances /\ adja \notin DOMAIN result
          /\ ~(distances[adja].d > distances[from].d + database[from][adja])
          /\ distances[adja].d \in Nat
      BY <2>3 DEF Shorter, IInv, TypeOK, Frontier, Path
    <3> QED  BY <2>1, <3>1 DEF Relaxed, Known, PathTo
  <2> QED  BY <2>2, <2>3
<1>6. Progress'
  <2>1. \A v \in Reached(database, from) \ edges' : Relaxed(from, v) \/ Done
    BY <1>5 DEF IInv, Progress
  <2> QED  BY <1>1, <2>1 DEF IInv, Progress
<1>7. Attained'
  <2>1. \A n, w : Walked(n, w)' = Walked(n, w)
    BY <1>1, WalksStay DEF Walked, Target, NextHop
  <2> QED  BY <1>1, <2>1, WalksStay DEF IInv, Attained
<1>8. Bounded'
  BY DEF IInv, Bounded
<1> QED  BY <1>2, <1>3, <1>4, <1>6, <1>7, <1>8 DEF IInv

\* A shorter way to adja over from: its path is replaced by a longer one that is
\* made with append from the path to from.
LEMMA RelaxShorter ==
    ASSUME IInv, NEW adja \in edges, adja \in graph,
           NEW d1, d1 = distances[from].d + database[from][adja],
           Shorter(adja, d1),
           NEW longer, longer = Append1(distances[from].nodes, adja),
           edges' = edges \ {adja},
           memory' = longer.memory,
           distances' = [n \in DOMAIN distances \cup {adja} |->
                IF n = adja THEN [nodes |-> longer.slice, d |-> d1] ELSE distances[n]],
           UNCHANGED <<database, graph, from, result>>
    PROVE  IInv'
<1>1. /\ ~Done /\ from \in DOMAIN distances /\ from \notin DOMAIN result /\ from \in Known
      /\ from \in DOMAIN database /\ adja \in DOMAIN database[from] /\ adja \in Node
      /\ adja \in DOMAIN database /\ adja \notin DOMAIN result
      /\ database[from][adja] \in Nat
      /\ PathTo(from) = distances[from] /\ distances[from].d \in Nat
      /\ d1 \in Nat /\ d1 >= distances[from].d
      /\ from \in Nearest(distances)
  BY DEF IInv, TypeOK, Frontier, Nearest, Path, PathTo, Edges, Known
<1>2. adja # from /\ adja # Self
  <2>1. adja # from
    BY <1>1 DEF Shorter
  <2>2. adja # Self
    <3> SUFFICES ASSUME adja = Self
                 PROVE  FALSE
      OBVIOUS
    <3>1. Self \in DOMAIN distances /\ distances[Self].d = 0
      BY <1>1 DEF IInv, Progress, Known, PathTo
    <3> QED  BY <1>1, <3>1 DEF Shorter
  <2> QED  BY <2>1, <2>2
<1>3. /\ Known' = Known \cup {adja} /\ Known \subseteq Node
      /\ PathTo(adja)' = [nodes |-> longer.slice, d |-> d1]
      /\ \A n \in Known \ {adja} : PathTo(n)' = PathTo(n)
  BY <1>1, PathFacts DEF Known, PathTo
<1>4. \A n \in Known :
        /\ PathTo(n) \in Path /\ PathTo(n).d \in Nat
        /\ PathTo(n).nodes.array \in 1 .. Len(memory)
        /\ PathTo(n).nodes.len <= Len(memory[PathTo(n).nodes.array])
        /\ n # Self => PathTo(n).nodes.len >= 2
  BY PathFacts, SMTT(30) DEF IInv, Slices, Path, Slice
<1>5. /\ Arrays(memory') /\ Len(memory') >= Len(memory)
      /\ Len(memory) \in Nat /\ Len(memory') \in Nat
      /\ \A i \in 1 .. Len(memory) : /\ Len(memory'[i]) = Len(memory[i])
                                    /\ memory'[i][2] = memory[i][2]
      /\ longer.slice \in [array : 1 .. Len(memory'), len : Nat \ {0}]
      /\ longer.slice.len = distances[from].nodes.len + 1
      /\ longer.slice.len <= Len(memory'[longer.slice.array])
      /\ memory'[longer.slice.array][2] = IF from = Self THEN adja ELSE NextHop(PathTo(from))
  <2> DEFINE slice == distances[from].nodes
  <2>1. /\ slice \in [array : 1 .. Len(memory), len : Nat \ {0}] /\ Held(memory, slice)
        /\ Arrays(memory) /\ Len(memory) \in Nat
    BY <1>1, PathFacts DEF Path, Slice
  <2>2. /\ from = Self => slice.len = 1 /\ slice.len = Len(memory[slice.array])
        /\ from # Self => slice.len >= 2
    <3>1. CASE from = Self
      <4>1. slice = [array |-> 1, len |-> 1] /\ Len(memory[1]) = 1
        BY <1>1, <3>1 DEF IInv, Slices
      <4> QED  BY <3>1, <4>1
    <3>2. CASE from # Self
      BY <1>1, <3>2 DEF IInv, Slices
    <3> QED  BY <3>1, <3>2
  <2>3. slice.len \in Nat /\ (slice.len = 1 <=> from = Self)
    BY <2>1, <2>2
  <2> HIDE DEF slice
  <2>4. longer = Append1(slice, adja)
    BY DEF slice
  <2>5. Extends(slice, adja, longer)
    <3>1. adja \in Node /\ (slice.len >= 2 \/ slice.len = Len(memory[slice.array]))
      BY <1>1, <2>2, SMTT(30)
    <3> HIDE DEF slice
    <3> QED  BY <2>1, <2>4, <3>1, AppendKeepsSeconds
  <2>6. Len(memory') \in Nat
    BY <2>5 DEF Arrays, Extends
  <2>7. memory[slice.array][2] = NextHop(PathTo(from))
    BY <1>1, SMTT(30) DEF slice, NextHop
  <2> QED  BY <2>1, <2>3, <2>5, <2>6, <2>7 DEF slice, Extends
<1>6. \A n \in Known \ {adja} : NextHop(PathTo(n))' = NextHop(PathTo(n))
  BY <1>3, <1>4, <1>5, SMTT(30) DEF NextHop
<1>7. NextHop(PathTo(adja))' = IF from = Self THEN adja ELSE NextHop(PathTo(from))
  BY <1>3, <1>5, SMTT(30) DEF NextHop
<1>8. TypeOK'
  <2>1. 1 .. Len(memory) \subseteq 1 .. Len(memory')
    BY <1>5
  <2>2. Path \subseteq Path'
    BY <2>1 DEF Path, Slice
  <2>3. [nodes |-> longer.slice, d |-> d1] \in Path'
    BY <1>1, <1>5 DEF Path, Slice
  <2>4. /\ DOMAIN distances' \subseteq Node /\ distances' \in [DOMAIN distances' -> Path']
    BY <1>1, <2>2, <2>3 DEF IInv, TypeOK
  <2>5. DOMAIN result' \subseteq Node /\ result' \in [DOMAIN result' -> Path']
    BY <2>2 DEF IInv, TypeOK
  <2> QED  BY <1>5, <2>4, <2>5 DEF IInv, TypeOK, Arrays
<1>9. Frontier'
  <2>1. DOMAIN distances' = DOMAIN distances \cup {adja}
    OBVIOUS
  <2>2. \A v \in DOMAIN distances' : distances'[v].d \in Nat /\ distances[from].d <= distances'[v].d
    BY <1>1 DEF Nearest, IInv, TypeOK, Path
  <2>3. distances'[from] = distances[from]
    BY <1>1, <1>2
  <2>4. from' \in Nearest(distances')
    BY <1>1, <2>1, <2>2, <2>3 DEF Nearest
  <2>5. \A u \in DOMAIN result' : \A v \in DOMAIN distances' : result'[u].d <= distances'[v].d
    BY <1>1, <2>2 DEF IInv, TypeOK, Frontier, Path
  <2>6. edges' \subseteq Edges(database', graph', from')
    BY DEF IInv, Frontier
  <2>7. /\ graph' = DOMAIN database' \ DOMAIN result'
        /\ Known' \subseteq DOMAIN database' \cup {Self}
        /\ DOMAIN result' \cap DOMAIN distances' = {}
    BY <1>1, <1>3, <2>1 DEF IInv, Frontier
  <2>8. ~Done'
    BY <2>1 DEF Done
  <2> QED  BY <2>4, <2>5, <2>6, <2>7, <2>8, Zenon DEF Frontier
<1>10. Slices'
  <2>1. \A n \in Known : PathTo(n).nodes.len <= Len(memory'[PathTo(n).nodes.array])
    BY <1>4, <1>5, SMTT(30)
  <2>2. /\ PathTo(Self)' = PathTo(Self) /\ PathTo(Self).nodes = [array |-> 1, len |-> 1]
        /\ Len(memory[1]) = 1 /\ Self \in Known
    BY <1>2, <1>3 DEF IInv, Slices, Progress
  <2>3. Len(memory'[1]) = 1
    BY <1>4, <1>5, <2>2
  <2>4. longer.slice.len >= 2
    BY <1>1, <1>4, <1>5 DEF Path, Slice
  <2>5. PathTo(adja)'.nodes = longer.slice
    BY <1>3
  <2>6. ASSUME NEW n \in Known'
        PROVE  /\ n # Self => PathTo(n)'.nodes.len >= 2
               /\ PathTo(n)'.nodes.len <= Len(memory'[PathTo(n)'.nodes.array])
    <3>1. CASE n = adja
      BY <1>5, <2>4, <2>5, <3>1
    <3>2. CASE n # adja
      BY <1>3, <1>4, <2>1, <3>2
    <3> QED  BY <3>1, <3>2, SMTT(30)
  <2> QED  BY <2>2, <2>3, <2>6, SMTT(30) DEF Slices
<1>11. Progress'
  <2>1. \A n : Reached(database, n)' = Reached(database, n)
    BY DEF Reached, Edges
  <2>2. \A n \in DOMAIN result \cup {from} : PathTo(n)' = PathTo(n)
    BY <1>1, <1>2, <1>3 DEF Known
  <2>3. ASSUME NEW u \in DOMAIN result \cup {from}, NEW v \in Reached(database, u), Relaxed(u, v)
        PROVE  Relaxed(u, v)'
    <3>1. u \in Known /\ u \in DOMAIN database /\ database[u][v] \in Nat /\ PathTo(u).d \in Nat
      BY <1>1, <1>4 DEF Known, Reached, Edges, IInv, TypeOK
    <3>2. PathTo(v)'.d <= PathTo(v).d
      <4>1. CASE v = adja
        BY <1>1, <1>3, <2>3, <4>1, <1>4 DEF Shorter, Known, PathTo, Relaxed
      <4>2. CASE v # adja
        BY <1>3, <1>4, <2>3, <4>2 DEF Relaxed
      <4> QED  BY <4>1, <4>2
    <3>3. PathTo(v)'.d \in Nat /\ PathTo(v).d \in Nat
      <4>1. v \in Known
        BY <2>3 DEF Relaxed
      <4> QED  BY <1>1, <1>3, <1>4, <4>1, SMTT(30)
    <3> QED  BY <1>3, <2>2, <2>3, <3>1, <3>2, <3>3 DEF Relaxed
  <2>4. Relaxed(from, adja)'
    BY <1>1, <1>3, <2>2 DEF Relaxed
  <2>5. \A v \in Reached(database, from)' \ edges' : Relaxed(from, v)'
    BY <1>1, <2>1, <2>3, <2>4 DEF IInv, Progress
  <2>6. \A u \in DOMAIN result' : \A v \in Reached(database, u)' : Relaxed(u, v)'
    BY <2>1, <2>3 DEF IInv, Progress
  <2>7. ASSUME NEW v \in Known \ {Self, adja}
        PROVE  \E u \in Known \cap (DOMAIN result \cup {from}) : Over(v, u)'
    <3>1. PICK u \in Known \cap (DOMAIN result \cup {from}) : Over(v, u)
      BY <2>7 DEF IInv, Progress
    <3>2. u # adja
      BY <1>1, <1>2
    <3>3. /\ PathTo(u)' = PathTo(u) /\ NextHop(PathTo(u))' = NextHop(PathTo(u))
          /\ PathTo(v)' = PathTo(v) /\ NextHop(PathTo(v))' = NextHop(PathTo(v))
      BY <1>3, <1>6, <3>2
    <3>4. Over(v, u)'
      BY <2>1, <3>1, <3>3 DEF Over
    <3> QED  BY <3>4
  <2>8. Over(adja, from)'
    <3>1. NextHop(PathTo(from))' = NextHop(PathTo(from))
      BY <1>1, <1>2, <1>6
    <3>2. adja \in Reached(database, from)'
      BY <1>1 DEF Reached, Edges
    <3> QED  BY <1>1, <1>3, <1>7, <2>2, <3>1, <3>2 DEF Over
  <2>9. \A v \in Known' \ {Self} :
            \E u \in Known' \cap (DOMAIN result' \cup {from'}) : Over(v, u)'
    BY <1>1, <1>3, <2>7, <2>8
  <2>10. Self \in Known' /\ PathTo(Self)'.d = 0
    BY <1>2, <1>3 DEF IInv, Progress
  <2> QED  BY <2>5, <2>6, <2>9, <2>10 DEF Progress
<1>12. Attained'
  <2>1. ASSUME NEW n \in Known \ {adja}
        PROVE  \E w \in [1 .. PathTo(n)'.nodes.len -> Present(database, Self)'] : Walked(n, w)'
    <3>1. PICK w \in [1 .. PathTo(n).nodes.len -> Present(database, Self)] : Walked(n, w)
      BY DEF IInv, Attained
    <3>2. Walked(n, w)'
      BY <1>3, <1>6, <3>1, WalksStay DEF Walked, Target
    <3> QED  BY <1>3, <3>1, <3>2, WalksStay
  <2>2. \E x \in [1 .. PathTo(adja)'.nodes.len -> Present(database, Self)'] : Walked(adja, x)'
    <3> DEFINE k == distances[from].nodes.len
    <3>1. k \in Nat \ {0} /\ (from = Self => k = 1) /\ (from # Self => k >= 2)
      BY <1>1, <1>4 DEF IInv, Slices, Path, Slice
    <3>2. PICK w \in [1 .. k -> Present(database, Self)] : Walked(from, w)
      BY <1>1 DEF IInv, Attained
    <3>3. adja \in Reached(database, from)
      BY <1>1 DEF Reached, Edges
    <3>4. w[k] = from /\ IsWalk(database, Self, w) /\ Length(database, w) = distances[from].d
      BY <1>1, <3>1, <3>2 DEF Walked, Target
    <3> HIDE DEF k
    <3>5. PICK x \in [1 .. k + 1 -> Present(database, Self)] :
              /\ IsWalk(database, Self, x) /\ Target(x) = adja
              /\ Length(database, x) = Length(database, w) + database[w[k]][adja]
              /\ \A i \in 1 .. k : x[i] = w[i]
      <4>1. IsDatabase(Node, database)
        BY DEF IInv, TypeOK
      <4>2. ASSUME NEW db, db = database, NEW m, m = k
            PROVE  OneFurther(db, Self, m, w, adja, Longer(w, m, adja))
        <5>1. /\ IsDatabase(Node, db) /\ m \in Nat \ {0}
              /\ w \in [1 .. m -> Present(db, Self)]
              /\ IsWalk(db, Self, w) /\ adja \in Reached(db, w[m])
          BY <3>1, <3>2, <3>3, <3>4, <4>1, <4>2
        <5> QED  BY ONLY <5>1, WalkExtended
      <4>3. OneFurther(database, Self, k, w, adja, Longer(w, k, adja))
        BY <4>2
      <4> QED  BY <4>3 DEF OneFurther
    <3>6. x[2] = IF from = Self THEN adja ELSE NextHop(PathTo(from))
      <4>1. CASE from = Self
        <5>1. k = 1 /\ Len(x) = k + 1
          BY <3>1, <3>5, <4>1
        <5> QED  BY <3>5, <4>1, <5>1 DEF Target
      <4>2. CASE from # Self
        <5>1. x[2] = w[2]
          BY <3>1, <3>5, <4>2
        <5> QED  BY <3>2, <4>2, <5>1 DEF Walked
      <4> QED  BY <4>1, <4>2
    <3>7. Walked(adja, x)'
      BY <1>1, <1>3, <1>7, <3>4, <3>5, <3>6, WalksStay, SMTT(30) DEF Walked, Target
    <3>8. PathTo(adja)'.nodes.len = k + 1
      BY <1>3, <1>5 DEF k
    <3> QED  BY <3>5, <3>7, <3>8, WalksStay
  <2> QED  BY <1>3, <2>1, <2>2 DEF Attained
<1>13. Bounded'
  <2>1. /\ Cardinality(DOMAIN result) \in Nat
        /\ distances[from].nodes.len \in Nat
        /\ distances[from].nodes.len <= Cardinality(DOMAIN result) + 1
    BY <1>1, FS_Subset, FS_CardinalityType, SMTT(30) DEF IInv, TypeOK, Path, Slice, Bounded
  <2>2. longer.slice.len <= Cardinality(DOMAIN result) + 2
    BY <1>5, <2>1, SMTT(30)
  <2>3. /\ distances'[adja].nodes.len = longer.slice.len
        /\ \A n \in DOMAIN distances' \ {adja} : n \in DOMAIN distances /\ distances'[n] = distances[n]
    OBVIOUS
  <2> QED  BY <1>2, <2>2, <2>3 DEF IInv, Bounded
<1> QED  BY <1>8, <1>9, <1>10, <1>11, <1>12, <1>13 DEF IInv

LEMMA SettleIInv == IInv /\ Settle => IInv'
<1> SUFFICES ASSUME IInv, Settle
             PROVE  IInv'
  OBVIOUS
<1>1. /\ from \in DOMAIN distances /\ from \in Nearest(distances) /\ from \notin DOMAIN result
      /\ edges = {} /\ UNCHANGED <<database, memory>> /\ graph' = graph \ {from}
      /\ DOMAIN result' = DOMAIN result \cup {from}
      /\ DOMAIN distances' = DOMAIN distances \ {from}
      /\ \A n \in DOMAIN result : result'[n] = result[n]
      /\ result'[from] = distances[from]
      /\ \A n \in DOMAIN distances' : distances'[n] = distances[n]
  BY DEF Settle, IInv, Frontier, Nearest
<1>2. \/ /\ DOMAIN distances' # {} /\ from' \in Nearest(distances')
         /\ edges' = Edges(database, graph', from')
      \/ /\ DOMAIN distances' = {} /\ from' = from /\ edges' = edges
  BY DEF Settle, Nearest
<1>3. /\ Known' = Known
      /\ \A n \in Known : PathTo(n)' = PathTo(n)
      /\ \A n : Reached(database, n)' = Reached(database, n)
  BY <1>1 DEF Known, PathTo, Reached, Edges
<1>4. \A u \in Known : \A v : (Relaxed(u, v) => Relaxed(u, v)') /\ (Over(v, u) /\ v \in Known => Over(v, u)')
  BY <1>1, <1>3 DEF Relaxed, Over, NextHop
<1>5. TypeOK'
  <2>1. from' \in Node /\ edges' \subseteq Node
    BY <1>1, <1>2 DEF IInv, TypeOK, Nearest, Edges
  <2>2. Path' = Path
    BY <1>1 DEF Path, Slice
  <2>3. result' \in [DOMAIN result' -> Path'] /\ distances' \in [DOMAIN distances' -> Path']
    BY <1>1, <2>2 DEF IInv, TypeOK, Settle
  <2> QED  BY <1>1, <2>1, <2>3 DEF IInv, TypeOK
<1>6. Frontier'
  <2>1. /\ graph' = DOMAIN database' \ DOMAIN result'
        /\ Known' \subseteq DOMAIN database' \cup {Self}
        /\ DOMAIN result' \cap DOMAIN distances' = {}
    BY <1>1, <1>3 DEF IInv, Frontier
  <2>2. /\ edges' \subseteq Edges(database', graph', from')
        /\ ~Done' => from' \in Nearest(distances')
        /\ Done' => edges' = {}
    BY <1>1, <1>2 DEF Done, Nearest
  <2>3. \A u \in DOMAIN result' : \A v \in DOMAIN distances' : result'[u].d <= distances'[v].d
    BY <1>1 DEF IInv, Frontier, Nearest
  <2> QED  BY <2>1, <2>2, <2>3 DEF Frontier
<1>7. Slices'
  <2>1. Self \in Known
    BY DEF IInv, Progress
  <2> QED  BY <1>1, <1>3, <2>1 DEF IInv, Slices
<1>8. Progress'
  <2>1. Self \in Known' /\ PathTo(Self)'.d = 0
    BY <1>3 DEF IInv, Progress
  <2>2. \A u \in DOMAIN result' : \A v \in Reached(database, u)' : Relaxed(u, v)'
    BY <1>1, <1>3, <1>4 DEF IInv, Progress, Done, Known
  <2>3. ASSUME ~Done'
        PROVE  Reached(database, from)' \ edges' = {}
    <3>1. from' \in DOMAIN distances' /\ edges' = Edges(database, graph', from')
      BY <1>2, <2>3 DEF Done, Nearest
    <3>2. from' \in DOMAIN database => from' \in graph'
      BY <1>1, <3>1 DEF IInv, Frontier
    <3> QED  BY <1>1, <3>1, <3>2 DEF Reached, Edges
  <2>4. \A v \in Known \ {Self} : \E u \in Known \cap DOMAIN result' : Over(v, u)'
    BY <1>1, <1>4 DEF IInv, Progress
  <2> QED  BY <1>3, <2>1, <2>2, <2>3, <2>4 DEF Progress
<1>9. Attained'
  <2>1. \A n \in Known : \A w : Walked(n, w)' = Walked(n, w)
    BY <1>1, <1>3, WalksStay DEF Walked, Target, NextHop
  <2> QED  BY <1>1, <1>3, <2>1, WalksStay DEF IInv, Attained
<1>10. Bounded'
  <2>1. IsFiniteSet(DOMAIN result) /\ Cardinality(DOMAIN result) \in Nat
    BY FS_Subset, FS_CardinalityType DEF IInv, TypeOK
  <2>2. Cardinality(DOMAIN result') = Cardinality(DOMAIN result) + 1
    BY <1>1, <2>1, FS_AddElement
  <2>3. /\ \A n \in DOMAIN result : result[n].nodes.len \in Nat
        /\ \A n \in DOMAIN distances : distances[n].nodes.len \in Nat
    BY DEF IInv, TypeOK, Path, Slice
  <2>4. ASSUME NEW n \in DOMAIN result'
        PROVE  result'[n].nodes.len <= Cardinality(DOMAIN result')
    <3>1. CASE n = from
      BY <1>1, <2>1, <2>2, <2>3, <3>1 DEF IInv, Bounded
    <3>2. CASE n # from
      <4>1. n \in DOMAIN result /\ result'[n] = result[n]
        BY <1>1, <3>2
      <4> QED  BY <2>1, <2>2, <2>3, <4>1 DEF IInv, Bounded
    <3> QED  BY <3>1, <3>2
  <2>5. ASSUME NEW n \in DOMAIN distances'
        PROVE  distances'[n].nodes.len <= Cardinality(DOMAIN result') + (IF n = from' THEN 1 ELSE 2)
    <3>1. n \in DOMAIN distances /\ n # from /\ distances'[n] = distances[n]
      BY <1>1
    <3>2. /\ distances[n].nodes.len \in Nat
          /\ distances[n].nodes.len <= Cardinality(DOMAIN result) + 2
      BY <2>3, <3>1 DEF IInv, Bounded
    <3> QED  BY <2>1, <2>2, <3>1, <3>2
  <2> QED  BY <2>4, <2>5 DEF Bounded
<1> QED  BY <1>5, <1>6, <1>7, <1>8, <1>9, <1>10 DEF IInv

LEMMA NextIInv == IInv /\ [Next]_vars => IInv'
<1> SUFFICES ASSUME IInv, [Next]_vars
             PROVE  IInv'
  OBVIOUS
<1>1. CASE Settle
  BY <1>1, SettleIInv
<1>2. ASSUME NEW adja \in Node, Relax(adja)
      PROVE  IInv'
  <2> DEFINE d1 == distances[from].d + database[from][adja]
             longer == Append1(distances[from].nodes, adja)
  <2>1. /\ adja \in edges /\ edges' = edges \ {adja}
        /\ UNCHANGED <<database, graph, from, result>>
    BY <1>2 DEF Relax
  <2>2. CASE /\ adja \in graph /\ Shorter(adja, d1)
             /\ memory' = longer.memory
             /\ distances' = [n \in DOMAIN distances \cup {adja} |->
                    IF n = adja THEN [nodes |-> longer.slice, d |-> d1] ELSE distances[n]]
    BY <2>1, <2>2, RelaxShorter
  <2>3. CASE (adja \notin graph \/ ~Shorter(adja, d1)) /\ UNCHANGED <<memory, distances>>
    BY <2>1, <2>3, RelaxNothing
  <2> QED  BY <1>2, <2>2, <2>3 DEF Relax
<1>3. CASE UNCHANGED vars
  <2>1. /\ Known' = Known /\ \A n : PathTo(n)' = PathTo(n)
        /\ \A n : Reached(database, n)' = Reached(database, n)
        /\ Done' = Done /\ Nearest(distances)' = Nearest(distances)
        /\ \A u, v : Relaxed(u, v)' = Relaxed(u, v)
        /\ \A u, v : Over(v, u)' = Over(v, u)
    BY <1>3 DEF vars, Known, PathTo, Reached, Edges, Done, Nearest, Relaxed, Over, NextHop
  <2>2. TypeOK'
    BY <1>3 DEF vars, IInv, TypeOK, Path, Slice
  <2>3. Frontier'
    BY <1>3, <2>1 DEF vars, IInv, Frontier, Edges
  <2>4. Slices' /\ Progress'
    BY <1>3, <2>1 DEF vars, IInv, Slices, Progress
  <2>5. Attained'
    <3>1. \A n, w : Walked(n, w)' = Walked(n, w)
      BY <1>3, <2>1, WalksStay DEF vars, Walked, Target, NextHop
    <3> QED  BY <1>3, <2>1, <3>1, WalksStay DEF vars, IInv, Attained
  <2>6. Bounded'
    BY <1>3 DEF vars, IInv, Bounded
  <2> QED  BY <2>2, <2>3, <2>4, <2>5, <2>6 DEF IInv
<1> QED  BY <1>1, <1>2, <1>3 DEF Next

\* The loop invariant of dijkstra and visit, for every database of natural metrics
\* and every order of the ranges over their maps.
THEOREM Invariance == Spec => []IInv
<1>1. Init => IInv
  BY InitIInv
<1>2. IInv /\ [Next]_vars => IInv'
  BY NextIInv
<1> QED  BY <1>1, <1>2, PTL DEF Spec

\* When dijkstra returns, its result starts with Self at distance 0, no adjacency
\* over nodes that have a link state shortens any path in it, and every other path
\* extends one in it and has its next hop, the one calcShortest takes.
THEOREM ResultIsOptimal == Spec => []Optimal
<1>1. IInv => Optimal
  <2> SUFFICES ASSUME IInv, Done
               PROVE  /\ Self \in DOMAIN result /\ result[Self].d = 0
                      /\ \A u \in DOMAIN result : \A v \in Reached(database, u) : Relaxed(u, v)
                      /\ \A v \in DOMAIN result \ {Self} : \E u \in DOMAIN result : Over(v, u)
    BY DEF Optimal
  <2>1. Known = DOMAIN result /\ \A n \in Known : PathTo(n) = result[n]
    BY DEF Known, PathTo, Done
  <2> QED  BY <2>1 DEF IInv, Progress
<1> QED  BY <1>1, Invariance, PTL
-----------------------------------------------------------------------------
(* Shortest walks *)

\* What Optimal and Attained make of a result: no walk is shorter.
LEMMA NoneShorter ==
    ASSUME IInv, Done, NEW w, Len(w) \in Nat \ {0}, IsWalk(database, Self, w)
    PROVE  Target(w) \in DOMAIN result /\ result[Target(w)].d <= Length(database, w)
<1>1. Known = DOMAIN result /\ \A n \in Known : PathTo(n) = result[n]
  BY DEF Known, PathTo, Done
<1>2. /\ database \in Databases /\ DOMAIN result \subseteq Node
      /\ \A u \in DOMAIN result : result[u].d \in Nat
  BY DEF IInv, TypeOK, Path
<1>3. /\ Self \in DOMAIN result /\ result[Self].d = 0
      /\ \A u \in DOMAIN result : \A v \in Reached(database, u) :
            v \in DOMAIN result /\ result[v].d <= result[u].d + database[u][v]
  BY <1>1 DEF IInv, Progress, Relaxed
<1> QED  BY <1>2, <1>3, NoShorterWalk

LEMMA WalksAreWalks ==
    ASSUME NEW db, NEW start, NEW w \in Walks(db, start)
    PROVE  Len(w) \in Nat \ {0} /\ IsWalk(db, start, w)
<1>1. PICK k \in 1 .. Cardinality(Present(db, start)) : w \in [1 .. k -> Present(db, start)]
  BY DEF Walks
<1>2. k \in Nat \ {0}
  OBVIOUS
<1> QED  BY <1>1, <1>2 DEF Walks

\* Each path in a result has the length and the next hop of a walk of Walks.
LEMMA OneAsShort ==
    ASSUME IInv, Done, NEW n \in DOMAIN result
    PROVE  \E w \in Walks(database, Self) :
              /\ Target(w) = n /\ Length(database, w) = result[n].d
              /\ n # Self => w[2] = NextHop(result[n])
<1>1. n \in Known /\ PathTo(n) = result[n]
  BY DEF Known, PathTo
<1>2. PICK w \in [1 .. result[n].nodes.len -> Present(database, Self)] : Walked(n, w)
  BY <1>1 DEF IInv, Attained
<1>3. result[n].nodes.len \in 1 .. Cardinality(Present(database, Self))
  <2>1. IsFiniteSet(Present(database, Self)) /\ Cardinality(Present(database, Self)) \in Nat
    <3>1. Present(database, Self) \subseteq Node
      BY DEF IInv, TypeOK, Present
    <3> QED  BY <3>1, FS_Subset, FS_CardinalityType
  <2>2. DOMAIN result \subseteq Present(database, Self)
    BY DEF IInv, Frontier, Known, Present
  <2>3. Cardinality(DOMAIN result) \in Nat /\ Cardinality(DOMAIN result) <= Cardinality(Present(database, Self))
    BY <2>1, <2>2, FS_Subset, FS_CardinalityType
  <2>4. result[n].nodes.len \in Nat \ {0} /\ result[n].nodes.len <= Cardinality(DOMAIN result)
    BY DEF IInv, TypeOK, Path, Slice, Bounded
  <2> QED  BY <2>1, <2>3, <2>4
<1>4. w \in Walks(database, Self)
  BY <1>2, <1>3 DEF Walks, Walked
<1> QED  BY <1>1, <1>2, <1>4 DEF Walked

\* So that walk is a shortest one.
LEMMA ShortestWalk ==
    ASSUME IInv, Done, NEW n \in DOMAIN result
    PROVE  \E w \in Shortest(database, Walks(database, Self), n) :
              /\ Length(database, w) = result[n].d
              /\ n # Self => w[2] = NextHop(result[n])
<1>1. PICK w \in Walks(database, Self) :
          /\ Target(w) = n /\ Length(database, w) = result[n].d
          /\ n # Self => w[2] = NextHop(result[n])
  BY OneAsShort
<1>2. \A v \in Walks(database, Self) : Target(v) = n => Length(database, w) <= Length(database, v)
  <2> SUFFICES ASSUME NEW v \in Walks(database, Self), Target(v) = n
               PROVE  Length(database, w) <= Length(database, v)
    OBVIOUS
  <2>1. result[Target(v)].d <= Length(database, v)
    BY WalksAreWalks, NoneShorter
  <2> QED  BY <1>1, <2>1
<1> DEFINE to == {v \in Walks(database, Self) : Target(v) = n}
           length == [v \in to |-> Length(database, v)]
<1>3. w \in to /\ \A v \in to : length[w] <= length[v]
  <2>1. w \in to /\ \A v \in to : Length(database, w) <= Length(database, v)
    BY <1>1, <1>2
  <2>2. \A v \in to : length[v] = Length(database, v)
    OBVIOUS
  <2> HIDE DEF to, length
  <2> QED  BY <2>1, <2>2
<1>4. Shortest(database, Walks(database, Self), n) = {x \in to : \A v \in to : length[x] <= length[v]}
  BY DEF Shortest
<1>5. w \in Shortest(database, Walks(database, Self), n)
  <2> HIDE DEF to, length
  <2> QED  BY <1>3, <1>4
<1> QED  BY <1>1, <1>5, Zenon

\* And a result has the nodes that walks go to.
LEMMA ResultReached ==
    ASSUME IInv, Done
    PROVE  DOMAIN result = {Target(w) : w \in Walks(database, Self)}
<1>1. \A n \in DOMAIN result : n \in {Target(w) : w \in Walks(database, Self)}
  BY OneAsShort
<1>2. \A w \in Walks(database, Self) : Target(w) \in DOMAIN result
  BY WalksAreWalks, NoneShorter
<1> QED  BY <1>1, <1>2

\* When dijkstra returns, its result has exactly the nodes that can be reached over
\* nodes that have a link state, each at the length of the shortest walk to it.
THEOREM FindsShortestDistances == Spec => []ShortestDistances
<1>1. IInv => ShortestDistances
  <2> SUFFICES ASSUME IInv, Done
               PROVE  /\ DOMAIN result = {Target(w) : w \in Walks(database, Self)}
                      /\ \A n \in DOMAIN result :
                             \E w \in Shortest(database, Walks(database, Self), n) :
                                 Length(database, w) = result[n].d
    BY DEF ShortestDistances
  <2> QED  BY ResultReached, ShortestWalk
<1> QED  BY <1>1, Invariance, PTL

\* The next hops calcShortest takes from the paths, p.Nodes[1] of each, are where
\* shortest walks go first, although append may have overwritten the nodes after
\* them, and lead to all nodes that can be reached.
THEOREM NextHopsAreFirstSteps == Spec => []NextHopsLead
<1> DEFINE walks == Walks(database, Self)
           targets == {Target(w) : w \in walks} \ {Self}
<1>1. ASSUME IInv, Done
      PROVE  CalcShortest \in ShortestTables(database, Self)
  <2>1. DOMAIN result = {Target(w) : w \in walks}
    BY <1>1, ResultReached
  <2>2. ASSUME NEW n \in DOMAIN result \ {Self}
        PROVE  /\ NextHop(result[n]) \in DOMAIN database
               /\ \E w \in Shortest(database, walks, n) : w[2] = NextHop(result[n])
    <3>1. PICK w \in Shortest(database, walks, n) : w[2] = NextHop(result[n])
      BY <1>1, ShortestWalk
    <3>2. w \in walks /\ Target(w) = n
      BY DEF Shortest
    <3>3. w[2] \in Reached(database, w[1])
      <4>1. Len(w) \in Nat \ {0} /\ IsWalk(database, Self, w)
        BY <3>2, WalksAreWalks
      <4>2. Len(w) # 1
        BY <3>2, <4>1 DEF IsWalk, Target
      <4>3. 1 \in 1 .. Len(w) - 1
        <5>1. \A k \in Nat \ {0} : k # 1 => 1 \in 1 .. k - 1
          OBVIOUS
        <5> QED  BY <4>1, <4>2, <5>1
      <4> QED  BY <4>1, <4>3 DEF IsWalk
    <3> QED  BY <3>1, <3>3 DEF Reached
  <2> HIDE DEF walks
  <2>3. CalcShortest \in [targets -> DOMAIN database]
    BY <2>1, <2>2 DEF CalcShortest
  <2>4. \A n \in DOMAIN CalcShortest :
            \E w \in Shortest(database, walks, n) : w[2] = CalcShortest[n]
    BY <2>2 DEF CalcShortest
  <2>5. ShortestTables(database, Self) =
            {t \in [targets -> DOMAIN database] :
                \A n \in DOMAIN t : \E w \in Shortest(database, walks, n) : w[2] = t[n]}
    BY DEF ShortestTables, walks
  <2> HIDE DEF targets
  <2> QED  BY <2>3, <2>4, <2>5
<1>2. IInv => NextHopsLead
  BY <1>1 DEF NextHopsLead
<1> QED  BY <1>2, Invariance, PTL

\* No walk is shorter than the distance dijkstra returns, however many nodes it
\* visits and however often it goes in circles: Walks leaves none out that matters.
THEOREM NoWalkIsShorter ==
    Spec => [](Done => \A w \in Seq(Node) \ {<<>>} :
                  IsWalk(database, Self, w) => /\ Target(w) \in DOMAIN result
                               /\ result[Target(w)].d <= Length(database, w))
<1>1. ASSUME IInv, Done, NEW w \in Seq(Node) \ {<<>>}, IsWalk(database, Self, w)
      PROVE  Target(w) \in DOMAIN result /\ result[Target(w)].d <= Length(database, w)
  <2>1. Len(w) \in Nat \ {0}
    BY EmptySeq, LenProperties
  <2> QED  BY <1>1, <2>1, NoneShorter
<1>2. IInv => (Done => \A w \in Seq(Node) \ {<<>>} :
                  IsWalk(database, Self, w) => /\ Target(w) \in DOMAIN result
                               /\ result[Target(w)].d <= Length(database, w))
  BY <1>1
<1> QED  BY <1>2, Invariance, PTL
-----------------------------------------------------------------------------
(* Packets that follow the routes *)

LEMMA LengthsAreNat ==
    ASSUME NEW db, IsDatabase(Node, db), NEW start, NEW w, Len(w) \in Nat \ {0},
           IsWalk(db, start, w)
    PROVE  Length(db, w) \in Nat /\ \A i \in 1 .. Len(w) : Lengths(db, w)[i] \in Nat
<1> DEFINE G == {i \in 1 .. Len(w) : Lengths(db, w)[i] \in Nat}
<1>1. 1 \in G
  BY LengthsGrow
<1>2. ASSUME NEW i \in 1 .. Len(w) - 1, i \in G
      PROVE  i + 1 \in G
  <2>1. db[w[i]][w[i + 1]] \in Nat
    BY ReachedFacts DEF IsWalk
  <2>2. Lengths(db, w)[i + 1] = Lengths(db, w)[i] + db[w[i]][w[i + 1]]
    BY LengthsGrow
  <2> QED  BY <1>2, <2>1, <2>2
<1> HIDE DEF G
<1>3. \A i \in 1 .. Len(w) : i \in G
  BY <1>1, <1>2, Upward
<1>4. Len(w) \in G
  BY <1>3
<1> QED  BY <1>3, <1>4 DEF G, Length

\* The walk w of k + 1 nodes, without the first.
Onward(w, k) == [i \in 1 .. k |-> w[i + 1]]

LEMMA WalkOnward ==
    ASSUME NEW db, IsDatabase(Node, db), NEW start, NEW k \in Nat \ {0}, NEW w,
           w \in [1 .. k + 1 -> Present(db, start)], IsWalk(db, start, w)
    PROVE  /\ Onward(w, k) \in [1 .. k -> DOMAIN db]
           /\ IsWalk(db, w[2], Onward(w, k)) /\ Target(Onward(w, k)) = Target(w)
           /\ start \in DOMAIN db /\ w[2] \in DOMAIN db[start]
           /\ Length(db, w) = db[start][w[2]] + Length(db, Onward(w, k))
<1> DEFINE v == Onward(w, k)
<1>1. Len(w) \in Nat \ {0} /\ Len(w) = k + 1 /\ Len(w) - 1 = k
  OBVIOUS
<1>2. Len(v) = k /\ DOMAIN v = 1 .. k /\ \A i \in 1 .. k : v[i] = w[i + 1]
  BY DEF Onward
<1>3. \A i \in 1 .. k : w[i + 1] \in Reached(db, w[i])
  BY <1>1 DEF IsWalk
<1>4. v \in [1 .. k -> DOMAIN db]
  BY <1>3, ReachedFacts DEF Onward
<1> HIDE DEF v
<1>5. IsWalk(db, w[2], v)
  <2>1. v[1] = w[2]
    BY <1>2
  <2>2. ASSUME NEW i \in 1 .. Len(v) - 1
        PROVE  v[i + 1] \in Reached(db, v[i])
    <3>1. i \in 1 .. k /\ i + 1 \in 1 .. k
      BY <1>2
    <3> QED  BY <1>2, <1>3, <3>1
  <2> QED  BY <2>1, <2>2 DEF IsWalk
<1>6. Target(v) = Target(w)
  BY <1>1, <1>2 DEF Target
<1>7. w[1] = start /\ 1 \in 1 .. k /\ start \in DOMAIN db /\ w[2] \in DOMAIN db[start]
  <2>1. w[1] = start /\ 1 \in 1 .. k
    BY DEF IsWalk
  <2>2. w[1 + 1] \in Reached(db, w[1])
    BY <1>3, <2>1
  <2> QED  BY <2>1, <2>2 DEF Reached
<1>8. /\ Lengths(db, w)[1] = 0 /\ Lengths(db, v)[1] = 0
      /\ \A i \in 1 .. k : Lengths(db, w)[i + 1] = Lengths(db, w)[i] + db[w[i]][w[i + 1]]
      /\ \A i \in 1 .. k - 1 : Lengths(db, v)[i + 1] = Lengths(db, v)[i] + db[v[i]][v[i + 1]]
  <2>1. /\ Lengths(db, w)[1] = 0
        /\ \A i \in 1 .. Len(w) - 1 :
              Lengths(db, w)[i + 1] = Lengths(db, w)[i] + db[w[i]][w[i + 1]]
    BY <1>1, LengthsGrow
  <2>2. /\ Lengths(db, v)[1] = 0
        /\ \A i \in 1 .. Len(v) - 1 :
              Lengths(db, v)[i + 1] = Lengths(db, v)[i] + db[v[i]][v[i + 1]]
    BY <1>2, LengthsGrow
  <2> QED  BY <1>1, <1>2, <2>1, <2>2
<1>9. \A i \in 1 .. k : Lengths(db, v)[i] \in Nat /\ db[w[i]][w[i + 1]] \in Nat
  <2>1. \A i \in 1 .. k : db[w[i]][w[i + 1]] \in Nat
    BY <1>3, ReachedFacts
  <2>2. Len(v) \in Nat \ {0}
    BY <1>2
  <2>3. \A i \in 1 .. Len(v) : Lengths(db, v)[i] \in Nat
    BY <1>5, <2>2, LengthsAreNat
  <2> QED  BY <1>2, <2>1, <2>3
<1>10. \A i \in 1 .. k : Lengths(db, w)[i + 1] = db[start][w[2]] + Lengths(db, v)[i]
  <2> DEFINE first == db[start][w[2]]
  <2> DEFINE G == {i \in 1 .. k : Lengths(db, w)[i + 1] = first + Lengths(db, v)[i]}
  <2>0. first \in Nat
    BY <1>7
  <2>1. 1 \in G
    <3>1. Lengths(db, w)[1 + 1] = Lengths(db, w)[1] + db[w[1]][w[1 + 1]]
      BY <1>7, <1>8
    <3>2. Lengths(db, w)[1 + 1] = first
      BY <1>7, <1>8, <2>0, <3>1
    <3> QED  BY <1>7, <1>8, <2>0, <3>2
  <2>2. ASSUME NEW i \in 1 .. k - 1, i \in G
        PROVE  i + 1 \in G
    <3>1. i \in 1 .. k /\ i + 1 \in 1 .. k /\ i \in Nat
      OBVIOUS
    <3> DEFINE metric == db[w[i + 1]][w[i + 1 + 1]]
    <3>2. Lengths(db, w)[i + 1 + 1] = Lengths(db, w)[i + 1] + metric /\ metric \in Nat
      BY <1>8, <1>9, <3>1
    <3>3. Lengths(db, v)[i + 1] = Lengths(db, v)[i] + metric /\ Lengths(db, v)[i] \in Nat
      BY <1>2, <1>8, <1>9, <3>1
    <3>4. Lengths(db, w)[i + 1] = first + Lengths(db, v)[i]
      BY <2>2
    <3> HIDE DEF metric, first
    <3> QED  BY <2>0, <3>1, <3>2, <3>3, <3>4
  <2> HIDE DEF G
  <2>3. \A i \in 1 .. k : i \in G
    BY <2>1, <2>2, Upward
  <2> QED  BY <2>3 DEF G
<1>11. Length(db, w) = db[start][w[2]] + Length(db, v)
  BY <1>1, <1>2, <1>10 DEF Length
<1> QED  BY <1>4, <1>5, <1>6, <1>7, <1>11 DEF v

LEMMA WalksEnd ==
    ASSUME NEW db, IsDatabase(Node, db), NEW start \in Node, NEW w \in Walks(db, start)
    PROVE  Target(w) \in Node
<1>1. PICK k \in 1 .. Cardinality(Present(db, start)) : w \in [1 .. k -> Present(db, start)]
  BY DEF Walks
<1>2. Len(w) = k /\ k \in 1 .. k /\ w[k] \in Present(db, start)
  BY <1>1
<1> QED  BY <1>2 DEF Target, Present

LEMMA WalkLengthsAreNat ==
    ASSUME NEW db, IsDatabase(Node, db), NEW start, NEW dst,
           NEW i \in WalkLengths(db, start, dst)
    PROVE  i \in Nat
<1>1. PICK w \in Walks(db, start) : i = Length(db, w)
  BY DEF WalkLengths
<1> QED  BY <1>1, WalksAreWalks, LengthsAreNat

\* After the first step of a shortest walk, less of the way is left.
LEMMA HopIsNearer ==
    ASSUME NEW db, IsDatabase(Node, db),
           \A n \in DOMAIN db : \A m \in DOMAIN db[n] : db[n][m] > 0,
           NEW start \in Node, NEW dst, dst # start,
           NEW w \in Shortest(db, Walks(db, start), dst)
    PROVE  /\ start \in DOMAIN db /\ w[2] \in DOMAIN db \ {start}
           /\ \E v \in Walks(db, w[2]) :
                 /\ Target(v) = dst /\ Length(db, v) \in Nat
                 /\ \A i \in WalkLengths(db, start, dst) : i \in Nat /\ Length(db, v) < i
<1>1. /\ w \in Walks(db, start) /\ Target(w) = dst
      /\ \A x \in Walks(db, start) : Target(x) = dst => Length(db, w) <= Length(db, x)
  BY DEF Shortest
<1>2. PICK k \in 1 .. Cardinality(Present(db, start)) : w \in [1 .. k -> Present(db, start)]
  BY <1>1 DEF Walks
<1>3. IsWalk(db, start, w)
  BY <1>1 DEF Walks
<1>4. k # 1
  BY <1>1, <1>2, <1>3 DEF IsWalk, Target
<1>5. PICK j \in Nat \ {0} : k = j + 1
  <2>1. k - 1 \in Nat \ {0} /\ k = (k - 1) + 1
    BY <1>2, <1>4
  <2> QED  BY <2>1
<1> DEFINE v == Onward(w, j)
<1>6. /\ v \in [1 .. j -> DOMAIN db] /\ IsWalk(db, w[2], v) /\ Target(v) = dst
      /\ start \in DOMAIN db /\ w[2] \in DOMAIN db[start]
      /\ Length(db, w) = db[start][w[2]] + Length(db, v)
  BY <1>1, <1>2, <1>3, <1>5, WalkOnward
<1>7. v[1] = w[2] /\ v[1] \in DOMAIN db /\ Len(v) = j
  BY <1>5, <1>6 DEF Onward
<1> HIDE DEF v
<1>8. v \in Walks(db, w[2])
  <2>1. Present(db, start) = DOMAIN db /\ Present(db, w[2]) = DOMAIN db
    BY <1>6, <1>7 DEF Present
  <2>2. IsFiniteSet(DOMAIN db) /\ Cardinality(DOMAIN db) \in Nat
    BY FS_Subset, FS_CardinalityType
  <2>3. j \in 1 .. Cardinality(DOMAIN db)
    BY <1>2, <1>5, <2>1, <2>2
  <2> QED  BY <1>6, <2>1, <2>3 DEF Walks
<1>9. Length(db, v) \in Nat /\ Length(db, w) > Length(db, v)
  <2>1. Length(db, v) \in Nat
    BY <1>5, <1>6, <1>7, LengthsAreNat
  <2>2. db[start][w[2]] \in Nat /\ db[start][w[2]] > 0
    BY <1>6
  <2> QED  BY <1>6, <2>1, <2>2
<1>10. \A i \in WalkLengths(db, start, dst) : i \in Nat /\ Length(db, v) < i
  <2> SUFFICES ASSUME NEW x \in Walks(db, start), Target(x) = dst
               PROVE  Length(db, x) \in Nat /\ Length(db, v) < Length(db, x)
    BY DEF WalkLengths
  <2>1. Length(db, x) \in Nat /\ Length(db, w) \in Nat
    BY <1>1, WalksAreWalks, LengthsAreNat
  <2>2. Length(db, w) <= Length(db, x)
    BY <1>1
  <2> QED  BY <1>9, <2>1, <2>2
<1>11. w[2] # start
  <2>1. Length(db, v) \in WalkLengths(db, w[2], dst)
    BY <1>6, <1>8 DEF WalkLengths
  <2> QED  BY <1>9, <1>10, <2>1
<1> QED  BY <1>6, <1>7, <1>8, <1>9, <1>10, <1>11

\* From one database whose metrics are not 0, packets that follow the tables of
\* calcShortest are nearer to their destination with every hop, and find every node
\* on the way to know on: what Forwarding assumes of its routes.
THEOREM TablesLeadNearer ==
    ASSUME NEW db, IsDatabase(Node, db),
           \A n \in DOMAIN db : \A m \in DOMAIN db[n] : db[n][m] > 0
    PROVE  EachHopNearer(Node, [n \in Node |-> ShortestTables(db, n)],
                         [p \in Node \X Node |-> RankIn(db, p[1], p[2])])
<1> SUFFICES ASSUME NEW n \in Node, NEW t \in ShortestTables(db, n), NEW dst \in DOMAIN t
             PROVE  /\ dst \in Node \ {n} /\ t[dst] \in Node
                    /\ RankIn(db, t[dst], dst) < RankIn(db, n, dst)
                    /\ t[dst] # dst =>
                          \A next \in ShortestTables(db, t[dst]) : dst \in DOMAIN next
  <2>1. \A p \in Node, q \in Node : <<p, q>> \in Node \X Node
    OBVIOUS
  <2> QED  BY <2>1 DEF EachHopNearer
<1>1. /\ dst \in {Target(w) : w \in Walks(db, n)} \ {n} /\ t[dst] \in DOMAIN db
      /\ \E w \in Shortest(db, Walks(db, n), dst) : w[2] = t[dst]
  BY DEF ShortestTables
<1>2. PICK w \in Shortest(db, Walks(db, n), dst) : w[2] = t[dst]
  BY <1>1
<1> DEFINE hop == t[dst]
<1>3. n \in DOMAIN db /\ hop \in DOMAIN db
  BY <1>1, <1>2, HopIsNearer
<1>4. PICK v \in Walks(db, hop) :
          /\ Target(v) = dst /\ Length(db, v) \in Nat
          /\ \A i \in WalkLengths(db, n, dst) : i \in Nat /\ Length(db, v) < i
  BY <1>1, <1>2, HopIsNearer
<1>5. Length(db, v) \in WalkLengths(db, hop, dst)
  BY <1>4 DEF WalkLengths
<1>6. dst \in Node
  BY <1>1, <1>3, WalksEnd
<1> DEFINE NearerThan(m) == {k \in DOMAIN db : Nearer(db, dst, k, m)}
<1>7. hop \in NearerThan(n) /\ hop \notin NearerThan(hop)
  <2>1. Nearer(db, dst, hop, n)
    BY <1>4, <1>5 DEF Nearer
  <2>2. ~Nearer(db, dst, hop, hop)
    BY WalkLengthsAreNat DEF Nearer
  <2> QED  BY <1>3, <2>1, <2>2
<1>8. NearerThan(hop) \subseteq NearerThan(n)
  <2> SUFFICES ASSUME NEW k \in DOMAIN db, Nearer(db, dst, k, hop)
               PROVE  Nearer(db, dst, k, n)
    OBVIOUS
  <2>1. PICK i \in WalkLengths(db, k, dst) : \A j \in WalkLengths(db, hop, dst) : i < j
    BY DEF Nearer
  <2>2. i \in Nat /\ i < Length(db, v)
    BY <1>5, <2>1, WalkLengthsAreNat
  <2>3. \A j \in WalkLengths(db, n, dst) : i < j
    BY <1>4, <2>2
  <2> QED  BY <2>1, <2>3 DEF Nearer
<1>9. RankIn(db, hop, dst) < RankIn(db, n, dst)
  <2> HIDE DEF hop
  <2>1. IsFiniteSet(NearerThan(n))
    BY FS_Subset
  <2>2. /\ Cardinality(NearerThan(hop)) < Cardinality(NearerThan(n))
    <3> HIDE DEF NearerThan
    <3>1. NearerThan(hop) # NearerThan(n)
      BY <1>7
    <3> QED  BY <1>8, <2>1, <3>1, FS_Subset, FS_CardinalityType
  <2> QED  BY <2>2 DEF RankIn
<1>10. ASSUME hop # dst, NEW next \in ShortestTables(db, hop)
       PROVE  dst \in DOMAIN next
  <2>1. dst \in {Target(x) : x \in Walks(db, hop)} \ {hop}
    BY <1>4, <1>10
  <2> QED  BY <2>1 DEF ShortestTables
<1> QED  BY <1>1, <1>3, <1>6, <1>9, <1>10
=============================================================================
