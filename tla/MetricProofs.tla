---------------------------- MODULE MetricProofs ----------------------------
(***************************************************************************)
(* The metric of a route, for any numbers of routes and hellos, any round  *)
(* trips and any constants: losses are counted right and never pay, small  *)
(* changes do not add up unnoticed, and the routes get fair shares.        *)
(***************************************************************************)
EXTENDS Metric, SequenceTheorems, WellFoundedInduction, TLAPS

USE IntervalAssumption, GraceAssumption, WindowAssumption, NumberAssumption

-----------------------------------------------------------------------------
(* Arithmetic *)

LEMMA ProductOfNats ==
    ASSUME NEW a \in Nat, NEW b \in Nat
    PROVE  a * b \in Nat
  BY Z3

LEMMA ProductIsMonotonic ==
    ASSUME NEW a \in Nat, NEW b \in Nat, NEW c \in Nat, b <= c
    PROVE  a * b <= a * c
<1>1. a * (c - b) \in Nat
  BY ProductOfNats
<1>2. a * (c - b) = a * c - a * b
  BY Z3
<1>3. a * b \in Nat /\ a * c \in Nat
  BY ProductOfNats
<1> QED  BY <1>1, <1>2, <1>3

\* a \div b is the q for which q * b <= a < (q + 1) * b.
LEMMA Quotient ==
    ASSUME NEW a \in Nat, NEW b \in Nat \ {0}
    PROVE  /\ a \div b \in Nat
           /\ b * (a \div b) <= a
           /\ a < b * (a \div b) + b
  BY Z3

LEMMA QuotientIsLargest ==
    ASSUME NEW a \in Nat, NEW b \in Nat \ {0}, NEW q \in Nat, b * q <= a
    PROVE  q <= a \div b
<1>1. SUFFICES ASSUME a \div b + 1 <= q PROVE FALSE
  BY Quotient
<1>2. b * (a \div b + 1) <= b * q
  BY <1>1, Quotient, ProductIsMonotonic
<1>3. b * (a \div b + 1) = b * (a \div b) + b
  BY Quotient, Z3
<1>4. b * q \in Nat /\ b * (a \div b) \in Nat
  BY ProductOfNats, Quotient
<1> QED  BY <1>2, <1>3, <1>4, Quotient

LEMMA QuotientIsMonotonic ==
    ASSUME NEW a \in Nat, NEW c \in Nat, a <= c, NEW b \in Nat \ {0}
    PROVE  a \div b <= c \div b
<1>1. a \div b \in Nat /\ b * (a \div b) <= a
  BY Quotient
<1>2. b * (a \div b) \in Nat
  BY <1>1, ProductOfNats
<1>3. b * (a \div b) <= c
  BY <1>1, <1>2
<1> QED  BY <1>1, <1>3, QuotientIsLargest

\* The quotient of q * b + r is q.
LEMMA QuotientIs ==
    ASSUME NEW b \in Nat \ {0}, NEW q \in Nat, NEW r \in 0 .. b - 1
    PROVE  (b * q + r) \div b = q
<1>1. b * q \in Nat
  BY ProductOfNats
<1>2. DEFINE a == b * q + r
<1>3. a \in Nat /\ b * q <= a
  BY <1>1
<1>4. q <= a \div b /\ a \div b \in Nat
  BY <1>3, QuotientIsLargest, Quotient
<1>5. SUFFICES ASSUME q + 1 <= a \div b PROVE FALSE
  BY <1>4
<1>6. b * (q + 1) <= b * (a \div b)
  BY <1>4, <1>5, ProductIsMonotonic
<1>7. b * (q + 1) = b * q + b
  BY Z3
<1>8. b * (a \div b) <= a /\ b * (a \div b) \in Nat
  BY <1>3, <1>4, Quotient, ProductOfNats
<1> QED  BY <1>1, <1>6, <1>7, <1>8

LEMMA CubeIsNat ==
    ASSUME NEW n \in Nat
    PROVE  Cube(n) \in Nat /\ (n # 0 => Cube(n) # 0)
<1>1. n * n \in Nat /\ (n # 0 => n * n # 0)
  BY Z3
<1>2. (n * n) * n \in Nat /\ (n # 0 => (n * n) * n # 0)
  <2> DEFINE s == n * n
  <2> HIDE DEF s
  <2>1. s \in Nat /\ (n # 0 => s # 0)
    BY <1>1 DEF s
  <2>2. s * n \in Nat /\ (n # 0 => s * n # 0)
    BY <2>1, Z3
  <2> QED  BY <2>2 DEF s
<1> QED  BY <1>2 DEF Cube

LEMMA CubeIsMonotonic ==
    ASSUME NEW a \in Nat, NEW b \in Nat, a <= b
    PROVE  Cube(a) <= Cube(b)
<1>1. a * a <= a * b /\ a * b \in Nat /\ a * a \in Nat
  BY ProductIsMonotonic, ProductOfNats
<1>2. b * a <= b * b /\ b * b \in Nat /\ b * a = a * b
  BY ProductIsMonotonic, ProductOfNats, Z3
<1>3. a * a <= b * b
  BY <1>1, <1>2
<1>4. (a * a) * a <= (a * a) * b
  BY <1>1, ProductIsMonotonic
<1>5. b * (a * a) <= b * (b * b)
  BY <1>1, <1>2, <1>3, ProductIsMonotonic
<1>6. (a * a) * b = b * (a * a) /\ b * (b * b) = (b * b) * b
  BY Z3
<1>7. (a * a) * a \in Nat /\ (a * a) * b \in Nat /\ (b * b) * b \in Nat
  BY <1>1, <1>2, ProductOfNats
<1> QED  BY <1>4, <1>5, <1>6, <1>7 DEF Cube

-----------------------------------------------------------------------------
(* The least of a set of numbers *)

LessThan == {p \in Nat \X Nat : p[1] < p[2]}

LEMMA LeastIsLeast ==
    ASSUME NEW S, S \subseteq Nat, S # {}
    PROVE  Least(S) \in S /\ \A w \in S : Least(S) <= w
<1>1. IsWellFoundedOn(LessThan, Nat)
  <2>1. LessThan = OpToRel(<, Nat)
    BY Zenon DEF LessThan, OpToRel
  <2> QED  BY <2>1, NatLessThanWellFounded, Zenon
<1>2. PICK x \in S : \A y \in S : ~(<<y, x>> \in LessThan)
  BY <1>1, WFMin
<1>3. \A y \in S : x <= y
  <2>1. ASSUME NEW y \in S, y < x PROVE FALSE
    <3>1. <<y, x>> \in Nat \X Nat /\ <<y, x>>[1] < <<y, x>>[2]
      BY <2>1
    <3>2. <<y, x>> \in LessThan
      BY <3>1, Zenon DEF LessThan
    <3> QED  BY <1>2, <3>2
  <2> QED  BY <2>1
<1> QED  BY <1>3 DEF Least

-----------------------------------------------------------------------------
(* The metric of a route *)

\* A window that is not empty.
Window(m) == m \in Seq(Sample) /\ m # <<>>

LEMMA WindowFacts ==
    ASSUME NEW m, Window(m)
    PROVE  /\ Len(m) \in Nat \ {0}
           /\ \A i \in 1 .. Len(m) : m[i] \in Sample /\ m[i].d \in Nat /\ m[i].age \in Nat /\ m[i].since \in Nat
<1>1. Len(m) \in Nat /\ \A i \in 1 .. Len(m) : m[i] \in Sample
  BY DEF Window
<1>2. Len(m) # 0
  BY EmptySeq DEF Window
<1>3. \A s \in Sample : s.d \in Nat /\ s.age \in Nat /\ s.since \in Nat
  BY DEF Sample
<1> QED  BY <1>1, <1>2, <1>3

LEMMA SumIsNat ==
    ASSUME NEW m, Window(m)
    PROVE  Sum(m) \in Nat
<1>1. \A i \in 1 .. 9 : D(m, i) \in Nat
  BY WindowFacts, SMTT(30) DEF D
<1>2. D(m, 1) \in Nat /\ D(m, 2) \in Nat /\ D(m, 3) \in Nat /\ D(m, 4) \in Nat /\ D(m, 5) \in Nat
      /\ D(m, 6) \in Nat /\ D(m, 7) \in Nat /\ D(m, 8) \in Nat /\ D(m, 9) \in Nat
  BY <1>1
<1> QED  BY <1>2 DEF Sum

LEMMA AverageIsNat ==
    ASSUME NEW m, Window(m)
    PROVE  Average(m) \in Nat
  BY SumIsNat, WindowFacts, Quotient DEF Average

\* At least as many hellos are expected as have come.
LEMMA HelloTimesIsNat ==
    ASSUME NEW m, Window(m)
    PROVE  HelloTimes(m) \in Nat /\ Len(m) <= HelloTimes(m)
<1> DEFINE d == IF m[1].age > Grace THEN m[1].age - Grace ELSE m[1].age
<1>1. d \in Nat /\ Len(m) \in Nat
  BY WindowFacts
<1>2. d \div HelloInterval \in Nat
  BY <1>1, Quotient
<1> QED  BY <1>1, <1>2 DEF HelloTimes

Ratio(m) == (HelloTimes(m) * Unit) \div Len(m)

\* The fixed-point ratio is at least 1.
LEMMA RatioIsNat ==
    ASSUME NEW m, Window(m)
    PROVE  Ratio(m) \in Nat /\ Unit <= Ratio(m)
<1>1. HelloTimes(m) \in Nat /\ Len(m) <= HelloTimes(m) /\ Len(m) \in Nat \ {0}
  BY HelloTimesIsNat, WindowFacts
<1>2. Unit * Len(m) <= Unit * HelloTimes(m) /\ Unit * HelloTimes(m) \in Nat
  BY <1>1, ProductIsMonotonic, ProductOfNats
<1>3. Len(m) * Unit <= HelloTimes(m) * Unit /\ HelloTimes(m) * Unit \in Nat
  BY <1>1, <1>2, Z3
<1> QED  BY <1>1, <1>3, Quotient, QuotientIsLargest DEF Ratio

LEMMA ScaledIsNat ==
    ASSUME NEW m, Window(m)
    PROVE  Scaled(m) \in Nat /\ Scaled(m) = Average(m) * Cube(Ratio(m))
<1>1. Scaled(m) = Average(m) * Cube(Ratio(m))
  BY DEF Scaled, Ratio
<1>2. Average(m) \in Nat /\ Cube(Ratio(m)) \in Nat
  BY AverageIsNat, RatioIsNat, CubeIsNat
<1> QED  BY <1>1, <1>2, ProductOfNats

LEMMA ValueIsNat ==
    ASSUME NEW m \in Seq(Sample)
    PROVE  Value(m) \in Nat
<1>1. CASE m = <<>>
  BY <1>1 DEF Value
<1>2. CASE m # <<>>
  <2>1. Scaled(m) % Word \in Nat
    BY <1>2, ScaledIsNat DEF Window
  <2>2. Cube(Unit) \in Nat \ {0}
    BY CubeIsNat
  <2>3. (Scaled(m) % Word) \div Cube(Unit) \in Nat
    BY <2>1, <2>2, Quotient
  <2> QED  BY <2>3 DEF Value
<1> QED  BY <1>1, <1>2

\* A product that fits is not cut off.
LEMMA ValueOfFitting ==
    ASSUME NEW m, Window(m), Fits(m), ~Silent(m)
    PROVE  Value(m) = Scaled(m) \div Cube(Unit)
<1>1. Scaled(m) \in 0 .. Word - 1
  BY ScaledIsNat DEF Fits
<1>2. Scaled(m) % Word = Scaled(m)
  BY <1>1
<1> QED  BY <1>2 DEF Value, Silent, Window

LEMMA PushIsWindow ==
    ASSUME NEW m \in Seq(Sample), NEW d \in Nat
    PROVE  Window(Push(m, d))
<1> DEFINE new == [d |-> d, age |-> 0, since |-> 0]
           kept == IF Len(m) < AverageWindow THEN m ELSE Tail(m)
<1>1. new \in Sample
  BY DEF Sample
<1>2. kept \in Seq(Sample)
  <2>1. CASE Len(m) < AverageWindow
    BY <2>1
  <2>2. CASE ~(Len(m) < AverageWindow)
    <3>1. m # <<>>
      BY <2>2
    <3> QED  BY <2>2, <3>1
  <2> QED  BY <2>1, <2>2
<1> HIDE DEF new, kept
<1>3. Append(kept, new) \in Seq(Sample) /\ Append(kept, new) # <<>>
  <2>1. Append(kept, new) \in Seq(Sample)
    BY <1>1, <1>2
  <2>2. Len(Append(kept, new)) = Len(kept) + 1 /\ Len(kept) \in Nat
    BY <1>1, <1>2
  <2> QED  BY <2>1, <2>2, EmptySeq
<1> QED  BY <1>3 DEF Push, Window, new, kept

-----------------------------------------------------------------------------
(* Windows in time *)

\* Windows, of one window m: waiting is 1 while the next hello may still come.
Good(m, waiting, ph) ==
    /\ m # <<>>
    /\ \A i \in 1 .. Len(m) :
          /\ m[i].since >= Len(m) - i + waiting
          /\ \E p \in 0 .. Jitter : m[i].age = m[i].since * HelloInterval + ph - p

Waiting(r) == IF r \in owed THEN 1 ELSE 0

LEMMA WindowsAreGood == Windows <=> \A r \in DOMAIN routes : Good(routes[r], Waiting(r), phase)
  BY DEF Windows, Good, Waiting

\* What a tick makes of a window.
Aged(m, sent) ==
    [i \in 1 .. Len(m) |-> Older(m[i], sent)]

LEMMA AgedFacts ==
    ASSUME NEW m, Window(m), NEW sent \in BOOLEAN
    PROVE  /\ Window(Aged(m, sent))
           /\ Len(Aged(m, sent)) = Len(m)
           /\ \A i \in 1 .. Len(m) :
                 /\ Aged(m, sent)[i].d = m[i].d
                 /\ Aged(m, sent)[i].age = m[i].age + 1
                 /\ Aged(m, sent)[i].since = IF sent THEN m[i].since + 1 ELSE m[i].since
<1> DEFINE n == Aged(m, sent)
<1>1. Len(m) \in Nat \ {0} /\ \A i \in 1 .. Len(m) : m[i] \in Sample
  BY WindowFacts
<1>2. \A s \in Sample : s.d \in Nat /\ s.age \in Nat /\ s.since \in Nat
  BY DEF Sample
<1>3. \A i \in 1 .. Len(m) :
         /\ n[i].d = m[i].d /\ n[i].age = m[i].age + 1
         /\ n[i].since = IF sent THEN m[i].since + 1 ELSE m[i].since
  BY DEF Aged, Older
<1>4. \A i \in 1 .. Len(m) : n[i] \in Sample
  BY <1>1, <1>2, SMTT(30) DEF Aged, Older, Sample
<1>5. n \in [1 .. Len(m) -> Sample]
  BY <1>4 DEF Aged
<1> HIDE DEF n
<1>6. n \in Seq(Sample) /\ Len(n) = Len(m)
  BY <1>1, <1>5
<1>7. n # <<>>
  BY <1>1, <1>6, EmptySeq
<1> QED  BY <1>3, <1>6, <1>7 DEF n, Window

LEMMA TickKeepsGood ==
    ASSUME NEW m, Window(m), NEW w \in 0 .. 1, NEW ph \in 0 .. HelloInterval - 1, Good(m, w, ph),
           NEW v \in 0 .. 1, ph + 1 # HelloInterval => v <= w
    PROVE  Good(Aged(m, ph + 1 = HelloInterval), v, (ph + 1) % HelloInterval)
<1> DEFINE sent == ph + 1 = HelloInterval
           n == Aged(m, sent)
           next == (ph + 1) % HelloInterval
<1>0. next = IF sent THEN 0 ELSE ph + 1
  OBVIOUS
<1>1. /\ Window(n) /\ Len(n) = Len(m)
      /\ \A i \in 1 .. Len(m) : /\ n[i].age = m[i].age + 1
                                /\ n[i].since = IF sent THEN m[i].since + 1 ELSE m[i].since
  BY AgedFacts
<1>2. Len(m) \in Nat \ {0} /\ \A i \in 1 .. Len(m) : m[i].age \in Nat /\ m[i].since \in Nat
  BY WindowFacts
<1> HIDE DEF n
<1>3. ASSUME NEW i \in 1 .. Len(m)
      PROVE  /\ n[i].since >= Len(m) - i + v
             /\ \E p \in 0 .. Jitter : n[i].age = n[i].since * HelloInterval + next - p
  <2>1. m[i].since >= Len(m) - i + w
    BY <1>3 DEF Good
  <2>2. PICK p \in 0 .. Jitter : m[i].age = m[i].since * HelloInterval + ph - p
    BY <1>3 DEF Good
  <2>3. m[i].since * HelloInterval \in Nat
    BY <1>2, <1>3, ProductOfNats
  <2>4. (m[i].since + 1) * HelloInterval = m[i].since * HelloInterval + HelloInterval
    BY <1>2, <1>3, Z3T(30)
  <2>5. n[i].since >= Len(m) - i + v
    <3>1. n[i].since = IF sent THEN m[i].since + 1 ELSE m[i].since
      BY <1>1, <1>3
    <3>2. m[i].since \in Nat /\ Len(m) \in Nat /\ i \in Int
      BY <1>2, <1>3, SMTT(30)
    <3>3. sent \/ v <= w
      OBVIOUS
    <3>4. CASE sent
      <4>1. n[i].since = m[i].since + 1
        BY <3>1, <3>4
      <4>2. \A a, l, x \in Int : a >= l - x + w => a + 1 >= l - x + v
        OBVIOUS
      <4> QED  BY ONLY <2>1, <3>2, <4>1, <4>2
    <3>5. CASE ~sent
      <4>1. n[i].since = m[i].since /\ v <= w
        BY <3>1, <3>3, <3>5
      <4>2. \A a, l, x \in Int : a >= l - x + w => a >= l - x + v
        BY <4>1
      <4> QED  BY ONLY <2>1, <3>2, <4>1, <4>2
    <3> QED  BY <3>4, <3>5
  <2>6. n[i].age = n[i].since * HelloInterval + next - p
    <3> DEFINE h == m[i].since * HelloInterval
               k == n[i].since * HelloInterval
    <3> SUFFICES n[i].age = k + next - p
      OBVIOUS
    <3>0. /\ m[i].age = h + ph - p /\ h \in Nat /\ p \in Int
          /\ (m[i].since + 1) * HelloInterval = h + HelloInterval
          /\ n[i].age = m[i].age + 1
      <4>1. p \in Int
        OBVIOUS
      <4>2. n[i].age = m[i].age + 1
        BY <1>1, <1>3
      <4> QED  BY ONLY <2>2, <2>3, <2>4, <4>1, <4>2
    <3>1. CASE sent
      <4>1. k = h + HelloInterval
        BY <1>1, <1>3, <2>4, <3>1
      <4>2. next = 0 /\ ph + 1 = HelloInterval
        BY <1>0, <3>1
      <4> HIDE DEF next, h, k, sent
      <4> QED  BY <3>0, <4>1, <4>2
    <3>2. CASE ~sent
      <4>1. k = h
        BY <1>1, <1>3, <3>2
      <4>2. next = ph + 1
        BY <1>0, <3>2
      <4>3. \A x \in Int : x + ph - p + 1 = x + (ph + 1) - p
        OBVIOUS
      <4> HIDE DEF next, h, k
      <4> QED  BY ONLY <3>0, <4>1, <4>2, <4>3
    <3> QED  BY <3>1, <3>2
  <2> QED  BY <2>5, <2>6
<1> HIDE DEF next
<1>4. n # <<>>
  BY <1>1 DEF Window
<1>5. Good(n, v, next)
  BY <1>1, <1>3, <1>4 DEF Good
<1> QED  BY <1>5 DEF n, next

LEMMA PushKeepsGood ==
    ASSUME NEW m \in Seq(Sample), NEW d \in Nat, NEW ph \in 0 .. Jitter,
           m = <<>> \/ Good(m, 1, ph)
    PROVE  Good(Push(m, d), 0, ph)
<1> DEFINE new == [d |-> d, age |-> 0, since |-> 0]
           n == Push(m, d)
           l == Len(m)
<1>0. l \in Nat /\ (m = <<>> => l = 0)
  OBVIOUS
<1>1. Window(n)
  BY PushIsWindow
<1>2. 0 = 0 * HelloInterval + ph - ph
  OBVIOUS
<1>3. CASE l < AverageWindow
  <2>1. /\ Len(n) = l + 1 /\ n[l + 1] = new
        /\ \A i \in 1 .. l : n[i] = m[i]
    BY <1>3 DEF Push
  <2>2. \A i \in 1 .. l : /\ m[i].since >= l - i + 1
                          /\ \E p \in 0 .. Jitter : m[i].age = m[i].since * HelloInterval + ph - p
    BY <1>0 DEF Good
  <2> HIDE DEF n
  <2>3. \A i \in 1 .. l + 1 : i \in 1 .. l \/ i = l + 1
    BY <1>0
  <2>4. \A i \in 1 .. l + 1 :
           /\ n[i].since >= l + 1 - i + 0
           /\ \E p \in 0 .. Jitter : n[i].age = n[i].since * HelloInterval + ph - p
    <3>1. ASSUME NEW i \in 1 .. l
          PROVE  /\ n[i].since >= l + 1 - i + 0
                 /\ \E p \in 0 .. Jitter : n[i].age = n[i].since * HelloInterval + ph - p
      <4>1. l + 1 - i + 0 = l - i + 1
        BY <1>0
      <4> QED  BY <2>1, <2>2, <3>1, <4>1
    <3>2. /\ n[l + 1].since >= l + 1 - (l + 1) + 0
          /\ n[l + 1].age = n[l + 1].since * HelloInterval + ph - ph
      BY <1>0, <1>2, <2>1
    <3> QED  BY <2>3, <3>1, <3>2
  <2> QED  BY <1>1, <2>1, <2>4 DEF Good, Window, n
<1>4. CASE ~(l < AverageWindow)
  <2>0. m # <<>> /\ l \in Nat \ {0}
    BY <1>0, <1>4
  <2>1. /\ Len(n) = l /\ n[l] = new
        /\ \A i \in 1 .. l - 1 : n[i] = m[i + 1]
    <3>1. /\ Tail(m) \in Seq(Sample) /\ Len(Tail(m)) = l - 1
          /\ \A i \in 1 .. l - 1 : Tail(m)[i] = m[i + 1]
      BY <2>0
    <3>2. n = Append(Tail(m), new)
      BY <1>4 DEF Push
    <3> HIDE DEF new
    <3> QED  BY <2>0, <3>1, <3>2
  <2>2. \A i \in 1 .. l : /\ m[i].since >= l - i + 1
                          /\ \E p \in 0 .. Jitter : m[i].age = m[i].since * HelloInterval + ph - p
    BY <2>0 DEF Good
  <2> HIDE DEF n
  <2>3. \A i \in 1 .. l : i \in 1 .. l - 1 \/ i = l
    BY <2>0
  <2>4. \A i \in 1 .. l :
           /\ n[i].since >= l - i + 0
           /\ \E p \in 0 .. Jitter : n[i].age = n[i].since * HelloInterval + ph - p
    <3>1. ASSUME NEW i \in 1 .. l - 1
          PROVE  /\ n[i].since >= l - i + 0
                 /\ \E p \in 0 .. Jitter : n[i].age = n[i].since * HelloInterval + ph - p
      <4>1. l - i + 0 = l - (i + 1) + 1 /\ i + 1 \in 1 .. l
        BY <2>0
      <4> QED  BY <2>1, <2>2, <3>1, <4>1
    <3>2. /\ n[l].since >= l - l + 0
          /\ n[l].age = n[l].since * HelloInterval + ph - ph
      BY <2>0, <1>2, <2>1
    <3> QED  BY <2>3, <3>1, <3>2
  <2> QED  BY <1>1, <2>1, <2>4 DEF Good, Window, n
<1> QED  BY <1>3, <1>4

-----------------------------------------------------------------------------
(* What losses cost *)

\* The hellos charged are those lost, but for the last one, for the second of grace
\* and the delay of a hello together are shorter than the interval between two.
LEMMA Charged ==
    ASSUME NEW m, Window(m), NEW w \in 0 .. 1, NEW ph \in 0 .. HelloInterval - 1, Good(m, w, ph),
           w = 1 => ph <= Jitter
    PROVE  /\ m[1].since - Len(m) - w <= HelloTimes(m) - Len(m)
           /\ HelloTimes(m) - Len(m) <= m[1].since + 1 - Len(m) - w
<1> DEFINE l == Len(m)
           s == m[1].since
           a == m[1].age
           d == IF a > Grace THEN a - Grace ELSE a
           expected == d \div HelloInterval + 1
           h == HelloInterval * s
<1>1. l \in Nat \ {0} /\ s \in Nat /\ a \in Nat
  BY WindowFacts
<1>0. 1 \in 1 .. Len(m)
  BY <1>1
<1>2. PICK p \in 0 .. Jitter : a = s * HelloInterval + ph - p
  BY <1>0 DEF Good
<1>3. s >= l - 1 + w
  BY <1>1 DEF Good
<1>4. HelloTimes(m) = IF expected < l THEN l ELSE expected
  BY DEF HelloTimes
<1>5. h \in Nat /\ a = h + ph - p
  <2>1. h \in Nat /\ s * HelloInterval = h
    BY <1>1, ProductOfNats, Z3T(30)
  <2> QED  BY <1>2, <2>1
<1>6. (s # 0 => h >= HelloInterval) /\ (s = 0 => h = 0)
  <2>1. CASE s # 0
    <3>1. 1 <= s
      BY <1>1, <2>1, SMTT(30)
    <3>2. HelloInterval * 1 <= HelloInterval * s
      BY <1>1, <3>1, ProductIsMonotonic
    <3> QED  BY <2>1, <3>2
  <2> QED  BY <2>1
<1>7. s >= 2 => h >= 2 * HelloInterval
  <2>1. s >= 2 => HelloInterval * 2 <= HelloInterval * s
    BY <1>1, ProductIsMonotonic
  <2> QED  BY <2>1
<1>8. SUFFICES s - l - w <= HelloTimes(m) - l /\ HelloTimes(m) - l <= s + 1 - l - w
  OBVIOUS
<1> HIDE DEF l, s, a, h
<1>9. CASE a <= Grace
  <2>1. expected = 1
    <3>1. (HelloInterval * 0 + a) \div HelloInterval = 0
      BY <1>1, <1>9, QuotientIs
    <3> QED  BY <1>1, <1>9, <3>1
  <2>2. s <= 1
    BY <1>1, <1>5, <1>7, <1>9
  <2> HIDE DEF expected
  <2> QED  BY <1>1, <1>3, <1>4, <2>1, <2>2
<1>10. CASE a > Grace /\ s = 0
  <2>1. a - Grace \in 0 .. HelloInterval - 1 /\ d = a - Grace
    BY <1>1, <1>5, <1>6, <1>10
  <2>2. expected = 1
    <3>1. (HelloInterval * 0 + (a - Grace)) \div HelloInterval = 0
      BY <2>1, QuotientIs
    <3> QED  BY <2>1, <3>1
  <2> HIDE DEF expected
  <2> QED  BY <1>1, <1>3, <1>4, <1>10, <2>2
<1>11. CASE a > Grace /\ s # 0 /\ ph >= p + Grace
  <2>1. ph - p - Grace \in 0 .. HelloInterval - 1
    BY <1>11
  <2>2. d = HelloInterval * s + (ph - p - Grace)
    BY <1>5, <1>11 DEF h
  <2>3. d \div HelloInterval = s
    BY <1>1, <2>1, <2>2, QuotientIs
  <2>4. w = 0
    BY <1>11
  <2> HIDE DEF d
  <2>5. expected = s + 1
    BY <2>3
  <2> HIDE DEF expected
  <2> QED  BY <1>1, <1>3, <1>4, <2>4, <2>5
<1>12. CASE a > Grace /\ s # 0 /\ ph < p + Grace
  <2> DEFINE rest == HelloInterval + ph - p - Grace
  <2>1. rest \in 0 .. HelloInterval - 1
    BY <1>12
  <2>2. d = HelloInterval * (s - 1) + rest
    <3>1. HelloInterval * (s - 1) = h - HelloInterval
      BY <1>1, Z3 DEF h
    <3> QED  BY <1>5, <1>12, <3>1
  <2>3. d \div HelloInterval = s - 1
    <3>1. s - 1 \in Nat
      BY <1>1, <1>12
    <3> HIDE DEF rest
    <3> QED  BY <2>1, <2>2, <3>1, QuotientIs
  <2> HIDE DEF d
  <2>4. expected = s
    BY <1>1, <2>3
  <2> HIDE DEF expected
  <2> QED  BY <1>1, <1>3, <1>4, <2>4
<1> QED  BY <1>1, <1>9, <1>10, <1>11, <1>12

\* A window all of whose hellos have come costs its average.
LEMMA FullWindowCostsAverage ==
    ASSUME NEW m, Window(m), HelloTimes(m) = Len(m), Fits(m), ~Silent(m)
    PROVE  Value(m) = Average(m)
<1> DEFINE a == Average(m)
           c == Cube(Unit)
<1>1. Len(m) \in Nat \ {0} /\ a \in Nat
  BY WindowFacts, AverageIsNat
<1>2. Ratio(m) = Unit
  <2>1. (Len(m) * Unit + 0) \div Len(m) = Unit
    BY <1>1, QuotientIs
  <2>2. Len(m) * Unit + 0 = HelloTimes(m) * Unit
    BY <1>1, ProductOfNats
  <2> QED  BY <2>1, <2>2 DEF Ratio
<1>3. Scaled(m) = a * c
  BY <1>2, ScaledIsNat
<1>4. c \in Nat \ {0}
  BY CubeIsNat
<1>5. Value(m) = (a * c) \div c
  BY <1>3, ValueOfFitting
<1> HIDE DEF a, c
<1>6. (c * a + 0) \div c = a
  BY <1>1, <1>4, QuotientIs
<1>7. a * c = c * a + 0
  BY <1>1, <1>4, ProductOfNats, Z3
<1> QED  BY <1>5, <1>6, <1>7 DEF a

\* The longer the first of the window ago, the more hellos are expected.
LEMMA HelloTimesGrow ==
    ASSUME NEW m, Window(m), NEW n, Window(n), Len(n) = Len(m), n[1].age = m[1].age + 1
    PROVE  HelloTimes(m) <= HelloTimes(n)
<1> DEFINE a == m[1].age
           d == IF a > Grace THEN a - Grace ELSE a
           e == IF a + 1 > Grace THEN a + 1 - Grace ELSE a + 1
<1>1. a \in Nat /\ Len(m) \in Nat
  BY WindowFacts
<1> HIDE DEF a
<1>2. d \in Nat /\ e \in Nat
  BY <1>1, SMTT(30)
<1>3. d \div HelloInterval <= e \div HelloInterval
  <2>1. CASE d <= e
    <3> HIDE DEF d, e
    <3> QED  BY <1>2, <2>1, QuotientIsMonotonic
  <2>2. CASE a = Grace
    <3>1. d \in 0 .. HelloInterval - 1
      BY <1>1, <2>2
    <3> HIDE DEF d, e
    <3>2. (HelloInterval * 0 + d) \div HelloInterval = 0
      BY <3>1, QuotientIs
    <3>3. e \div HelloInterval \in Nat
      BY <1>2, Quotient
    <3> QED  BY <1>2, <3>1, <3>2, <3>3
  <2> QED  BY <1>1, <2>1, <2>2, SMTT(30)
<1>4. d \div HelloInterval \in Nat /\ e \div HelloInterval \in Nat
  <2> HIDE DEF d, e
  <2> QED  BY <1>2, Quotient
<1>5. /\ HelloTimes(m) = IF d \div HelloInterval + 1 < Len(m) THEN Len(m) ELSE d \div HelloInterval + 1
      /\ HelloTimes(n) = IF e \div HelloInterval + 1 < Len(m) THEN Len(m) ELSE e \div HelloInterval + 1
  <2>1. n[1].age = a + 1 /\ m[1].age = a
    BY DEF a
  <2>2. HelloTimes(m) = IF d \div HelloInterval + 1 < Len(m) THEN Len(m) ELSE d \div HelloInterval + 1
    BY <2>1, Zenon DEF HelloTimes
  <2>3. HelloTimes(n) = IF e \div HelloInterval + 1 < Len(m) THEN Len(m) ELSE e \div HelloInterval + 1
    <3>1. HelloTimes(n) = IF e \div HelloInterval + 1 < Len(n) THEN Len(n) ELSE e \div HelloInterval + 1
      <4> DEFINE f == IF n[1].age > Grace THEN n[1].age - Grace ELSE n[1].age
      <4>1. HelloTimes(n) = IF f \div HelloInterval + 1 < Len(n) THEN Len(n) ELSE f \div HelloInterval + 1
        BY Zenon DEF HelloTimes
      <4>2. f = e
        BY <1>1, <2>1
      <4> HIDE DEF e, f
      <4> QED  BY <4>1, <4>2
    <3> QED  BY <3>1
  <2> QED  BY <2>2, <2>3
<1> HIDE DEF d, e
<1> QED  BY <1>1, <1>3, <1>4, <1>5

\* Hence a route gets no cheaper while no hellos come.
LEMMA ValueGrows ==
    ASSUME NEW m, Window(m), NEW n, Window(n), Len(n) = Len(m), n[1].age = m[1].age + 1,
           \A i \in 1 .. Len(m) : n[i].d = m[i].d,
           ~Silent(m), ~Silent(n), Fits(n)
    PROVE  Average(m) <= Value(m) /\ Value(m) <= Value(n)
<1> DEFINE a == Average(m)
           l == Len(m)
           c == Cube(Unit)
           x == Cube(Ratio(m))
           y == Cube(Ratio(n))
<1>1. Average(n) = a
  <2>1. \A i \in 1 .. 9 : D(n, i) = D(m, i)
    BY WindowFacts DEF D
  <2>2. Sum(n) = Sum(m)
    BY <2>1 DEF Sum
  <2> QED  BY <2>2 DEF Average
<1>2. Ratio(m) <= Ratio(n)
  <2>1. HelloTimes(m) <= HelloTimes(n) /\ HelloTimes(m) \in Nat /\ HelloTimes(n) \in Nat
    BY HelloTimesGrow, HelloTimesIsNat
  <2>2. Unit * HelloTimes(m) <= Unit * HelloTimes(n)
    BY <2>1, ProductIsMonotonic
  <2>3. /\ HelloTimes(m) * Unit <= HelloTimes(n) * Unit
        /\ HelloTimes(m) * Unit \in Nat /\ HelloTimes(n) * Unit \in Nat
    BY <2>1, <2>2, ProductOfNats, Z3
  <2>4. Len(m) \in Nat \ {0}
    BY WindowFacts
  <2> QED  BY <2>3, <2>4, QuotientIsMonotonic DEF Ratio
<1>3. /\ a \in Nat /\ c \in Nat \ {0} /\ x \in Nat /\ y \in Nat
      /\ c <= x /\ x <= y
  BY <1>2, AverageIsNat, RatioIsNat, CubeIsNat, CubeIsMonotonic
<1>4. Scaled(m) = a * x /\ Scaled(n) = a * y
  BY <1>1, ScaledIsNat
<1> HIDE DEF a, c, x, y
<1>5. a * c <= a * x /\ a * x <= a * y /\ a * c \in Nat /\ a * x \in Nat /\ a * y \in Nat
  BY <1>3, ProductIsMonotonic, ProductOfNats
<1>6. Fits(m)
  BY <1>4, <1>5 DEF Fits
<1>7. Value(m) = (a * x) \div c /\ Value(n) = (a * y) \div c
  BY <1>4, <1>6, ValueOfFitting DEF c
<1>8. a <= (a * x) \div c
  <2>1. c * a <= a * x
    BY <1>3, <1>5, Z3
  <2> QED  BY <1>3, <1>5, <2>1, QuotientIsLargest
<1>9. (a * x) \div c <= (a * y) \div c
  BY <1>3, <1>5, QuotientIsMonotonic
<1> QED  BY <1>7, <1>8, <1>9 DEF a

-----------------------------------------------------------------------------
(* The adjacent and its routes *)

RoutesOK(rs) == DOMAIN rs \subseteq Route /\ rs \in [DOMAIN rs -> Seq(Sample)]

LEMMA KeepFacts ==
    ASSUME NEW rs, RoutesOK(rs), NEW s, s \subseteq DOMAIN rs
    PROVE  RoutesOK(Keep(rs, s)) /\ DOMAIN Keep(rs, s) = s /\ \A r \in s : Keep(rs, s)[r] = rs[r]
  BY DEF Keep, RoutesOK

LEMMA ValuesAreNat ==
    ASSUME NEW rs, RoutesOK(rs), NEW r \in DOMAIN rs
    PROVE  Value(rs[r]) \in Nat
<1>1. rs[r] \in Seq(Sample)
  BY DEF RoutesOK
<1> QED  BY <1>1, ValueIsNat

\* The least metric is that of the routes that are kept.
LEMMA MinOfAlive ==
    ASSUME NEW rs, RoutesOK(rs)
    PROVE  /\ Min(rs) \in Nat
           /\ Min(Keep(rs, Alive(rs))) = Min(rs)
<1> DEFINE alive == Alive(rs)
           values == {MaxMetric} \cup {Value(rs[r]) : r \in alive}
<1>1. alive \subseteq DOMAIN rs
  BY DEF Alive
<1>2. values \subseteq Nat
  <2>1. \A r \in alive : Value(rs[r]) \in Nat
    BY <1>1, ValuesAreNat
  <2> QED  BY <2>1
<1>3. Min(rs) \in Nat
  <2>1. Least(values) \in values
    BY <1>2, LeastIsLeast
  <2> QED  BY <1>2, <2>1 DEF Min
<1>4. Alive(Keep(rs, alive)) = alive
  <2>1. DOMAIN Keep(rs, alive) = alive /\ \A r \in alive : Keep(rs, alive)[r] = rs[r]
    BY <1>1, KeepFacts
  <2>2. \A r \in alive : Value(rs[r]) # MaxMetric
    BY DEF Alive
  <2> HIDE DEF alive
  <2> QED  BY <2>1, <2>2 DEF Alive
<1>5. {Value(Keep(rs, alive)[r]) : r \in alive} = {Value(rs[r]) : r \in alive}
  <2>1. \A r \in alive : Keep(rs, alive)[r] = rs[r]
    BY <1>1, KeepFacts
  <2> QED  BY <2>1
<1> QED  BY <1>3, <1>4, <1>5, Zenon DEF Min

\* A metric does not differ from itself.
LEMMA DiffersFromAnother ==
    ASSUME NEW x \in Nat
    PROVE  ~Differs(x, x)
<1>1. x * UpdateThreshold \in Nat
  BY ProductOfNats
<1>2. Diff(x, x) * 100 = 0
  BY DEF Diff
<1> QED  BY <1>1, <1>2 DEF Differs

-----------------------------------------------------------------------------
(* The heap of a route table *)

HeapOK(h) ==
    /\ DOMAIN h \subseteq Route
    /\ h \in [DOMAIN h -> [metric : Nat, current : Nat, served : Nat]]
    /\ \A r \in DOMAIN h :
          /\ h[r].current = h[r].metric * (h[r].served + 1)
          /\ \A q \in DOMAIN h : h[r].current - h[r].metric <= h[q].current

LEMMA HeapIsOK ==
    HeapOK(heap) <=> /\ DOMAIN heap \subseteq Route
                     /\ heap \in [DOMAIN heap -> [metric : Nat, current : Nat, served : Nat]]
                     /\ Balanced
  BY DEF HeapOK, Balanced

LEMMA EmptyHeapIsOK == HeapOK(None) /\ DOMAIN None = {} /\ RoutesOK(None)
  BY DEF HeapOK, None, RoutesOK

LEMMA GetRoutesIsOK ==
    ASSUME NEW rs, RoutesOK(rs)
    PROVE  HeapOK(GetRoutes(rs))
<1> DEFINE best == Least({Value(rs[r]) : r \in DOMAIN rs})
           cut == {q \in DOMAIN rs : Value(rs[q]) <= (best * 1425) \div 1024}
           h == [r \in cut |-> [metric |-> Value(rs[r]), current |-> Value(rs[r]), served |-> 0]]
<1>1. h = GetRoutes(rs)
  BY Zenon DEF GetRoutes
<1>2. cut \subseteq DOMAIN rs /\ DOMAIN h = cut
  OBVIOUS
<1>3. \A r \in cut : Value(rs[r]) \in Nat
  BY <1>2, ValuesAreNat
<1>4. \A r \in cut : /\ h[r].metric = Value(rs[r])
                     /\ h[r].current = Value(rs[r])
                     /\ h[r].served = 0
                     /\ h[r] \in [metric : Nat, current : Nat, served : Nat]
  <2> HIDE DEF cut
  <2> QED  BY <1>3
<1>5. h \in [cut -> [metric : Nat, current : Nat, served : Nat]]
  <2> HIDE DEF cut
  <2> QED  BY <1>4
<1> HIDE DEF cut, h
<1>6. \A r \in cut : /\ h[r].current = h[r].metric * (h[r].served + 1)
                     /\ \A q \in cut : h[r].current - h[r].metric <= h[q].current
  <2>1. \A v \in Nat : v = v * (0 + 1) /\ v - v = 0
    OBVIOUS
  <2> QED  BY <1>3, <1>4, <2>1
<1> QED  BY <1>1, <1>2, <1>5, <1>6 DEF HeapOK, RoutesOK

\* The route at the top of the heap is one packet ahead afterwards.
LEMMA ServedIsOK ==
    ASSUME HeapOK(heap), NEW r \in DOMAIN heap, GetAdja(r)
    PROVE  HeapOK(heap')
<1> DEFINE e == Serve(heap[r])
<1>1. \A q \in DOMAIN heap : /\ heap[q] \in [metric : Nat, current : Nat, served : Nat]
                             /\ heap[q].metric \in Nat /\ heap[q].current \in Nat /\ heap[q].served \in Nat
  BY DEF HeapOK
<1>2. /\ DOMAIN heap' = DOMAIN heap
      /\ heap'[r].metric = heap[r].metric
      /\ heap'[r].current = heap[r].current + heap[r].metric
      /\ heap'[r].served = heap[r].served + 1
      /\ heap'[r] \in [metric : Nat, current : Nat, served : Nat]
      /\ \A q \in DOMAIN heap \ {r} : heap'[q] = heap[q]
  <2>1. heap' = [heap EXCEPT ![r] = e]
    BY DEF GetAdja
  <2>2. e \in [metric : Nat, current : Nat, served : Nat]
    BY <1>1 DEF Serve
  <2>3. heap \in [DOMAIN heap -> [metric : Nat, current : Nat, served : Nat]]
    BY DEF HeapOK
  <2>4. e.metric = heap[r].metric /\ e.current = heap[r].current + heap[r].metric /\ e.served = heap[r].served + 1
    BY DEF Serve
  <2> HIDE DEF e
  <2> QED  BY <2>1, <2>2, <2>3, <2>4
<1>3. \A q \in DOMAIN heap : heap[r].current <= heap[q].current
  BY DEF GetAdja
<1>4. \A q \in DOMAIN heap' : heap'[q] \in [metric : Nat, current : Nat, served : Nat]
  BY <1>1, <1>2
<1>5. heap' \in [DOMAIN heap' -> [metric : Nat, current : Nat, served : Nat]]
  BY <1>4 DEF HeapOK, GetAdja
<1>6. ASSUME NEW q \in DOMAIN heap
      PROVE  /\ heap'[q].current = heap'[q].metric * (heap'[q].served + 1)
             /\ \A p \in DOMAIN heap : heap'[q].current - heap'[q].metric <= heap'[p].current
  <2>1. heap[q].current = heap[q].metric * (heap[q].served + 1)
    BY DEF HeapOK
  <2>2. \A p \in DOMAIN heap : heap[q].current - heap[q].metric <= heap[p].current
    BY DEF HeapOK
  <2>3. \A p \in DOMAIN heap : heap[p].current <= heap'[p].current /\ heap'[p].current \in Nat
    BY <1>1, <1>2
  <2>4. CASE q = r
    <3>1. heap[r].metric * (heap[r].served + 1 + 1) = heap[r].metric * (heap[r].served + 1) + heap[r].metric
      BY <1>1, Z3
    <3>2. heap'[r].current - heap'[r].metric = heap[r].current
      BY <1>1, <1>2
    <3>3. heap'[r].current = heap'[r].metric * (heap'[r].served + 1)
      BY <1>2, <2>1, <2>4, <3>1
    <3>4. \A p \in DOMAIN heap : heap[r].current <= heap'[p].current
      BY <1>1, <1>3, <2>3
    <3> QED  BY <2>4, <3>2, <3>3, <3>4
  <2>5. CASE q # r
    <3>1. heap'[q] = heap[q]
      BY <1>2, <2>5
    <3>2. heap[q].current - heap[q].metric \in Int
      BY <1>1
    <3> QED  BY <1>1, <2>1, <2>2, <2>3, <3>1, <3>2
  <2> QED  BY <2>4, <2>5
<1>7. DOMAIN heap \subseteq Route
  BY DEF HeapOK
<1> QED  BY <1>2, <1>5, <1>6, <1>7 DEF HeapOK

-----------------------------------------------------------------------------
(* The inductive invariant *)

Typed ==
    /\ phase \in 0 .. HelloInterval - 1
    /\ owed \subseteq Route
    /\ RoutesOK(routes)
    /\ metric \in Nat /\ published \in Nat
    /\ pendingFlood \in BOOLEAN /\ checked \in BOOLEAN

Timely == owed # {} => phase <= Jitter

LEMMA IInvIs ==
    IInv <=> Typed /\ HeapOK(heap) /\ Timely /\ Windows /\ Known
  BY HeapIsOK DEF IInv, TypeOK, Typed, Timely, RoutesOK

LEMMA MetricIsKnown ==
    ASSUME NEW rs, RoutesOK(rs), NEW old \in Nat, UpdateMetric(old, rs),
           pendingFlood \in BOOLEAN, published' = published,
           ~pendingFlood => published = old,
           DOMAIN routes' # {}
    PROVE  Known' /\ metric' \in Nat /\ pendingFlood' \in BOOLEAN /\ checked' \in BOOLEAN
<1> DEFINE min == Min(rs)
<1>1. min \in Nat /\ Min(routes') = min
  BY MinOfAlive DEF UpdateMetric
<1>2. /\ metric' = IF Differs(old, min) THEN min ELSE old
      /\ pendingFlood' = (pendingFlood \/ Differs(old, min))
      /\ checked' = TRUE
  BY DEF UpdateMetric
<1> HIDE DEF min
<1>3. ~Differs(min, min)
  BY <1>1, DiffersFromAnother
<1>4. ~Differs(metric', min)
  BY <1>2, <1>3
<1>5. ~pendingFlood' => published' = metric'
  BY <1>2
<1>6. Differs(old, min) \in BOOLEAN
  BY DEF Differs
<1>7. metric' \in Nat /\ pendingFlood' \in BOOLEAN /\ checked' \in BOOLEAN
  BY <1>1, <1>2, <1>6
<1>8. (checked /\ DOMAIN routes # {} => ~Differs(metric, Min(routes)))'
  BY <1>1, <1>4
<1> QED  BY <1>5, <1>7, <1>8 DEF Known

LEMMA RouteTableIsOK ==
    ASSUME RoutesOK(routes'), UpdateRouteTable
    PROVE  HeapOK(heap')
<1>1. CASE DOMAIN routes' = {}
  BY <1>1, EmptyHeapIsOK DEF UpdateRouteTable
<1>2. CASE DOMAIN routes' # {}
  BY <1>2, GetRoutesIsOK DEF UpdateRouteTable
<1> QED  BY <1>1, <1>2

LEMMA WindowsWithout ==
    ASSUME Windows, RoutesOK(routes), NEW s, s \subseteq DOMAIN routes,
           routes' = Keep(routes, s), owed' = owed, phase' = phase
    PROVE  RoutesOK(routes') /\ Windows'
<1>1. RoutesOK(routes') /\ DOMAIN routes' = s /\ \A r \in s : routes'[r] = routes[r]
  BY KeepFacts
<1>2. \A r \in DOMAIN routes : Good(routes[r], Waiting(r), phase)
  BY WindowsAreGood
<1>3. \A r : Waiting(r)' = Waiting(r)
  BY DEF Waiting
<1>4. \A r \in DOMAIN routes' : Good(routes[r], Waiting(r), phase)'
  BY <1>1, <1>2, <1>3, SMTT(30) DEF Good
<1>5. (Windows <=> \A r \in DOMAIN routes : Good(routes[r], Waiting(r), phase))'
  BY DEF Windows, Good, Waiting
<1> QED  BY <1>1, <1>4, <1>5

LEMMA TickKeepsIInv ==
    ASSUME IInv, Tick
    PROVE  IInv'
<1> DEFINE sent == phase + 1 = HelloInterval
<1>1. Typed /\ HeapOK(heap) /\ Timely /\ Windows /\ Known
  BY IInvIs
<1>2. /\ phase' = (phase + 1) % HelloInterval
      /\ owed' = IF sent THEN Route ELSE IF phase + 1 > Jitter THEN {} ELSE owed
      /\ routes' = [r \in DOMAIN routes |-> Aged(routes[r], sent)]
      /\ checked' = FALSE
      /\ UNCHANGED <<metric, pendingFlood, published, heap>>
  BY DEF Tick, Aged
<1>3. phase \in 0 .. HelloInterval - 1
  BY <1>1 DEF Typed
<1>4. phase' = IF sent THEN 0 ELSE phase + 1
  BY <1>2, <1>3
<1>5. \A r \in DOMAIN routes : Window(routes[r]) /\ Good(routes[r], Waiting(r), phase)
  BY <1>1, WindowsAreGood DEF Window, Typed, RoutesOK, Good
<1>6. DOMAIN routes' = DOMAIN routes
  BY <1>2
<1>7. ASSUME NEW r \in DOMAIN routes
      PROVE  routes'[r] \in Seq(Sample) /\ Good(routes'[r], Waiting(r)', phase')
  <2>1. routes'[r] = Aged(routes[r], sent)
    BY <1>2
  <2>2. Waiting(r) \in 0 .. 1 /\ Waiting(r)' \in 0 .. 1
    BY DEF Waiting
  <2>3. ~sent => Waiting(r)' <= Waiting(r)
    BY <1>2 DEF Waiting
  <2>4. Good(Aged(routes[r], sent), Waiting(r)', (phase + 1) % HelloInterval)
    BY <1>3, <1>5, <2>2, <2>3, TickKeepsGood
  <2>5. Aged(routes[r], sent) \in Seq(Sample)
    BY <1>5, AgedFacts DEF Window
  <2> QED  BY <1>2, <2>1, <2>4, <2>5
<1>8. RoutesOK(routes')
  BY <1>1, <1>2, <1>6, <1>7 DEF Typed, RoutesOK
<1>9. Windows'
  <2>1. \A r \in DOMAIN routes' : Good(routes[r], Waiting(r), phase)'
    BY <1>6, <1>7 DEF Good
  <2>2. (Windows <=> \A r \in DOMAIN routes : Good(routes[r], Waiting(r), phase))'
    BY DEF Windows, Good, Waiting
  <2> QED  BY <2>1, <2>2
<1>10. Timely'
  BY <1>1, <1>2, <1>3, <1>4 DEF Timely
<1>11. Typed'
  <2>1. owed' \subseteq Route
    BY <1>1, <1>2 DEF Typed
  <2>2. phase' \in 0 .. HelloInterval - 1
    BY <1>3, <1>4
  <2>3. /\ metric' \in Nat /\ published' \in Nat
        /\ pendingFlood' \in BOOLEAN /\ checked' \in BOOLEAN
    BY <1>1, <1>2 DEF Typed
  <2> QED  BY <1>8, <2>1, <2>2, <2>3 DEF Typed
<1>12. Known'
  BY <1>1, <1>2, <1>6 DEF Known
<1>13. HeapOK(heap')
  BY <1>1, <1>2
<1>14. (IInv <=> Typed /\ HeapOK(heap) /\ Timely /\ Windows /\ Known)'
  BY IInvIs, PTL
<1> QED  BY <1>9, <1>10, <1>11, <1>12, <1>13, <1>14

LEMMA HandleHelloKeepsIInv ==
    ASSUME IInv, NEW r \in Route, NEW d \in Rtt[r], HandleHello(r, d)
    PROVE  IInv'
<1> DEFINE m == IF r \in DOMAIN routes THEN routes[r] ELSE <<>>
           rs == [q \in DOMAIN routes \cup {r} |-> IF q = r THEN Push(m, d) ELSE routes[q]]
           old == IF DOMAIN routes = {} THEN MaxMetric ELSE metric
<1>1. Typed /\ HeapOK(heap) /\ Timely /\ Windows /\ Known
  BY IInvIs
<1>2. /\ r \in owed /\ owed' = owed \ {r}
      /\ UpdateMetric(old, rs)
      /\ DOMAIN routes' # {}
      /\ UpdateRouteTable
      /\ phase' = phase /\ published' = published
  BY DEF HandleHello
<1>3. /\ phase \in 0 .. Jitter
      /\ d \in Nat
      /\ m \in Seq(Sample)
  BY <1>1, <1>2, SMTT(30) DEF Typed, Timely, RoutesOK
<1>4. \A q \in DOMAIN routes : routes[q] \in Seq(Sample) /\ Good(routes[q], Waiting(q), phase)
  BY <1>1, WindowsAreGood DEF Typed, RoutesOK
<1>5. Push(m, d) \in Seq(Sample) /\ Good(Push(m, d), 0, phase)
  <2>1. m = <<>> \/ Good(m, 1, phase)
    BY <1>2, <1>4 DEF Waiting
  <2> HIDE DEF m
  <2> QED  BY <1>3, <2>1, PushIsWindow, PushKeepsGood DEF Window
<1> HIDE DEF m
<1>6. RoutesOK(rs)
  BY <1>1, <1>4, <1>5 DEF Typed, RoutesOK
<1>7. \A q \in DOMAIN rs : Good(rs[q], Waiting(q)', phase')
  <2>1. Waiting(r)' = 0 /\ \A q \in Route \ {r} : Waiting(q)' = Waiting(q)
    BY <1>2 DEF Waiting
  <2>2. \A q \in DOMAIN routes : q \in Route
    BY <1>1 DEF Typed, RoutesOK
  <2> QED  BY <1>2, <1>4, <1>5, <2>1, <2>2
<1>8. old \in Nat /\ (~pendingFlood => published = old)
  BY <1>1 DEF Typed, Known
<1> HIDE DEF rs, old
<1>9. Alive(rs) \subseteq DOMAIN rs /\ routes' = Keep(rs, Alive(rs))
  BY <1>2 DEF Alive, UpdateMetric
<1>10. /\ RoutesOK(routes')
       /\ DOMAIN routes' = Alive(rs)
       /\ \A q \in Alive(rs) : routes'[q] = rs[q]
  BY <1>6, <1>9, KeepFacts
<1>11. Known' /\ metric' \in Nat /\ pendingFlood' \in BOOLEAN /\ checked' \in BOOLEAN
  BY <1>1, <1>2, <1>6, <1>8, MetricIsKnown DEF Typed
<1>12. Windows'
  <2>1. \A q \in DOMAIN routes' : Good(routes'[q], Waiting(q)', phase')
    BY <1>7, <1>9, <1>10
  <2>2. (Windows <=> \A q \in DOMAIN routes : Good(routes[q], Waiting(q), phase))'
    BY DEF Windows, Good, Waiting
  <2> QED  BY <2>1, <2>2
<1>13. HeapOK(heap')
  BY <1>2, <1>10, RouteTableIsOK
<1>14. Timely' /\ Typed'
  BY <1>1, <1>2, <1>10, <1>11 DEF Timely, Typed
<1>15. (IInv <=> Typed /\ HeapOK(heap) /\ Timely /\ Windows /\ Known)'
  BY IInvIs, PTL
<1> QED  BY <1>11, <1>12, <1>13, <1>14, <1>15

LEMMA CheckAdjaKeepsIInv ==
    ASSUME IInv, CheckAdja
    PROVE  IInv'
<1>1. Typed /\ HeapOK(heap) /\ Timely /\ Windows /\ Known
  BY IInvIs
<1>2. /\ DOMAIN routes # {}
      /\ routes' = Keep(routes, Alive(routes))
      /\ UpdateRouteTable
      /\ phase' = phase /\ owed' = owed /\ published' = published
  BY DEF CheckAdja
<1>3. RoutesOK(routes) /\ Alive(routes) \subseteq DOMAIN routes
  BY <1>1 DEF Typed, Alive
<1>4. RoutesOK(routes') /\ Windows'
  BY <1>1, <1>2, <1>3, WindowsWithout
<1>5. Known' /\ metric' \in Nat /\ pendingFlood' \in BOOLEAN /\ checked' \in BOOLEAN
  <2>1. CASE DOMAIN routes' = {}
    <3>1. pendingFlood' = TRUE /\ metric' = MaxMetric /\ checked' = TRUE
      BY <2>1 DEF CheckAdja
    <3> QED  BY <2>1, <3>1 DEF Known
  <2>2. CASE DOMAIN routes' # {}
    <3>1. UpdateMetric(metric, routes)
      BY <2>2 DEF CheckAdja
    <3> QED  BY <1>1, <1>2, <1>3, <2>2, <3>1, MetricIsKnown DEF Typed, Known
  <2> QED  BY <2>1, <2>2
<1>6. HeapOK(heap')
  BY <1>2, <1>4, RouteTableIsOK
<1>7. Timely' /\ Typed'
  BY <1>1, <1>2, <1>4, <1>5 DEF Timely, Typed
<1>8. (IInv <=> Typed /\ HeapOK(heap) /\ Timely /\ Windows /\ Known)'
  BY IInvIs, PTL
<1> QED  BY <1>4, <1>5, <1>6, <1>7, <1>8

LEMMA RemoveRouteKeepsIInv ==
    ASSUME IInv, NEW r \in Route, RemoveRoute(r)
    PROVE  IInv'
<1>1. Typed /\ HeapOK(heap) /\ Timely /\ Windows /\ Known
  BY IInvIs
<1>2. /\ routes' = Keep(routes, DOMAIN routes \ {r})
      /\ metric' = IF DOMAIN routes' = {} THEN MaxMetric ELSE metric
      /\ pendingFlood' = TRUE /\ checked' = FALSE
      /\ UpdateRouteTable
      /\ phase' = phase /\ owed' = owed /\ published' = published
  BY DEF RemoveRoute
<1>3. RoutesOK(routes)
  BY <1>1 DEF Typed
<1>4. RoutesOK(routes') /\ Windows'
  BY <1>1, <1>2, <1>3, WindowsWithout
<1>5. Known'
  BY <1>2 DEF Known
<1>6. HeapOK(heap')
  BY <1>2, <1>4, RouteTableIsOK
<1>7. Timely' /\ Typed'
  BY <1>1, <1>2, <1>4 DEF Timely, Typed
<1>8. (IInv <=> Typed /\ HeapOK(heap) /\ Timely /\ Windows /\ Known)'
  BY IInvIs, PTL
<1> QED  BY <1>4, <1>5, <1>6, <1>7, <1>8

\* The invariant of the model, for every value of the constants.
THEOREM Invariance == Spec => []IInv
<1>1. Init => IInv
  <2> SUFFICES ASSUME Init PROVE Typed /\ HeapOK(heap) /\ Timely /\ Windows /\ Known
    BY IInvIs
  <2>2. /\ phase = 0 /\ owed = {} /\ routes = None /\ heap = None
        /\ metric = MaxMetric /\ published = MaxMetric
        /\ pendingFlood = FALSE /\ checked = FALSE
    BY DEF Init
  <2>3. HeapOK(heap) /\ RoutesOK(routes) /\ DOMAIN routes = {}
    BY <2>2, EmptyHeapIsOK
  <2>4. Typed
    <3>1. phase \in 0 .. HelloInterval - 1
      BY <2>2
    <3>2. owed \subseteq Route /\ metric \in Nat /\ published \in Nat
          /\ pendingFlood \in BOOLEAN /\ checked \in BOOLEAN
      BY <2>2
    <3> QED  BY <2>3, <3>1, <3>2 DEF Typed
  <2>5. Timely /\ Windows /\ Known
    BY <2>2, <2>3 DEF Timely, Windows, Known
  <2> QED  BY <2>3, <2>4, <2>5
<1>2. IInv /\ [Next]_vars => IInv'
  <2> SUFFICES ASSUME IInv, [Next]_vars PROVE IInv'
    OBVIOUS
  <2>1. CASE Tick
    BY <2>1, TickKeepsIInv
  <2>2. CASE \E r \in Route : RemoveRoute(r)
    BY <2>2, RemoveRouteKeepsIInv
  <2>3. CASE \E r \in Route : GetAdja(r)
    <3>1. PICK r \in Route : GetAdja(r)
      BY <2>3
    <3>2. Typed /\ HeapOK(heap) /\ Timely /\ Windows /\ Known
      BY IInvIs
    <3>3. HeapOK(heap')
      BY <3>1, <3>2, ServedIsOK DEF GetAdja
    <3>4. UNCHANGED <<phase, owed, routes, metric, pendingFlood, published, checked>>
      BY <3>1 DEF GetAdja
    <3>5. Typed' /\ Timely' /\ Windows' /\ Known'
      BY <3>2, <3>4 DEF Typed, Timely, Windows, Known
    <3>6. (IInv <=> Typed /\ HeapOK(heap) /\ Timely /\ Windows /\ Known)'
      BY IInvIs, PTL
    <3> QED  BY <3>3, <3>5, <3>6
  <2>4. CASE \E r \in Route : \E d \in Rtt[r] : HandleHello(r, d)
    BY <2>4, HandleHelloKeepsIInv
  <2>5. CASE CheckAdja
    BY <2>5, CheckAdjaKeepsIInv
  <2>6. CASE FloodLinkState
    <3>1. Typed /\ HeapOK(heap) /\ Timely /\ Windows /\ Known
      BY IInvIs
    <3>2. /\ pendingFlood' = FALSE /\ published' = metric
          /\ UNCHANGED <<phase, owed, routes, metric, checked, heap>>
      BY <2>6 DEF FloodLinkState
    <3>3. Typed' /\ HeapOK(heap') /\ Timely' /\ Windows' /\ Known'
      BY <3>1, <3>2 DEF Typed, Timely, Windows, Known
    <3>4. (IInv <=> Typed /\ HeapOK(heap) /\ Timely /\ Windows /\ Known)'
      BY IInvIs, PTL
    <3> QED  BY <3>3, <3>4
  <2>7. CASE UNCHANGED vars
    <3>1. Typed /\ HeapOK(heap) /\ Timely /\ Windows /\ Known
      BY IInvIs
    <3>2. Typed' /\ HeapOK(heap') /\ Timely' /\ Windows' /\ Known'
      BY <2>7, <3>1 DEF vars, Typed, Timely, Windows, Known
    <3>3. (IInv <=> Typed /\ HeapOK(heap) /\ Timely /\ Windows /\ Known)'
      BY IInvIs, PTL
    <3> QED  BY <3>2, <3>3
  <2> QED  BY <2>1, <2>2, <2>3, <2>4, <2>5, <2>6, <2>7 DEF Next
<1> QED  BY <1>1, <1>2, PTL DEF Spec

-----------------------------------------------------------------------------
(* What follows from it *)

\* The hellos that have been lost are charged, and no others (metric.go:40-48).
THEOREM LossesAreCounted == Spec => []LossIsCounted
<1>1. IInv => LossIsCounted
  <2> SUFFICES ASSUME IInv, NEW r \in DOMAIN routes
               PROVE  /\ Lost(r) - 1 <= HelloTimes(routes[r]) - Len(routes[r])
                      /\ HelloTimes(routes[r]) - Len(routes[r]) <= Lost(r)
    BY DEF LossIsCounted
  <2>1. Typed /\ Timely /\ Windows
    BY IInvIs
  <2>2. Window(routes[r]) /\ Good(routes[r], Waiting(r), phase)
    BY <2>1, WindowsAreGood DEF Window, Typed, RoutesOK, Good
  <2>3. /\ Waiting(r) \in 0 .. 1 /\ phase \in 0 .. HelloInterval - 1
        /\ Waiting(r) = 1 => phase <= Jitter
    BY <2>1 DEF Waiting, Typed, Timely
  <2>4. /\ routes[r][1].since - Len(routes[r]) - Waiting(r) <= HelloTimes(routes[r]) - Len(routes[r])
        /\ HelloTimes(routes[r]) - Len(routes[r]) <= routes[r][1].since + 1 - Len(routes[r]) - Waiting(r)
    BY <2>2, <2>3, Charged
  <2>5. routes[r][1].since \in Nat /\ Len(routes[r]) \in Nat
    BY <2>2, WindowFacts
  <2>6. Lost(r) = routes[r][1].since + 1 - Len(routes[r]) - Waiting(r)
    BY Zenon DEF Lost, Waiting
  <2>7. HelloTimes(routes[r]) \in Nat
    BY <2>2, HelloTimesIsNat
  <2> DEFINE a == routes[r][1].since
             l == Len(routes[r])
             h == HelloTimes(routes[r])
             w == Waiting(r)
             lost == Lost(r)
  <2>8. w \in 0 .. 1 /\ a - l - w <= h - l /\ h - l <= a + 1 - l - w /\ lost = a + 1 - l - w
    BY <2>3, <2>4, <2>6
  <2>9. a \in Nat /\ l \in Nat /\ h \in Nat
    BY <2>5, <2>7
  <2> HIDE DEF a, l, h, w, lost
  <2>10. lost - 1 <= h - l /\ h - l <= lost
    BY <2>8, <2>9
  <2> QED  BY <2>10 DEF lost, h, l
<1> QED  BY <1>1, Invariance, PTL

\* A route by which no hello is lost costs its round-trip time, if the product fits.
THEOREM LosslessRoutes == Spec => []LosslessCostsRtt
<1>1. IInv /\ LossIsCounted => LosslessCostsRtt
  <2> SUFFICES ASSUME IInv, LossIsCounted, NEW r \in DOMAIN routes,
                      Lost(r) = 0, Fits(routes[r]), ~Silent(routes[r])
               PROVE  Value(routes[r]) = Average(routes[r])
    BY DEF LosslessCostsRtt
  <2>1. Window(routes[r])
    BY IInvIs, WindowsAreGood DEF Window, Typed, RoutesOK, Good
  <2>2. HelloTimes(routes[r]) - Len(routes[r]) <= 0
    BY DEF LossIsCounted
  <2>3. HelloTimes(routes[r]) = Len(routes[r])
    BY <2>1, <2>2, HelloTimesIsNat, WindowFacts
  <2> QED  BY <2>1, <2>3, FullWindowCostsAverage
<1> QED  BY <1>1, Invariance, LossesAreCounted, PTL

\* It never pays to lose hellos, as long as the product fits.
THEOREM LossesNeverPay == Spec => LossNeverPays
<1>1. ASSUME IInv, Tick, NEW r \in DOMAIN routes \cap DOMAIN routes',
             ~Silent(routes[r]), ~Silent(routes'[r]), Fits(routes'[r])
      PROVE  Average(routes[r]) <= Value(routes[r]) /\ Value(routes[r]) <= Value(routes'[r])
  <2> DEFINE sent == phase + 1 = HelloInterval
  <2>1. Window(routes[r])
    BY <1>1, IInvIs, WindowsAreGood DEF Window, Typed, RoutesOK, Good
  <2>2. routes'[r] = Aged(routes[r], sent) /\ sent \in BOOLEAN
    BY <1>1 DEF Tick, Aged
  <2> HIDE DEF sent
  <2>3. /\ Window(routes'[r]) /\ Len(routes'[r]) = Len(routes[r])
        /\ \A i \in 1 .. Len(routes[r]) : /\ routes'[r][i].d = routes[r][i].d
                                          /\ routes'[r][i].age = routes[r][i].age + 1
    BY <2>1, <2>2, AgedFacts
  <2>4. routes'[r][1].age = routes[r][1].age + 1
    BY <2>1, <2>3, WindowFacts
  <2> QED  BY <1>1, <2>1, <2>3, <2>4, ValueGrows
<1>2. IInv => [\A r \in DOMAIN routes \cap DOMAIN routes' :
          LET m == routes[r]
              n == routes[r]'
          IN  ~Silent(m) /\ ~Silent(n) /\ Fits(n) /\ Tick =>
                  Average(m) <= Value(m) /\ Value(m) <= Value(n)]_vars
  BY <1>1
<1> QED  BY <1>2, Invariance, PTL DEF LossNeverPays

\* Small changes of a metric do not add up unnoticed.
THEOREM NoCreeping == Spec => []NoCreep
<1>1. IInv => NoCreep
  BY IInvIs DEF Known, NoCreep
<1> QED  BY <1>1, Invariance, PTL

\* The routes to an adjacent get their shares of the packets.
THEOREM SharesAreFair == Spec => []FairShares
<1>1. IInv => FairShares
  <2> SUFFICES ASSUME IInv, NEW r \in DOMAIN heap, NEW q \in DOMAIN heap
               PROVE  heap[r].served * heap[r].metric <= (heap[q].served + 1) * heap[q].metric
    BY DEF FairShares
  <2>1. HeapOK(heap)
    BY IInvIs
  <2>2. /\ heap[r].metric \in Nat /\ heap[r].served \in Nat /\ heap[r].current \in Nat
        /\ heap[q].metric \in Nat /\ heap[q].served \in Nat /\ heap[q].current \in Nat
    BY <2>1 DEF HeapOK
  <2>3. /\ heap[r].current = heap[r].metric * (heap[r].served + 1)
        /\ heap[q].current = heap[q].metric * (heap[q].served + 1)
        /\ heap[r].current - heap[r].metric <= heap[q].current
    BY <2>1 DEF HeapOK
  <2>4. /\ heap[r].metric * (heap[r].served + 1) - heap[r].metric = heap[r].served * heap[r].metric
        /\ heap[q].metric * (heap[q].served + 1) = (heap[q].served + 1) * heap[q].metric
    BY <2>2, Z3
  <2> QED  BY <2>3, <2>4
<1> QED  BY <1>1, Invariance, PTL
=============================================================================
