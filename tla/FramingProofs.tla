--------------------------- MODULE FramingProofs ---------------------------
(***************************************************************************)
(* What is received over a stream is what was sent, for bytes of any       *)
(* number of values, any packets, and any portions the bytes arrive in.    *)
(***************************************************************************)
EXTENDS Framing, SequenceTheorems, TLAPS

-----------------------------------------------------------------------------
(* Separators *)

LEMMA FirstIsSep == IsSep(<<0>>)
  BY ByteAssumption DEF IsSep

\* nextSep makes a separator of a separator: a byte that wraps around becomes 1.
LEMMA NextIsSep ==
    ASSUME NEW s, IsSep(s)
    PROVE  IsSep(NextSep(s))
<1> DEFINE next == [i \in 1 .. Len(s) |->
                       IF ~Carry(s, i) THEN s[i]
                       ELSE IF s[i] = Base - 1 THEN 1 ELSE s[i] + 1]
<1>1. s \in Seq(Byte) /\ Len(s) \in Nat \ {0} /\ s[Len(s)] = 0
  BY DEF IsSep
<1>3. \A i \in 1 .. Len(s) : s[i] \in Byte
  BY <1>1
<1>4. /\ next \in Seq(Byte)
      /\ Len(next) = Len(s)
      /\ \A i \in 1 .. Len(s) - 1 : next[i] # 0
  <2>1. \A i \in 1 .. Len(s) : next[i] \in Byte
    BY <1>3, ByteAssumption
  <2>2. \A i \in 1 .. Len(s) - 1 : next[i] # 0
    BY <1>1, <1>3, ByteAssumption DEF IsSep
  <2>3. next \in [1 .. Len(s) -> Byte]
    BY <2>1
  <2> HIDE DEF next
  <2> QED  BY <1>1, <2>2, <2>3
<1> HIDE DEF next
<1>5. NextSep(s) = IF next[Len(s)] = 0 THEN next ELSE Append(next, 0)
  BY DEF NextSep, next
<1>6. CASE next[Len(s)] = 0
  BY <1>1, <1>4, <1>5, <1>6 DEF IsSep
<1>7. CASE next[Len(s)] # 0
  <2>1. /\ Append(next, 0) \in Seq(Byte)
        /\ Len(Append(next, 0)) = Len(s) + 1
        /\ \A i \in 1 .. Len(s) : Append(next, 0)[i] = next[i]
        /\ Append(next, 0)[Len(s) + 1] = 0
    BY <1>1, <1>4
  <2> QED  BY <1>1, <1>4, <1>5, <1>7, <2>1 DEF IsSep
<1> QED  BY <1>6, <1>7

-----------------------------------------------------------------------------
(* Frames *)

\* What conn.Write writes, byte by byte.
LEMMA FrameBytes ==
    ASSUME NEW s \in Seq(Byte), NEW p \in Seq(Byte), NEW f, f.sep = s, f.packet = p
    PROVE  /\ s \o p \o s \in Seq(Byte)
           /\ Len(s \o p \o s) = FrameLen(f)
           /\ \A k \in 1 .. FrameLen(f) : (s \o p \o s)[k] = FrameByte(f, k)
  BY DEF FrameLen, FrameByte

\* Where the data are those of a frame: a separator s of length L, a packet p of
\* length P, and s again, as far as they go.
Framed(data, N, s, L, p, P) ==
    /\ \A k \in 1 .. N : k <= L => data[k] = s[k]
    /\ \A k \in 1 .. N : k > L /\ k <= L + P => data[k] = p[k - L]
    /\ \A k \in 1 .. N : k > L + P /\ k <= L + P + L => data[k] = s[k - L - P]

\* s, of length L, stands in the data at offset e.
StandsAt(s, L, data, e) == \A j \in 1 .. L : data[e + j] = s[j]

ZeroEnds(s, L) == \A i \in 1 .. L : s[i] = 0 <=> i = L

\* The first 0 of the data ends the separator.
LEMMA FirstZero ==
    ASSUME NEW L \in Nat \ {0}, NEW P \in Nat, NEW N \in Nat, NEW s, NEW p, NEW data,
           ZeroEnds(s, L), Framed(data, N, s, L, p, P),
           NEW b \in 1 .. N, ZeroEnds(data, b)
    PROVE  b = L
<1>1. ~(b < L)
  <2> SUFFICES ASSUME b < L PROVE FALSE
    OBVIOUS
  <2>1. b \in 1 .. L /\ b # L /\ L \in 1 .. L
    OBVIOUS
  <2>2. data[b] = s[b] /\ data[b] = 0
    BY DEF Framed, ZeroEnds
  <2>3. s[b] # 0
    BY <2>1 DEF ZeroEnds
  <2> QED  BY <2>2, <2>3
<1>2. ~(b > L)
  <2> SUFFICES ASSUME b > L PROVE FALSE
    OBVIOUS
  <2>1. data[L] = s[L] /\ s[L] = 0
    BY DEF Framed, ZeroEnds
  <2> QED  BY <2>1 DEF ZeroEnds
<1> QED  BY <1>1, <1>2

\* A separator that does not occur in the packet does not occur before its end
\* either: not across it, because the last byte of that occurrence, 0, would be one
\* of the second separator's that are not 0.
LEMMA NotBefore ==
    ASSUME NEW L \in Nat \ {0}, NEW P \in Nat, NEW N \in Nat, NEW s, NEW p, NEW data,
           ZeroEnds(s, L), Framed(data, N, s, L, p, P),
           NEW e \in Nat, e < P, L + e + L <= N,
           StandsAt(s, L, data, L + e)
    PROVE  e + L <= P /\ StandsAt(s, L, p, e)
<1>1. CASE e + L <= P
  <2>1. ASSUME NEW j \in 1 .. L
        PROVE  p[e + j] = s[j]
    <3>1. /\ L + e + j \in 1 .. N
          /\ L + e + j > L /\ L + e + j <= L + P
          /\ L + e + j - L = e + j
      BY <1>1
    <3>2. data[L + e + j] = p[e + j]
      BY <3>1 DEF Framed
    <3> QED  BY <3>2 DEF StandsAt
  <2> QED  BY <1>1, <2>1 DEF StandsAt
<1>2. CASE e + L > P
  <2> DEFINE i == e + L - P
  <2>1. /\ i \in 1 .. L - 1
        /\ L + e + L \in 1 .. N
        /\ L + e + L > L + P /\ L + e + L <= L + P + L
        /\ L + e + L - L - P = i
    BY <1>2
  <2> HIDE DEF i
  <2>2. data[L + e + L] = s[i]
    <3> DEFINE k == L + e + L
    <3>1. k \in 1 .. N /\ k > L + P /\ k <= L + P + L /\ k - L - P = i
      BY <2>1
    <3> HIDE DEF k
    <3>2. data[k] = s[k - L - P]
      BY <3>1 DEF Framed
    <3> QED  BY <3>1, <3>2 DEF k
  <2>3. data[L + e + L] = s[L]
    BY DEF StandsAt
  <2>4. s[L] = 0 /\ s[i] # 0
    BY <2>1 DEF ZeroEnds
  <2> QED  BY <2>2, <2>3, <2>4
<1> QED  BY <1>1, <1>2

LEMMA AtTheEnd ==
    ASSUME NEW L \in Nat \ {0}, NEW P \in Nat, NEW N \in Nat, NEW s, NEW p, NEW data,
           Framed(data, N, s, L, p, P), L + P + L <= N
    PROVE  StandsAt(s, L, data, L + P)
<1> SUFFICES ASSUME NEW j \in 1 .. L PROVE data[L + P + j] = s[j]
  BY DEF StandsAt
<1>1. /\ L + P + j \in 1 .. N
      /\ L + P + j > L + P /\ L + P + j <= L + P + L
      /\ L + P + j - L - P = j
  OBVIOUS
<1> QED  BY <1>1 DEF Framed

\* split finds the packet of a frame, once all of the frame has arrived.
LEMMA TokenIsFrame ==
    ASSUME NEW f, NEW data \in Seq(Byte),
           IsSep(f.sep), f.packet \in Seq(Byte), ~Occurs(f.sep, f.packet),
           \A k \in 1 .. Len(data) : k <= FrameLen(f) => data[k] = FrameByte(f, k),
           NEW t \in Tokens(data)
    PROVE  /\ t.start = Len(f.sep)
           /\ t.end = Len(f.sep) + Len(f.packet)
           /\ t.end + t.start <= Len(data)
           /\ SubSeq(data, t.start + 1, t.end) = f.packet
<1> DEFINE s == f.sep
           p == f.packet
           L == Len(s)
           P == Len(p)
           N == Len(data)
           b == t.start
           e == t.end
<1>1. /\ b \in 1 .. N /\ e \in 0 .. N
      /\ e >= b
      /\ ZeroEnds(data, b)
      /\ OccursAt(SubSeq(data, 1, b), data, e)
      /\ \A i \in b .. e - 1 : ~OccursAt(SubSeq(data, 1, b), data, i)
  BY DEF Tokens, ZeroEnds
<1>2. /\ s \in Seq(Byte) /\ L \in Nat \ {0}
      /\ p \in Seq(Byte) /\ P \in Nat
      /\ N \in Nat
      /\ ZeroEnds(s, L)
      /\ \A i \in Nat : i <= P => ~OccursAt(s, p, i)
  BY DEF IsSep, ZeroEnds, Occurs
<1>3. Framed(data, N, s, L, p, P)
  <2>1. FrameLen(f) = L + P + L
    BY <1>2 DEF FrameLen
  <2>2. ASSUME NEW k \in 1 .. N, k <= L + P + L
        PROVE  data[k] = IF k <= L THEN s[k] ELSE IF k <= L + P THEN p[k - L] ELSE s[k - L - P]
    BY <2>1, <2>2 DEF FrameByte
  <2> HIDE DEF s, p, L, P, N
  <2> QED  BY <1>2, <2>2 DEF Framed
<1> HIDE DEF s, p, b, e
<1>4. b = L
  BY <1>1, <1>2, <1>3, FirstZero
<1>5. SubSeq(data, 1, b) = s
  <2> DEFINE q == SubSeq(data, 1, b)
  <2>1. /\ q \in Seq(Byte) /\ Len(q) = L
        /\ \A i \in 1 .. L : q[i] = data[i]
    BY <1>1, <1>2, <1>4
  <2>2. \A i \in 1 .. L : data[i] = s[i]
    BY <1>1, <1>2, <1>3, <1>4 DEF Framed
  <2> HIDE DEF q
  <2>3. q = s
    BY <1>2, <2>1, <2>2, SMTT(30)
  <2> QED  BY <2>3 DEF q
<1>6. /\ e + L <= N
      /\ \A j \in 1 .. L : data[e + j] = s[j]
      /\ \A i \in b .. e - 1 : ~OccursAt(s, data, i)
  BY <1>1, <1>2, <1>5 DEF OccursAt
<1> HIDE DEF L, P, N
<1>7. ~(e < L + P)
  <2> SUFFICES ASSUME e < L + P
               PROVE  FALSE
    OBVIOUS
  <2> DEFINE d == e - L
  <2>1. d \in Nat /\ d < P /\ e = L + d
    BY <1>1, <1>2, <1>4
  <2> HIDE DEF d
  <2>2. d + L <= P /\ StandsAt(s, L, p, d)
    <3>1. L + d + L <= N /\ StandsAt(s, L, data, L + d)
      BY <1>2, <1>6, <2>1 DEF StandsAt
    <3>2. L \in Nat \ {0} /\ P \in Nat /\ N \in Nat /\ ZeroEnds(s, L)
      BY <1>2
    <3> QED  BY ONLY <1>3, <2>1, <3>1, <3>2, NotBefore
  <2>3. OccursAt(s, p, d)
    BY <2>2 DEF OccursAt, StandsAt, L, P
  <2> QED  BY <1>2, <2>1, <2>3
<1>8. ~(e > L + P)
  <2> SUFFICES ASSUME e > L + P
               PROVE  FALSE
    OBVIOUS
  <2>1. L + P \in b .. e - 1 /\ L + P + L <= N
    BY <1>1, <1>2, <1>4, <1>6
  <2>2. StandsAt(s, L, data, L + P)
    BY <1>2, <1>3, <2>1, AtTheEnd
  <2>3. OccursAt(s, data, L + P)
    BY <2>1, <2>2 DEF OccursAt, StandsAt, L, N
  <2> QED  BY <1>6, <2>1, <2>3
<1>9. e = L + P
  BY <1>1, <1>2, <1>7, <1>8
<1>10. SubSeq(data, b + 1, e) = p
  <2> DEFINE q == SubSeq(data, b + 1, e)
  <2>1. /\ q \in Seq(Byte) /\ Len(q) = P
        /\ \A i \in 1 .. P : q[i] = data[L + i]
    <3>1. /\ b + 1 \in 1 .. Len(data) + 1 /\ e \in b .. Len(data)
          /\ e - (b + 1) + 1 = P
      BY <1>1, <1>2, <1>4, <1>9 DEF N
    <3>2. /\ q \in Seq(Byte) /\ Len(q) = e - (b + 1) + 1
          /\ \A i \in 1 .. e - (b + 1) + 1 : q[i] = data[b + 1 + i - 1]
      BY <1>1, <1>2, <3>1
    <3>3. ASSUME NEW i \in 1 .. P
          PROVE  q[i] = data[L + i]
      <4>1. b + 1 + i - 1 = L + i
        BY <1>2, <1>4
      <4>2. i \in 1 .. e - (b + 1) + 1
        BY <3>1
      <4> HIDE DEF q
      <4> QED  BY <3>2, <4>1, <4>2
    <3> HIDE DEF q
    <3> QED  BY <3>1, <3>2, <3>3
  <2>2. \A i \in 1 .. P : data[L + i] = p[i]
    <3> TAKE i \in 1 .. P
    <3>1. /\ L + i \in 1 .. N
          /\ L + i > L /\ L + i <= L + P
          /\ L + i - L = i
      BY <1>1, <1>2, <1>9
    <3> DEFINE k == L + i
    <3>2. k \in 1 .. N /\ k > L /\ k <= L + P /\ k - L = i
      BY <1>2, <3>1
    <3> HIDE DEF k
    <3>3. data[k] = p[k - L]
      BY <1>3, <3>2 DEF Framed
    <3> QED  BY <3>2, <3>3 DEF k
  <2> HIDE DEF q
  <2>3. q = p
    BY <1>2, <2>1, <2>2 DEF P
  <2> QED  BY <2>3 DEF q
<1> QED  BY <1>2, <1>4, <1>6, <1>9, <1>10 DEF s, p, L, P, N, b, e

\* split finds a packet in a frame all of which has arrived.
LEMMA FrameIsToken ==
    ASSUME NEW f, NEW data \in Seq(Byte),
           IsSep(f.sep), f.sep \in Seq(Byte), f.packet \in Seq(Byte), ~Occurs(f.sep, f.packet),
           FrameLen(f) <= Len(data),
           \A k \in 1 .. Len(data) : k <= FrameLen(f) => data[k] = FrameByte(f, k)
    PROVE  Tokens(data) # {}
<1> DEFINE s == f.sep
           p == f.packet
           L == Len(s)
           P == Len(p)
           N == Len(data)
<1>1. /\ L \in Nat \ {0} /\ P \in Nat /\ N \in Nat
      /\ ZeroEnds(s, L)
      /\ \A i \in Nat : i <= P => ~OccursAt(s, p, i)
      /\ s \in Seq(Byte)
  BY DEF IsSep, ZeroEnds, Occurs
<1>2. L + P + L <= N /\ FrameLen(f) = L + P + L
  BY DEF FrameLen
<1>3. Framed(data, N, s, L, p, P)
  <2>1. ASSUME NEW k \in 1 .. N, k <= L + P + L
        PROVE  data[k] = IF k <= L THEN s[k] ELSE IF k <= L + P THEN p[k - L] ELSE s[k - L - P]
    BY <1>2, <2>1 DEF FrameByte
  <2> HIDE DEF s, p, L, P, N
  <2> QED  BY <1>1, <2>1 DEF Framed
<1> HIDE DEF s, p
<1>4. SubSeq(data, 1, L) = s
  <2> DEFINE q == SubSeq(data, 1, L)
  <2>1. /\ q \in Seq(Byte) /\ Len(q) = L
        /\ \A i \in 1 .. L : q[i] = data[i]
    BY <1>1, <1>2
  <2>2. \A i \in 1 .. L : data[i] = s[i]
    BY <1>1, <1>2, <1>3 DEF Framed
  <2> HIDE DEF q
  <2>3. q = s
    BY <1>1, <2>1, <2>2, SMTT(30)
  <2> QED  BY <2>3 DEF q
<1> DEFINE t == [start |-> L, end |-> L + P]
<1>5. t \in [start : 1 .. N, end : 0 .. N]
  BY <1>1, <1>2
<1>6. \A i \in 1 .. L : data[i] = 0 <=> i = L
  BY <1>1, <1>2, <1>3 DEF Framed, ZeroEnds
<1>7. OccursAt(s, data, L + P)
  <2>1. StandsAt(s, L, data, L + P)
    BY <1>1, <1>2, <1>3, AtTheEnd
  <2> QED  BY <1>2, <2>1 DEF OccursAt, StandsAt
<1>8. ASSUME NEW i \in L .. L + P - 1
      PROVE  ~OccursAt(s, data, i)
  <2> SUFFICES ASSUME OccursAt(s, data, i)
               PROVE  FALSE
    OBVIOUS
  <2> DEFINE d == i - L
  <2>1. d \in Nat /\ d < P /\ i = L + d
    BY <1>1
  <2> HIDE DEF d
  <2>2. L + d + L <= N /\ StandsAt(s, L, data, L + d)
    BY <2>1 DEF OccursAt, StandsAt
  <2> HIDE DEF L, P, N
  <2>3. d + L <= P /\ StandsAt(s, L, p, d)
    <3>1. L \in Nat \ {0} /\ P \in Nat /\ N \in Nat /\ ZeroEnds(s, L)
      BY <1>1
    <3> QED  BY ONLY <1>3, <2>1, <2>2, <3>1, NotBefore
  <2>4. OccursAt(s, p, d)
    BY <2>3 DEF OccursAt, StandsAt, L, P
  <2> QED  BY <1>1, <2>1, <2>4
<1>9. L <= L + P
  BY <1>1
<1>10. t \in Tokens(data)
  <2>1. t.start = L /\ t.end = L + P
    OBVIOUS
  <2> HIDE DEF t, L, P
  <2>2. t \in [start : 1 .. Len(data), end : 0 .. Len(data)]
    BY <1>5 DEF N
  <2>3. /\ \A i \in 1 .. t.start : data[i] = 0 <=> i = t.start
        /\ t.end >= t.start
        /\ OccursAt(SubSeq(data, 1, t.start), data, t.end)
        /\ \A i \in t.start .. t.end - 1 : ~OccursAt(SubSeq(data, 1, t.start), data, i)
    <3>1. ASSUME NEW i \in t.start .. t.end - 1
          PROVE  ~OccursAt(s, data, i)
      <4>1. i \in L .. L + P - 1
        BY <1>1, <2>1
      <4> QED  BY ONLY <1>8, <4>1
    <3>2. SubSeq(data, 1, t.start) = s
      BY <1>4, <2>1
    <3> QED  BY <1>6, <1>7, <1>9, <2>1, <3>1, <3>2
  <2> QED  BY <2>2, <2>3 DEF Tokens
<1> QED  BY <1>10

-----------------------------------------------------------------------------
(* The inductive invariant *)

LEMMA InitIInv == Init => IInv
  BY DEF Init, IInv, TypeOK, Order, InHand, Layout, Laid, Aligned

LEMMA FrameAt ==
    ASSUME IInv, NEW i \in 1 .. Len(frames)
    PROVE  /\ frames[i].at \in Nat
           /\ frames[i].packet \in Packet /\ frames[i].packet \in Seq(Byte)
           /\ frames[i].sep \in Seq(Byte)
           /\ FrameLen(frames[i]) \in Nat
<1> DEFINE f == frames[i]
<1>1. f \in [at : Nat, packet : Packet, sep : Seq(Byte)]
  <2>1. frames \in Seq([at : Nat, packet : Packet, sep : Seq(Byte)])
    BY DEF IInv, TypeOK
  <2> QED  BY ONLY <2>1, i \in 1 .. Len(frames), ElementOfSeq
<1> HIDE DEF f
<1>2. /\ f.at \in Nat
      /\ f.packet \in Packet /\ f.packet \in Seq(Byte)
      /\ f.sep \in Seq(Byte)
  BY <1>1, PacketAssumption
<1>3. Len(f.packet) \in Nat /\ Len(f.sep) \in Nat
  BY <1>2
<1>4. FrameLen(f) \in Nat
  <2> DEFINE L == Len(f.sep)
             P == Len(f.packet)
  <2>1. FrameLen(f) = L + P + L
    BY DEF FrameLen
  <2>2. L \in Nat /\ P \in Nat
    BY <1>3
  <2> HIDE DEF L, P
  <2> QED  BY <2>1, <2>2
<1> QED  BY <1>2, <1>4 DEF f

\* What is in the buffer of the scanner is the next frame, as far as it has arrived.
LEMMA BufferIsFrame ==
    ASSUME IInv
    PROVE  /\ Buffer \in Seq(Byte) /\ Len(Buffer) = arrived - scanned
           /\ arrived \in Nat /\ scanned \in Nat
           /\ Len(Buffer) > 0 => Len(received) + 1 <= Len(frames)
           /\ Len(received) + 1 <= Len(frames) =>
                 LET f == frames[Len(received) + 1]
                 IN  /\ f.at = scanned /\ FrameLen(f) \in Nat
                     /\ IsSep(f.sep) /\ ~Occurs(f.sep, f.packet)
                     /\ f.packet \in Seq(Byte) /\ f.sep \in Seq(Byte)
                     /\ \A k \in 1 .. Len(Buffer) :
                           k <= FrameLen(f) => Buffer[k] = FrameByte(f, k)
<1> USE DEF IInv, TypeOK
<1> DEFINE n == Len(received) + 1
           data == Buffer
<1>1. /\ data \in Seq(Byte)
      /\ Len(data) = arrived - scanned
      /\ \A k \in 1 .. Len(data) : data[k] = stream[scanned + k]
      /\ arrived \in Nat /\ scanned \in Nat /\ arrived <= Len(stream) /\ Len(stream) \in Nat
  <2>1. /\ stream \in Seq(Byte) /\ Len(stream) \in Nat
        /\ scanned \in Nat /\ arrived \in Nat /\ scanned <= arrived /\ arrived <= Len(stream)
    OBVIOUS
  <2> QED  BY ONLY <2>1 DEF Buffer
<1> HIDE DEF data
<1>2. ASSUME Len(data) > 0
      PROVE  n <= Len(frames)
  <2> SUFFICES ASSUME Len(received) = Len(frames) PROVE FALSE
    BY DEF Aligned
  <2>1. scanned = Laid
    BY DEF Aligned, Laid
  <2> QED  BY <1>1, <1>2, <2>1 DEF Layout
<1>3. ASSUME n <= Len(frames)
      PROVE  LET f == frames[n]
             IN  /\ f.at = scanned /\ FrameLen(f) \in Nat
                 /\ IsSep(f.sep) /\ ~Occurs(f.sep, f.packet)
                 /\ f.packet \in Seq(Byte) /\ f.sep \in Seq(Byte)
                 /\ \A k \in 1 .. Len(data) : k <= FrameLen(f) => data[k] = FrameByte(f, k)
  <2>1. n \in 1 .. Len(frames)
    <3>1. Len(received) \in Nat /\ Len(frames) \in Nat
      OBVIOUS
    <3> QED  BY <1>3, <3>1
  <2>2. frames[n].at = scanned
    <3>1. CASE received = <<>>
      BY <2>1, <3>1 DEF Aligned, Layout
    <3>2. CASE received # <<>>
      BY <2>1, <3>2 DEF Aligned, Layout
    <3> QED  BY <3>1, <3>2
  <2> DEFINE f == frames[n]
  <2>3. /\ IsSep(f.sep) /\ ~Occurs(f.sep, f.packet)
        /\ f.packet \in Seq(Byte) /\ f.sep \in Seq(Byte) /\ FrameLen(f) \in Nat
        /\ \A k \in 1 .. FrameLen(f) : f.at + k <= Len(stream) => stream[f.at + k] = FrameByte(f, k)
    BY <2>1, FrameAt DEF Layout
  <2>4. f.at = scanned
    BY <2>2
  <2> HIDE DEF f
  <2>5. \A k \in 1 .. Len(data) : k <= FrameLen(f) => data[k] = FrameByte(f, k)
    <3> SUFFICES ASSUME NEW k \in 1 .. Len(data), k <= FrameLen(f)
                 PROVE  data[k] = FrameByte(f, k)
      OBVIOUS
    <3>1. k \in 1 .. FrameLen(f) /\ scanned + k <= Len(stream)
      BY <1>1, <2>3
    <3> QED  BY <1>1, <2>3, <2>4, <3>1
  <2> QED  BY <2>3, <2>4, <2>5 DEF f
<1> QED  BY <1>1, <1>2, <1>3 DEF data

\* The next packet the scanner finds is that of the next frame.
LEMMA ScanFindsFrame ==
    ASSUME IInv, NEW t \in Tokens(Buffer)
    PROVE  LET n == Len(received) + 1
           IN  /\ n <= Len(frames)
               /\ SubSeq(Buffer, t.start + 1, t.end) = frames[n].packet
               /\ scanned + t.end + t.start = EndOf(frames[n])
               /\ scanned + t.end + t.start <= arrived
<1> DEFINE n == Len(received) + 1
           f == frames[n]
           L == Len(f.sep)
           P == Len(f.packet)
<1>1. n <= Len(frames)
  <2>1. t.start \in 1 .. Len(Buffer)
    BY DEF Tokens
  <2> QED  BY <2>1, BufferIsFrame
<1>2. /\ f.at = scanned
      /\ IsSep(f.sep) /\ ~Occurs(f.sep, f.packet)
      /\ f.packet \in Seq(Byte) /\ f.sep \in Seq(Byte)
      /\ \A k \in 1 .. Len(Buffer) : k <= FrameLen(f) => Buffer[k] = FrameByte(f, k)
      /\ Buffer \in Seq(Byte) /\ Len(Buffer) = arrived - scanned
      /\ arrived \in Nat /\ scanned \in Nat
  BY <1>1, BufferIsFrame
<1> HIDE DEF f
<1>3. L \in Nat /\ P \in Nat
  BY <1>2
<1>4. /\ t.start = L
      /\ t.end = L + P
      /\ t.end + t.start <= Len(Buffer)
      /\ SubSeq(Buffer, t.start + 1, t.end) = f.packet
  BY <1>2, TokenIsFrame
<1>5. FrameLen(f) = L + P + L
  BY DEF FrameLen
<1> HIDE DEF L, P
<1>6. scanned + t.end + t.start = EndOf(f) /\ scanned + t.end + t.start <= arrived
  BY <1>2, <1>3, <1>4, <1>5 DEF EndOf
<1> QED  BY <1>1, <1>4, <1>6 DEF f

\* What Writes does to the stream.
LEMMA WritesBytes ==
    ASSUME IInv, NEW n \in 0 .. Len(Frame), Writes(n)
    PROVE  LET f == [at |-> Len(stream), packet |-> packet, sep |-> sep]
           IN  /\ stream' \in Seq(Byte)
               /\ Len(stream') = Len(stream) + n
               /\ Len(Frame) = FrameLen(f)
               /\ \A k \in 1 .. Len(stream) : stream'[k] = stream[k]
               /\ \A k \in 1 .. n : stream'[Len(stream) + k] = FrameByte(f, k)
<1> DEFINE f == [at |-> Len(stream), packet |-> packet, sep |-> sep]
           part == SubSeq(Frame, 1, n)
<1>1. /\ stream \in Seq(Byte) /\ packet \in Seq(Byte) /\ sep \in Seq(Byte)
      /\ stream' = stream \o part
  BY DEF IInv, TypeOK, Writes
<1>2. /\ Frame \in Seq(Byte)
      /\ Len(Frame) = FrameLen(f)
      /\ \A k \in 1 .. FrameLen(f) : Frame[k] = FrameByte(f, k)
  <2>1. f.sep = sep /\ f.packet = packet
    OBVIOUS
  <2> HIDE DEF f
  <2> QED  BY <1>1, <2>1, FrameBytes DEF Frame
<1> HIDE DEF f
<1>3. /\ part \in Seq(Byte) /\ Len(part) = n
      /\ \A k \in 1 .. n : part[k] = Frame[k]
  BY <1>2
<1> HIDE DEF part
<1>4. n \in Nat /\ Len(stream) \in Nat /\ \A k \in 1 .. n : k \in 1 .. FrameLen(f)
  BY <1>1, <1>2
<1>5. /\ stream' \in Seq(Byte)
      /\ Len(stream') = Len(stream) + n
      /\ \A k \in 1 .. Len(stream) : stream'[k] = stream[k]
      /\ \A k \in 1 .. n : stream'[Len(stream) + k] = part[k]
  <2>1. /\ stream \o part \in Seq(Byte)
        /\ Len(stream \o part) = Len(stream) + Len(part)
        /\ \A k \in 1 .. Len(stream) + Len(part) :
              (stream \o part)[k] = IF k <= Len(stream) THEN stream[k] ELSE part[k - Len(stream)]
    BY <1>1, <1>3, ConcatProperties
  <2>2. \A k \in 1 .. n : Len(stream) + k \in 1 .. Len(stream) + n /\ Len(stream) + k - Len(stream) = k
    BY <1>4
  <2> QED  BY <1>1, <1>3, <1>4, <2>1, <2>2
<1> QED  BY <1>2, <1>3, <1>4, <1>5 DEF f

LEMMA TypeStep == IInv /\ [Next]_vars => TypeOK'
<1> SUFFICES ASSUME IInv, [Next]_vars
             PROVE  TypeOK'
  OBVIOUS
<1> USE DEF IInv, TypeOK
<1>1. ASSUME NEW p \in Packet, Send(p)
      PROVE  TypeOK'
  BY <1>1 DEF Send, sending, scanning
<1>2. CASE TakePacket
  BY <1>2, FirstIsSep, PacketAssumption, ByteAssumption DEF TakePacket, scanning
<1>3. CASE TryNextSep
  <2>1. IsSep(NextSep(sep))
    BY <1>3, NextIsSep DEF TryNextSep
  <2>2. NextSep(sep) \in Seq(Byte)
    BY <2>1 DEF IsSep
  <2> QED  BY <1>3, <2>1, <2>2 DEF TryNextSep, scanning
<1>4. ASSUME NEW n \in 0 .. Len(Frame), Writes(n), sendLoop' \in {"idle", "ended"}
      PROVE  TypeOK'
  <2>1. stream' \in Seq(Byte) /\ Len(stream') = Len(stream) + n
    BY <1>4, WritesBytes
  <2>2. frames' \in Seq([at : Nat, packet : Packet, sep : Seq(Byte)])
    BY <1>4 DEF Writes
  <2>3. arrived \in 0 .. Len(stream')
    <3>1. Len(stream) \in Nat /\ n \in Nat
      BY FrameBytes DEF Frame
    <3> QED  BY <2>1, <3>1
  <2> QED  BY <1>4, <2>1, <2>2, <2>3 DEF Writes, scanning
<1>5. Len(Frame) \in Nat
  BY DEF Frame
<1>6. CASE Write
  <2>1. Len(Frame) \in 0 .. Len(Frame)
    BY <1>5
  <2> QED  BY <1>4, <1>6, <2>1 DEF Write
<1>7. CASE WriteFails
  <2>1. PICK n \in 0 .. Len(Frame) - 1 : Writes(n)
    BY <1>7 DEF WriteFails
  <2>2. n \in 0 .. Len(Frame)
    BY <1>5, <2>1
  <2> QED  BY <1>4, <1>7, <2>1, <2>2 DEF WriteFails
<1>8. CASE SenderEnds
  BY <1>8 DEF SenderEnds, scanning
<1>9. CASE Arrive
  BY <1>9 DEF Arrive, sending
<1>10. CASE Scan
  <2>1. PICK t \in Tokens(Buffer) :
           /\ received' = Append(received, SubSeq(Buffer, t.start + 1, t.end))
           /\ scanned' = scanned + t.end + t.start
    BY <1>10 DEF Scan
  <2> DEFINE n == Len(received) + 1
  <2>2. /\ n <= Len(frames)
        /\ received' = Append(received, frames[n].packet)
        /\ scanned' <= arrived
    <3> HIDE DEF IInv, TypeOK
    <3> QED  BY <2>1, ScanFindsFrame
  <2>3. frames[n].packet \in Seq(Byte)
    <3>1. Len(received) \in Nat /\ Len(frames) \in Nat
      OBVIOUS
    <3>2. n \in 1 .. Len(frames)
      BY <2>2, <3>1
    <3> HIDE DEF n, TypeOK, IInv
    <3> QED  BY <3>2, FrameAt
  <2>4. scanned' \in Nat
    <3>1. Len(Buffer) \in Nat
      BY DEF Buffer
    <3>2. t.start \in Nat /\ t.end \in Nat
      BY <2>1, <3>1 DEF Tokens
    <3>3. scanned \in Nat
      OBVIOUS
    <3> QED  BY ONLY <2>1, <3>2, <3>3
  <2>5. received' \in Seq(Seq(Byte)) /\ scanned' \in 0 .. arrived
    BY <2>2, <2>3, <2>4
  <2> QED  BY <1>10, <2>5 DEF Scan, sending
<1>11. CASE RecvFails
  BY <1>11 DEF RecvFails, sending
<1>12. CASE UNCHANGED vars
  BY <1>12 DEF vars, sending, scanning
<1> QED  BY <1>1, <1>2, <1>3, <1>6, <1>7, <1>8, <1>9, <1>10, <1>11, <1>12 DEF Next

LEMMA OrderStep == IInv /\ [Next]_vars => Order'
<1> SUFFICES ASSUME IInv, [Next]_vars
             PROVE  Order'
  OBVIOUS
<1>1. /\ Len(out) \in Nat /\ Len(accepted) \in Nat /\ Len(frames) \in Nat
      /\ out \in Seq(Packet) /\ accepted \in Seq(Packet)
      /\ InHand \in {0, 1}
  BY DEF IInv, TypeOK, InHand
<1>2. /\ Len(accepted) = Len(frames) + InHand + Len(out)
      /\ \A i \in 1 .. Len(frames) : accepted[i] = frames[i].packet
      /\ sendLoop = "framing" => accepted[Len(frames) + 1] = packet
      /\ \A i \in 1 .. Len(out) : accepted[Len(frames) + InHand + i] = out[i]
  BY DEF IInv, Order
<1>3. ASSUME NEW p \in Packet, Send(p)
      PROVE  Order'
  <2>1. out' = Append(out, p) /\ accepted' = Append(accepted, p)
    BY <1>3 DEF Send
  <2>2. /\ Len(out') = Len(out) + 1 /\ Len(accepted') = Len(accepted) + 1
        /\ \A i \in 1 .. Len(out) : out'[i] = out[i]
        /\ \A i \in 1 .. Len(accepted) : accepted'[i] = accepted[i]
        /\ out'[Len(out) + 1] = p /\ accepted'[Len(accepted) + 1] = p
    BY <1>1, <2>1
  <2>3. InHand' = InHand /\ UNCHANGED <<frames, sendLoop, packet>>
    BY <1>3 DEF Send, sending, InHand
  <2>4. ASSUME NEW i \in 1 .. Len(out')
        PROVE  accepted'[Len(frames) + InHand + i] = out'[i]
    <3>1. CASE i \in 1 .. Len(out)
      <4>1. Len(frames) + InHand + i \in 1 .. Len(accepted)
        BY <1>1, <1>2, <3>1
      <4> QED  BY <1>2, <2>2, <3>1, <4>1
    <3>2. CASE i = Len(out) + 1
      <4>1. Len(frames) + InHand + i = Len(accepted) + 1
        BY <1>1, <1>2, <3>2
      <4> QED  BY <2>2, <3>2, <4>1
    <3> QED  BY <1>1, <2>2, <3>1, <3>2
  <2>5. \A i \in 1 .. Len(frames) : accepted'[i] = frames[i].packet
    BY <1>1, <1>2, <2>2
  <2>6. sendLoop = "framing" => accepted'[Len(frames) + 1] = packet
    BY <1>1, <1>2, <2>2 DEF InHand
  <2>7. Len(accepted') = Len(frames) + InHand + Len(out')
    BY <1>1, <1>2, <2>2
  <2> QED  BY <2>3, <2>4, <2>5, <2>6, <2>7 DEF Order
<1>4. CASE TakePacket
  <2>1. sendLoop = "idle" /\ sendLoop' = "framing" /\ UNCHANGED <<frames, accepted>>
    BY <1>4 DEF TakePacket
  <2>2. InHand = 0 /\ InHand' = 1
    BY <2>1 DEF InHand
  <2>3. out # <<>> /\ out' = Tail(out) /\ packet' = Head(out)
    BY <1>4 DEF TakePacket
  <2>4. /\ Len(out) >= 1
        /\ Len(out') = Len(out) - 1
        /\ \A i \in 1 .. Len(out') : out'[i] = out[i + 1]
        /\ packet' = out[1]
    BY <1>1, <2>3
  <2>5. ASSUME NEW i \in 1 .. Len(out')
        PROVE  accepted[Len(frames) + 1 + i] = out'[i]
    <3>1. i + 1 \in 1 .. Len(out) /\ Len(frames) + InHand + (i + 1) = Len(frames) + 1 + i
      BY <1>1, <2>2, <2>4
    <3> QED  BY <1>2, <2>4, <3>1
  <2>6. accepted[Len(frames) + 1] = packet'
    <3>1. 1 \in 1 .. Len(out) /\ Len(frames) + InHand + 1 = Len(frames) + 1
      BY <1>1, <2>2, <2>4
    <3> QED  BY <1>2, <2>4, <3>1
  <2>7. Len(accepted) = Len(frames) + 1 + Len(out')
    BY <1>1, <1>2, <2>2, <2>4
  <2> QED  BY <1>2, <2>1, <2>2, <2>5, <2>6, <2>7 DEF Order
<1>5. ASSUME NEW n, Writes(n), sendLoop' \in {"idle", "ended"}
      PROVE  Order'
  <2> DEFINE f == [at |-> Len(stream), packet |-> packet, sep |-> sep]
  <2>1. sendLoop = "framing" /\ frames' = Append(frames, f) /\ UNCHANGED <<out, accepted>>
    BY <1>5 DEF Writes
  <2>2. f \in [at : Nat, packet : Packet, sep : Seq(Byte)]
    BY <2>1 DEF IInv, TypeOK
  <2>3. f.packet = packet
    OBVIOUS
  <2> HIDE DEF f
  <2>4. /\ Len(frames') = Len(frames) + 1
        /\ \A i \in 1 .. Len(frames) : frames'[i] = frames[i]
        /\ frames'[Len(frames) + 1] = f
    BY <2>1, <2>2 DEF IInv, TypeOK
  <2>5. InHand = 1 /\ InHand' = 0 /\ sendLoop' # "framing"
    BY <1>5, <2>1 DEF InHand
  <2>6. ASSUME NEW i \in 1 .. Len(frames')
        PROVE  accepted[i] = frames'[i].packet
    <3>1. CASE i \in 1 .. Len(frames)
      BY <1>2, <2>4, <3>1
    <3>2. CASE i = Len(frames) + 1
      BY <1>2, <2>1, <2>3, <2>4, <3>2
    <3> QED  BY <1>1, <2>4, <3>1, <3>2
  <2>7. \A i \in 1 .. Len(out) : accepted[Len(frames') + 0 + i] = out[i]
    <3> TAKE i \in 1 .. Len(out)
    <3>1. Len(frames') + 0 + i = Len(frames) + InHand + i
      BY <1>1, <2>4, <2>5
    <3> QED  BY <1>2, <3>1
  <2>8. Len(accepted) = Len(frames') + 0 + Len(out)
    BY <1>1, <1>2, <2>4, <2>5
  <2> QED  BY <2>1, <2>5, <2>6, <2>7, <2>8 DEF Order
<1>6. CASE Write
  BY <1>5, <1>6 DEF Write
<1>7. CASE WriteFails
  BY <1>5, <1>7 DEF WriteFails
<1>8. CASE TryNextSep \/ SenderEnds
  <2>1. UNCHANGED <<out, packet, accepted, frames>> /\ InHand' = InHand
    BY <1>8 DEF TryNextSep, SenderEnds, InHand
  <2>2. sendLoop' = "framing" => sendLoop = "framing"
    BY <1>8 DEF TryNextSep, SenderEnds
  <2> QED  BY <1>2, <2>1, <2>2 DEF Order
<1>9. CASE Arrive \/ Scan \/ RecvFails \/ UNCHANGED vars
  BY <1>2, <1>9 DEF Arrive, Scan, RecvFails, vars, sending, Order, InHand
<1> QED  BY <1>3, <1>4, <1>6, <1>7, <1>8, <1>9 DEF Next

\* The frame f lies in the bytes st, as far as they go.
LiesIn(f, st) ==
    /\ IsSep(f.sep)
    /\ ~Occurs(f.sep, f.packet)
    /\ f.at <= Len(st)
    /\ \A k \in 1 .. FrameLen(f) : f.at + k <= Len(st) => st[f.at + k] = FrameByte(f, k)

\* What Writes does to the frames.
LEMMA WritesFrames ==
    ASSUME IInv, NEW n, Writes(n)
    PROVE  LET f == [at |-> Len(stream), packet |-> packet, sep |-> sep]
           IN  /\ Len(frames) \in Nat
               /\ Len(frames') = Len(frames) + 1
               /\ \A i \in 1 .. Len(frames) : frames'[i] = frames[i]
               /\ frames'[Len(frames) + 1] = f
<1> DEFINE f == [at |-> Len(stream), packet |-> packet, sep |-> sep]
<1>1. frames' = Append(frames, f)
  BY DEF Writes
<1>2. f \in [at : Nat, packet : Packet, sep : Seq(Byte)]
  BY DEF IInv, TypeOK, Writes
<1> HIDE DEF f
<1> QED  BY <1>1, <1>2 DEF IInv, TypeOK, f

LEMMA WritesLayout ==
    ASSUME IInv, NEW n \in 0 .. Len(Frame), Writes(n), sendLoop' = "ended" \/ n = Len(Frame)
    PROVE  Layout'
<1> DEFINE f == [at |-> Len(stream), packet |-> packet, sep |-> sep]
           L == Len(stream)
           F == Len(frames)
           Fl == FrameLen(f)
<1>1. /\ F \in Nat
      /\ Len(frames') = F + 1
      /\ \A i \in 1 .. F : frames'[i] = frames[i]
      /\ frames'[F + 1] = f
  BY WritesFrames
<1>2. /\ Len(stream') = L + n
      /\ Len(Frame) = Fl
      /\ \A k \in 1 .. L : stream'[k] = stream[k]
      /\ \A k \in 1 .. n : stream'[L + k] = FrameByte(f, k)
  BY WritesBytes
<1>3. L \in Nat /\ n \in Nat /\ Fl \in Nat /\ n <= Fl
  <2>1. L \in Nat /\ Len(Frame) \in Nat
    BY DEF IInv, TypeOK, Frame
  <2> QED  BY <1>2, <2>1
<1>4. f.at = L /\ IsSep(f.sep) /\ ~Occurs(f.sep, f.packet)
  BY DEF IInv, TypeOK, Writes
<1>5. Laid = L
  BY DEF IInv, Layout, Writes
<1> HIDE DEF f, Fl, L, F
<1>6. ASSUME NEW i \in 1 .. F
      PROVE  /\ LiesIn(frames[i], stream)
             /\ frames[i].at \in Nat /\ FrameLen(frames[i]) \in Nat
             /\ i > 1 => frames[i].at = EndOf(frames[i - 1])
             /\ EndOf(frames[i]) <= L
  <2>1. LiesIn(frames[i], stream) /\ (i > 1 => frames[i].at = EndOf(frames[i - 1]))
    BY DEF IInv, Layout, LiesIn, F
  <2>2. frames[i].at \in Nat /\ FrameLen(frames[i]) \in Nat
    BY FrameAt DEF F
  <2>3. CASE i = F
    <3>1. frames # <<>>
      BY <2>3 DEF F
    <3> QED  BY <1>3, <1>5, <2>1, <2>2, <2>3, <3>1 DEF Laid, F
  <2>4. CASE i < F
    <3> DEFINE j == i + 1
    <3>1. j \in 1 .. F /\ j > 1 /\ j - 1 = i
      BY <1>1, <2>4
    <3> HIDE DEF j
    <3>2. frames[j].at = EndOf(frames[i]) /\ frames[j].at <= L
      BY <3>1 DEF IInv, Layout, F, L
    <3> QED  BY <2>1, <2>2, <3>2
  <2> QED  BY <1>1, <2>3, <2>4
<1>7. ASSUME NEW i \in 1 .. F + 1
      PROVE  /\ LiesIn(frames'[i], stream')
             /\ i > 1 => frames'[i].at = EndOf(frames'[i - 1])
  <2>1. CASE i \in 1 .. F
    <3> DEFINE g == frames[i]
    <3>1. frames'[i] = g /\ (i > 1 => frames'[i - 1] = frames[i - 1])
      BY <1>1, <2>1
    <3>2. /\ LiesIn(g, stream)
          /\ g.at \in Nat /\ FrameLen(g) \in Nat
          /\ i > 1 => g.at = EndOf(frames[i - 1])
          /\ g.at + FrameLen(g) <= L
      BY <1>6, <2>1 DEF EndOf
    <3> HIDE DEF g
    <3>3. ASSUME NEW k \in 1 .. FrameLen(g)
          PROVE  stream'[g.at + k] = FrameByte(g, k)
      <4>1. g.at + k \in 1 .. L
        BY <1>3, <3>2
      <4>2. stream[g.at + k] = FrameByte(g, k)
        BY <3>2, <4>1 DEF LiesIn, L
      <4> QED  BY <1>2, <4>1, <4>2
    <3>4. g.at <= Len(stream')
      BY <1>2, <1>3, <3>2
    <3> QED  BY <3>1, <3>2, <3>3, <3>4 DEF LiesIn
  <2>2. CASE i = F + 1
    <3>1. frames'[i] = f
      BY <1>1, <2>2
    <3>2. ASSUME NEW k \in 1 .. Fl, L + k <= Len(stream')
          PROVE  stream'[L + k] = FrameByte(f, k)
      <4>1. k \in 1 .. n
        BY <1>2, <1>3, <3>2
      <4> QED  BY <1>2, <4>1
    <3>3. LiesIn(f, stream')
      BY <1>2, <1>3, <1>4, <3>2 DEF LiesIn, Fl
    <3>4. i > 1 => f.at = EndOf(frames'[i - 1])
      <4> SUFFICES ASSUME i > 1 PROVE f.at = EndOf(frames'[i - 1])
        OBVIOUS
      <4>1. F \in 1 .. F /\ i - 1 = F
        BY <1>1, <2>2
      <4>2. frames # <<>>
        BY <4>1 DEF F
      <4>3. EndOf(frames[F]) = L
        BY <1>5, <4>2 DEF Laid, F
      <4> QED  BY <1>1, <1>4, <4>1, <4>3
    <3> QED  BY <3>1, <3>3, <3>4
  <2> QED  BY <1>1, <2>1, <2>2
<1>8. frames'[1].at = 0
  <2>1. CASE frames = <<>>
    <3>1. F = 0 /\ L = 0
      BY <1>5, <2>1 DEF F, Laid
    <3> QED  BY <1>1, <1>4, <3>1
  <2>2. CASE frames # <<>>
    <3>1. 1 \in 1 .. F
      BY <2>2 DEF F, IInv, TypeOK
    <3> QED  BY <1>1, <2>2, <3>1 DEF IInv, Layout
  <2> QED  BY <2>1, <2>2
<1>9. Laid' = L + Fl
  <2>1. frames' # <<>>
    BY <1>1
  <2>2. frames'[Len(frames')] = f
    BY <1>1
  <2>3. EndOf(f) = L + Fl
    BY <1>4 DEF EndOf, Fl
  <2> QED  BY <2>1, <2>2, <2>3 DEF Laid
<1>10. Len(stream') <= Laid' /\ (sendLoop' # "ended" => Len(stream') = Laid')
  BY <1>2, <1>3, <1>9
<1> QED  BY <1>1, <1>7, <1>8, <1>10 DEF Layout, LiesIn

LEMMA LayoutStep == IInv /\ [Next]_vars => Layout'
<1> SUFFICES ASSUME IInv, [Next]_vars
             PROVE  Layout'
  OBVIOUS
<1>1. ASSUME UNCHANGED <<stream, frames>>, sendLoop' # "ended" => sendLoop # "ended"
      PROVE  Layout'
  BY <1>1 DEF IInv, Layout, Laid
<1>2. Len(Frame) \in Nat
  BY DEF IInv, TypeOK, Frame
<1>3. CASE Write
  <2>1. Len(Frame) \in 0 .. Len(Frame)
    BY <1>2
  <2> QED  BY <1>3, <2>1, WritesLayout DEF Write
<1>4. CASE WriteFails
  <2>1. PICK n \in 0 .. Len(Frame) - 1 : Writes(n)
    BY <1>4 DEF WriteFails
  <2>2. n \in 0 .. Len(Frame)
    BY <1>2, <2>1
  <2> QED  BY <1>4, <2>1, <2>2, WritesLayout DEF WriteFails
<1>5. CASE \E p \in Packet : Send(p)
  BY <1>1, <1>5 DEF Send, sending
<1>6. CASE TakePacket \/ TryNextSep \/ SenderEnds
  BY <1>1, <1>6 DEF TakePacket, TryNextSep, SenderEnds
<1>7. CASE Arrive \/ Scan \/ RecvFails \/ UNCHANGED vars
  BY <1>1, <1>7 DEF Arrive, Scan, RecvFails, vars, sending
<1> QED  BY <1>3, <1>4, <1>5, <1>6, <1>7 DEF Next

LEMMA AlignedStep == IInv /\ [Next]_vars => Aligned'
<1> SUFFICES ASSUME IInv, [Next]_vars
             PROVE  Aligned'
  OBVIOUS
<1>1. /\ Len(received) \in Nat /\ Len(frames) \in Nat
      /\ Len(received) <= Len(frames)
      /\ \A i \in 1 .. Len(received) : received[i] = frames[i].packet
      /\ scanned = IF received = <<>> THEN 0 ELSE EndOf(frames[Len(received)])
  BY SMTT(30) DEF IInv, TypeOK, Aligned
<1>2. ASSUME UNCHANGED <<received, frames, scanned>>
      PROVE  Aligned'
  BY <1>1, <1>2 DEF Aligned
<1>3. ASSUME NEW n, Writes(n)
      PROVE  Aligned'
  <2>1. UNCHANGED <<received, scanned>>
    BY <1>3 DEF Writes, scanning
  <2>2. /\ Len(frames') = Len(frames) + 1
        /\ \A i \in 1 .. Len(frames) : frames'[i] = frames[i]
    BY <1>3, WritesFrames
  <2>3. received # <<>> => Len(received) \in 1 .. Len(frames)
    BY <1>1 DEF IInv, TypeOK
  <2> QED  BY <1>1, <2>1, <2>2, <2>3 DEF Aligned
<1>4. CASE Write \/ WriteFails
  BY <1>3, <1>4 DEF Write, WriteFails
<1>5. CASE Scan
  <2>1. PICK t \in Tokens(Buffer) :
           /\ received' = Append(received, SubSeq(Buffer, t.start + 1, t.end))
           /\ scanned' = scanned + t.end + t.start
    BY <1>5 DEF Scan
  <2>2. UNCHANGED frames
    BY <1>5 DEF Scan
  <2> DEFINE n == Len(received) + 1
  <2>3. /\ n <= Len(frames)
        /\ received' = Append(received, frames[n].packet)
        /\ scanned' = EndOf(frames[n])
    BY <2>1, ScanFindsFrame
  <2>4. n \in 1 .. Len(frames) /\ received \in Seq(Seq(Byte))
    BY <1>1, <2>3 DEF IInv, TypeOK
  <2>5. frames[n].packet \in Seq(Byte)
    <3> HIDE DEF n
    <3> QED  BY <2>4, FrameAt
  <2>6. /\ Len(received') = n
        /\ \A i \in 1 .. Len(received) : received'[i] = received[i]
        /\ received'[n] = frames[n].packet
    BY <2>3, <2>4, <2>5
  <2>7. ASSUME NEW i \in 1 .. n
        PROVE  received'[i] = frames[i].packet
    <3>1. CASE i \in 1 .. Len(received)
      BY <1>1, <2>6, <3>1
    <3>2. CASE i = n
      BY <2>6, <3>2
    <3> QED  BY <1>1, <3>1, <3>2
  <2>8. received' # <<>>
    BY <1>1, <2>6
  <2> HIDE DEF n
  <2> QED  BY <2>2, <2>3, <2>6, <2>7, <2>8 DEF Aligned
<1>6. CASE \E p \in Packet : Send(p)
  BY <1>2, <1>6 DEF Send, scanning
<1>7. CASE TakePacket \/ TryNextSep \/ SenderEnds
  BY <1>2, <1>7 DEF TakePacket, TryNextSep, SenderEnds, scanning
<1>8. CASE Arrive \/ RecvFails \/ UNCHANGED vars
  BY <1>2, <1>8 DEF Arrive, RecvFails, vars, scanning
<1> QED  BY <1>4, <1>5, <1>6, <1>7, <1>8 DEF Next

-----------------------------------------------------------------------------
\* The frames of the packets sent follow each other in the stream, and the scanner
\* stands at the border of two of them whenever Recv has returned (link/stream.go).
THEOREM Invariance == Spec => []IInv
<1>1. IInv /\ [Next]_vars => IInv'
  BY TypeStep, OrderStep, LayoutStep, AlignedStep DEF IInv
<1> QED  BY <1>1, InitIInv, PTL DEF Spec

\* Recv returns the packets given to Send, whole and in their order, whatever they
\* contain and however TCP cuts the stream (addSep, split).
THEOREM ReceivedIsSent == Spec => []ReceivedWhatWasSent
<1>1. IInv => ReceivedWhatWasSent
  <2> SUFFICES ASSUME IInv PROVE ReceivedWhatWasSent
    OBVIOUS
  <2>1. /\ Len(received) \in Nat /\ Len(frames) \in Nat /\ Len(out) \in Nat
        /\ InHand \in {0, 1}
    BY DEF IInv, TypeOK, InHand
  <2>2. Len(received) <= Len(frames) /\ Len(frames) <= Len(accepted)
    BY <2>1 DEF IInv, Aligned, Order
  <2> QED  BY <2>1, <2>2 DEF IInv, Aligned, Order, ReceivedWhatWasSent
<1> QED  BY <1>1, Invariance, PTL

\* Recv waits for no bytes that follow a complete frame (split): with ReceivedIsSent, it
\* returns the packet of that frame.
THEOREM CompleteFramesAreFound == Spec => []CompleteIsFound
<1>1. IInv => CompleteIsFound
  <2> DEFINE f == frames[Len(received) + 1]
  <2> SUFFICES ASSUME IInv, Len(received) + 1 <= Len(frames), EndOf(f) <= arrived
               PROVE  Tokens(Buffer) # {}
    BY DEF CompleteIsFound
  <2>1. /\ f.at = scanned /\ FrameLen(f) \in Nat
        /\ IsSep(f.sep) /\ ~Occurs(f.sep, f.packet)
        /\ f.packet \in Seq(Byte) /\ f.sep \in Seq(Byte)
        /\ \A k \in 1 .. Len(Buffer) : k <= FrameLen(f) => Buffer[k] = FrameByte(f, k)
        /\ Buffer \in Seq(Byte) /\ Len(Buffer) = arrived - scanned
        /\ arrived \in Nat /\ scanned \in Nat
    BY BufferIsFrame
  <2> HIDE DEF f
  <2>2. FrameLen(f) <= Len(Buffer)
    BY <2>1 DEF EndOf
  <2> QED  BY <2>1, <2>2, FrameIsToken
<1> QED  BY <1>1, Invariance, PTL

-----------------------------------------------------------------------------
(* A stream is a pipe *)

\* The elements of s from the one after r up to the k-th.
LEMMA PartOf ==
    ASSUME NEW S, NEW s \in Seq(S), NEW r \in Nat, NEW k \in r .. Len(s)
    PROVE  /\ SubSeq(s, r + 1, k) \in Seq(S)
           /\ Len(SubSeq(s, r + 1, k)) = k - r
           /\ \A i \in 1 .. k - r : SubSeq(s, r + 1, k)[i] = s[r + i]
  OBVIOUS

\* What is appended to s becomes the end of its parts that reach to the end.
PartsOfLonger(s, x, r, k) ==
    /\ SubSeq(Append(s, x), r + 1, k) = SubSeq(s, r + 1, k)
    /\ k = Len(s) => SubSeq(Append(s, x), r + 1, k + 1) = Append(SubSeq(s, r + 1, k), x)

LEMMA PartAppend ==
    ASSUME NEW S, NEW s \in Seq(S), NEW x \in S, NEW r \in Nat, NEW k \in r .. Len(s)
    PROVE  PartsOfLonger(s, x, r, k)
<1> DEFINE longer == Append(s, x)
<1>1. /\ longer \in Seq(S) /\ Len(longer) = Len(s) + 1
      /\ \A i \in 1 .. Len(s) : longer[i] = s[i]
      /\ longer[Len(s) + 1] = x
  OBVIOUS
<1> HIDE DEF longer
<1>2. SubSeq(longer, r + 1, k) = SubSeq(s, r + 1, k)
  <2> DEFINE part == SubSeq(longer, r + 1, k)
             old == SubSeq(s, r + 1, k)
  <2>1. k \in r .. Len(longer)
    BY <1>1
  <2>2. part \in Seq(S) /\ Len(part) = k - r /\ \A i \in 1 .. k - r : part[i] = longer[r + i]
    BY <1>1, <2>1, PartOf
  <2>3. old \in Seq(S) /\ Len(old) = k - r /\ \A i \in 1 .. k - r : old[i] = s[r + i]
    BY PartOf
  <2>4. \A i \in 1 .. k - r : longer[r + i] = s[r + i]
    BY <1>1
  <2> HIDE DEF part, old
  <2>5. Len(part) = Len(old) /\ \A i \in 1 .. Len(part) : part[i] = old[i]
    BY <2>2, <2>3, <2>4
  <2>6. part = old
    BY <2>2, <2>3, <2>5
  <2> QED  BY <2>6 DEF part, old
<1>3. ASSUME k = Len(s)
      PROVE  SubSeq(longer, r + 1, k + 1) = Append(SubSeq(s, r + 1, k), x)
  <2> DEFINE part == SubSeq(longer, r + 1, k + 1)
             old == SubSeq(s, r + 1, k)
  <2>1. k + 1 \in r .. Len(longer)
    BY <1>1, <1>3
  <2>2. /\ part \in Seq(S) /\ Len(part) = k + 1 - r
        /\ \A i \in 1 .. k + 1 - r : part[i] = longer[r + i]
    BY <1>1, <2>1, PartOf
  <2>3. old \in Seq(S) /\ Len(old) = k - r /\ \A i \in 1 .. k - r : old[i] = s[r + i]
    BY PartOf
  <2> HIDE DEF part, old
  <2>4. /\ Append(old, x) \in Seq(S) /\ Len(Append(old, x)) = k + 1 - r
        /\ \A i \in 1 .. k - r : Append(old, x)[i] = old[i]
        /\ Append(old, x)[k + 1 - r] = x
    BY <2>3
  <2>5. ASSUME NEW i \in 1 .. k + 1 - r
        PROVE  part[i] = Append(old, x)[i]
    <3>0. k \in Nat
      OBVIOUS
    <3>1. CASE i \in 1 .. k - r
      BY <1>1, <1>3, <2>2, <2>3, <2>4, <3>1
    <3>2. CASE i = k + 1 - r
      BY <1>1, <1>3, <2>2, <2>4, <3>2
    <3>3. i \in 1 .. k - r \/ i = k + 1 - r
      BY <3>0
    <3> QED  BY ONLY <3>1, <3>2, <3>3
  <2>6. part = Append(old, x)
    BY <2>2, <2>4, <2>5
  <2> QED  BY <2>6 DEF part, old
<1> QED  BY <1>2, <1>3 DEF longer, PartsOfLonger

LEMMA PartTail ==
    ASSUME NEW S, NEW s \in Seq(S), NEW r \in Nat, NEW k \in r + 1 .. Len(s)
    PROVE  /\ SubSeq(s, r + 1, k) # <<>>
           /\ Head(SubSeq(s, r + 1, k)) = s[r + 1]
           /\ Tail(SubSeq(s, r + 1, k)) = SubSeq(s, r + 2, k)
  OBVIOUS

LEMMA PartPrefix ==
    ASSUME NEW S, NEW s \in Seq(S), NEW r \in Nat, NEW k \in r .. Len(s), NEW j \in r .. k
    PROVE  /\ j - r \in 0 .. Len(SubSeq(s, r + 1, k))
           /\ SubSeq(s, r + 1, j) = SubSeq(SubSeq(s, r + 1, k), 1, j - r)
  OBVIOUS

\* Coming stands for the packets from the one after the last received up to the
\* Last, and those are in frames or accepted to get there.
Last == IF sendLoop = "ended" THEN Written ELSE Len(accepted)

LEMMA Counts ==
    ASSUME IInv
    PROVE  /\ Len(received) \in Nat /\ Len(frames) \in Nat /\ accepted \in Seq(Packet)
           /\ Len(received) <= Len(frames) /\ Len(frames) <= Len(accepted)
           /\ Len(received) < Len(frames) => accepted[Len(received) + 1] = frames[Len(received) + 1].packet
<1>1. /\ Len(received) \in Nat /\ Len(frames) \in Nat /\ Len(out) \in Nat
      /\ InHand \in {0, 1} /\ accepted \in Seq(Packet)
  BY DEF IInv, TypeOK, InHand
<1>2. Len(received) <= Len(frames) /\ Len(frames) <= Len(accepted)
  BY <1>1 DEF IInv, Aligned, Order
<1> QED  BY <1>1, <1>2 DEF IInv, Order

\* The last packet received was written to the end, and so was each before it.
LEMMA ReceivedWasWritten ==
    ASSUME IInv
    PROVE  /\ Written \in Len(received) .. Len(frames)
           /\ sendLoop # "ended" => Written = Len(frames)
           /\ Last \in Len(received) .. Len(accepted)
<1>1. sendLoop # "ended" => Written = Len(frames)
  BY DEF IInv, Layout, Written
<1>2. Written \in Len(received) .. Len(frames)
  <2>1. CASE Len(stream) = Laid
    BY <2>1, Counts DEF Written
  <2>2. CASE Len(stream) # Laid
    <3>1. frames # <<>> /\ Len(frames) \in Nat \ {0}
      <4>1. frames # <<>>
        BY <2>2 DEF IInv, TypeOK, Layout, Laid
      <4> QED  BY <4>1 DEF IInv, TypeOK
    <3>2. Len(received) # Len(frames)
      <4> SUFFICES ASSUME Len(received) = Len(frames)
                   PROVE  FALSE
        OBVIOUS
      <4>1. received # <<>>
        BY <3>1
      <4>2. scanned = Laid
        BY <3>1, <4>1 DEF IInv, Aligned, Laid
      <4> QED  BY <2>2, <4>2 DEF IInv, TypeOK, Layout
    <3> QED  BY <2>2, <3>1, <3>2, Counts DEF Written
  <2> QED  BY <2>1, <2>2
<1>3. Last \in Len(received) .. Len(accepted)
  BY <1>2, Counts DEF Last
<1> QED  BY <1>1, <1>2, <1>3

LEMMA SendIsPut ==
    ASSUME IInv, NEW p \in Packet, Send(p)
    PROVE  Abstract!Put(p) \/ UNCHANGED Abstract!vars
<1>1. /\ accepted' = Append(accepted, p)
      /\ UNCHANGED <<sendLoop, stream, frames, received, reading>>
  BY DEF Send, sending, scanning
<1>2. Written' = Written
  BY <1>1 DEF Written, Laid
<1>3. /\ Len(received) \in Nat /\ accepted \in Seq(Packet)
      /\ Last \in Len(received) .. Len(accepted)
  BY Counts, ReceivedWasWritten
<1>4. Len(accepted') = Len(accepted) + 1
  BY <1>1, <1>3
<1>5. /\ SubSeq(Append(accepted, p), Len(received) + 1, Last) =
            SubSeq(accepted, Len(received) + 1, Last)
      /\ Last = Len(accepted) =>
            SubSeq(Append(accepted, p), Len(received) + 1, Last + 1) =
            Append(SubSeq(accepted, Len(received) + 1, Last), p)
  <2>1. PartsOfLonger(accepted, p, Len(received), Last)
    BY <1>3, PartAppend
  <2> QED  BY <2>1 DEF PartsOfLonger
<1>6. CASE sendLoop = "ended"
  <2>1. Coming' = SubSeq(Append(accepted, p), Len(received) + 1, Last)
    BY <1>1, <1>2, <1>6 DEF Coming, Last
  <2>2. Coming' = Coming
    BY <1>5, <2>1 DEF Coming, Last
  <2> QED  BY <1>1, <2>2 DEF Abstract!vars
<1>7. CASE sendLoop # "ended"
  <2>1. Coming' = SubSeq(Append(accepted, p), Len(received) + 1, Len(accepted) + 1)
    BY <1>1, <1>4, <1>7 DEF Coming
  <2>2. Coming = SubSeq(accepted, Len(received) + 1, Last) /\ Last = Len(accepted)
    BY <1>7 DEF Coming, Last
  <2>3. Coming' = Append(Coming, p)
    BY <1>5, <2>1, <2>2
  <2> QED  BY <1>1, <1>7, <2>3 DEF Abstract!Put
<1> QED  BY <1>6, <1>7

LEMMA EndIsBreak ==
    ASSUME IInv, sendLoop # "ended", sendLoop' = "ended", UNCHANGED <<accepted, received, reading>>,
           Written' = Len(frames)
    PROVE  Abstract!Break
<1>1. /\ Len(received) \in Nat /\ accepted \in Seq(Packet) /\ Len(accepted) \in Nat
      /\ Len(frames) \in Len(received) .. Len(accepted)
  BY Counts
<1>2. Coming = SubSeq(accepted, Len(received) + 1, Len(accepted))
  BY DEF Coming
<1>3. Coming' = SubSeq(accepted, Len(received) + 1, Len(frames))
  BY DEF Coming
<1>4. /\ Len(frames) - Len(received) \in 0 .. Len(Coming)
      /\ Coming' = SubSeq(Coming, 1, Len(frames) - Len(received))
  BY <1>1, <1>2, <1>3, PartPrefix
<1> QED  BY <1>4 DEF Abstract!Break

LEMMA WriteFailsIsBreak ==
    ASSUME IInv, WriteFails
    PROVE  Abstract!Break
<1>1. PICK n \in 0 .. Len(Frame) - 1 : Writes(n)
  BY DEF WriteFails
<1> DEFINE f == [at |-> Len(stream), packet |-> packet, sep |-> sep]
<1>2. /\ sendLoop = "framing" /\ sendLoop' = "ended"
      /\ UNCHANGED <<accepted, received, reading>>
  BY <1>1 DEF WriteFails, Writes, scanning
<1>3. /\ Len(frames) \in Nat /\ Len(frames') = Len(frames) + 1
      /\ frames'[Len(frames) + 1] = f
  BY <1>1, WritesFrames
<1>4. n \in 0 .. Len(Frame) /\ Len(Frame) \in Nat /\ Len(stream) \in Nat /\ n < Len(Frame)
  BY DEF IInv, TypeOK, Frame
<1>5. Len(stream') = Len(stream) + n /\ Len(Frame) = FrameLen(f)
  BY <1>1, <1>4, WritesBytes
<1>6. Laid' = Len(stream) + FrameLen(f)
  <2>1. frames' # <<>> /\ frames'[Len(frames')] = f
    BY <1>3
  <2>2. f.at = Len(stream)
    OBVIOUS
  <2> HIDE DEF f
  <2> QED  BY <2>1, <2>2 DEF Laid, EndOf
<1>7. Written' = Len(frames)
  <2> HIDE DEF f
  <2>1. Len(stream') # Laid'
    BY <1>4, <1>5, <1>6
  <2> QED  BY <1>3, <2>1 DEF Written
<1> QED  BY <1>2, <1>7, EndIsBreak

LEMMA ScanIsGet ==
    ASSUME IInv, Scan
    PROVE  Abstract!Get
<1> DEFINE n == Len(received) + 1
<1>1. PICK t \in Tokens(Buffer) : received' = Append(received, SubSeq(Buffer, t.start + 1, t.end))
  BY DEF Scan
<1>2. /\ n <= Len(frames) /\ EndOf(frames[n]) <= arrived
      /\ received' = Append(received, frames[n].packet)
  BY <1>1, ScanFindsFrame
<1>3. reading /\ UNCHANGED <<sendLoop, stream, accepted, frames, reading>>
  BY DEF Scan, sending
<1>4. /\ Len(received) \in Nat /\ Len(frames) \in Nat /\ accepted \in Seq(Packet)
      /\ Len(frames) <= Len(accepted) /\ accepted[n] = frames[n].packet
  BY <1>2, Counts
<1>5. Last \in n .. Len(accepted)
  <2>1. CASE n = Len(frames)
    <3>1. Laid <= arrived
      <4>1. frames # <<>>
        BY <1>4, <2>1
      <4> QED  BY <1>2, <2>1, <4>1 DEF Laid
    <3>2. Len(stream) = Laid
      <4>1. Laid \in Int
        <5>1. CASE frames = <<>>
          BY <5>1 DEF Laid
        <5>2. CASE frames # <<>>
          <6>1. Len(frames) \in 1 .. Len(frames)
            BY <1>4, <2>1
          <6> QED  BY <5>2, <6>1, FrameAt DEF Laid, EndOf
        <5> QED  BY <5>1, <5>2
      <4> QED  BY <3>1, <4>1 DEF IInv, TypeOK, Layout
    <3> QED  BY <1>4, <2>1, <3>2 DEF Last, Written
  <2>2. CASE n # Len(frames)
    BY <1>2, <1>4, <2>2 DEF Last, Written
  <2> QED  BY <2>1, <2>2
<1>6. received' = Append(received, accepted[n]) /\ Len(received') = n
  BY <1>2, <1>4 DEF IInv, TypeOK
<1>7. Last' = Last
  BY <1>3 DEF Last, Written, Laid
<1>8. /\ Coming = SubSeq(accepted, Len(received) + 1, Last)
      /\ Coming' = SubSeq(accepted, Len(received) + 2, Last)
  <2>1. Coming' = SubSeq(accepted, n + 1, Last)
    BY <1>3, <1>6, <1>7 DEF Coming, Last
  <2>2. n + 1 = Len(received) + 2
    BY <1>4
  <2> QED  BY <2>1, <2>2 DEF Coming, Last
<1>9. Coming # <<>> /\ Head(Coming) = accepted[n] /\ Coming' = Tail(Coming)
  BY <1>4, <1>5, <1>8, PartTail
<1> QED  BY <1>3, <1>6, <1>9 DEF Abstract!Get

LEMMA StepIsPipeStep == IInv /\ [Next]_vars => [Abstract!Next]_(Abstract!vars)
<1> SUFFICES ASSUME IInv, [Next]_vars
             PROVE  Abstract!Next \/ UNCHANGED Abstract!vars
  OBVIOUS
<1>1. ASSUME UNCHANGED <<accepted, received, reading>>,
             UNCHANGED Written \/ sendLoop # "ended",
             sendLoop' = "ended" <=> sendLoop = "ended"
      PROVE  UNCHANGED Abstract!vars
  BY <1>1 DEF Coming, Abstract!vars
<1>2. CASE \E p \in Packet : Send(p)
  BY <1>2, SendIsPut DEF Abstract!Next
<1>3. CASE TakePacket \/ TryNextSep \/ Arrive \/ UNCHANGED vars
  <2>1. UNCHANGED Written
    BY <1>3 DEF TakePacket, TryNextSep, Arrive, vars, Written, Laid
  <2> QED  BY <1>1, <1>3, <2>1 DEF TakePacket, TryNextSep, Arrive, vars, sending, scanning
<1>4. CASE Write
  BY <1>1, <1>4 DEF Write, Writes, scanning
<1>5. CASE WriteFails
  BY <1>5, WriteFailsIsBreak DEF Abstract!Next
<1>6. CASE SenderEnds
  <2>1. UNCHANGED Written /\ Written = Len(frames)
    BY <1>6, ReceivedWasWritten DEF SenderEnds, Written, Laid
  <2>2. Abstract!Break
    BY <1>6, <2>1, EndIsBreak DEF SenderEnds, scanning
  <2> QED  BY <2>2 DEF Abstract!Next
<1>7. CASE Scan
  BY <1>7, ScanIsGet DEF Abstract!Next
<1>8. CASE RecvFails
  <2>1. UNCHANGED Coming
    BY <1>8 DEF RecvFails, sending, Coming, Written, Laid
  <2> QED  BY <1>8, <2>1 DEF RecvFails, sending, Abstract!Next, Abstract!Close
<1> QED  BY <1>2, <1>3, <1>4, <1>5, <1>6, <1>7, <1>8 DEF Next

\* A TLS stream is a pipe of packets (Pipe): whatever its packets contain and
\* however its bytes are cut, each step of its two ends puts one packet in, takes
\* the oldest one out, breaks it for good, or is of no account to its users.
THEOREM StreamIsPipe == Spec => ImplementsPipe
<1>1. Init => Abstract!Init
  BY DEF Init, Abstract!Init, Coming, Written, Laid
<1>2. IInv /\ [Next]_vars => [Abstract!Next]_(Abstract!vars)
  BY StepIsPipeStep
<1> QED  BY <1>1, <1>2, Invariance, PTL DEF Spec, ImplementsPipe, Abstract!Spec
=============================================================================
