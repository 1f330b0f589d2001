------------------------------ MODULE Framing ------------------------------
(***************************************************************************)
(* How one end of a TLS connection sends packets over a stream of bytes    *)
(* and the other end finds them again (link/stream.go).                    *)
(*                                                                         *)
(* Each packet is written between two copies of a separator that does not  *)
(* occur in it: some bytes other than 0, then a 0 (addSep, nextSep).  The  *)
(* reader takes the bytes up to the first 0 for the separator and those up *)
(* to its next occurrence for the packet (split).  TCP delivers the bytes  *)
(* in order, in portions of any size.                                      *)
(*                                                                         *)
(* stream holds every byte ever written; what has reached the buffer of    *)
(* the scanner, and what the scanner is done with, are positions in it.    *)
(***************************************************************************)
EXTENDS Integers, Sequences, FiniteSets

CONSTANTS
    Byte,          \* 0 .. Base - 1
    Base,          \* number of values of a byte
    Packet,        \* the packets that may be sent
    OutCap,        \* capacity of stream.out
    MaxPackets     \* bound of the packets the stream accepts

ASSUME ByteAssumption == Base \in Nat /\ Base > 1 /\ Byte = 0 .. Base - 1
ASSUME PacketAssumption == Packet \subseteq Seq(Byte)
ASSUME CapacityAssumption == OutCap \in Nat /\ MaxPackets \in Nat

VARIABLES
    out,           \* stream.out
    sendLoop,      \* "idle": in select; "framing": in addSep, "ended"
    packet, sep,   \* what addSep frames, and the separator it tries
    stream,        \* the bytes conn.Write has written
    arrived,       \* how many of them have got to the scanner
    scanned,       \* how many of them the scanner is done with
    reading,       \* has Recv not failed yet?
    accepted,      \* history: packets Send has put into stream.out
    frames,        \* history: where in stream the frame of each packet is
    received       \* history: packets Recv has returned

sending == <<sendLoop, packet, sep>>
scanning == <<arrived, scanned, reading, received>>
vars == <<out, sending, stream, scanning, accepted, frames>>

-----------------------------------------------------------------------------
(* Separators *)

\* Mutant: an occurrence at the very end is missed.
OccursBeforeEnd(s, p, i) ==
    /\ i + Len(s) < Len(p)
    /\ \A j \in 1 .. Len(s) : p[i + j] = s[j]

\* Does s occur in p at offset i? Offsets count from 0, as in the code.
OccursAt(s, p, i) ==
    /\ i + Len(s) <= Len(p)
    /\ \A j \in 1 .. Len(s) : p[i + j] = s[j]

\* bytes.Index(p, s) >= 0
Occurs(s, p) == \E i \in 0 .. Len(p) : OccursAt(s, p, i)

\* All bytes of s below the i-th wrap around.
Carry(s, i) == \A j \in 1 .. i - 1 : s[j] = Base - 1

\* Mutant: a byte that wraps around becomes 0.
NextSepWithZeros(s) ==
    LET next == [i \in 1 .. Len(s) |-> IF Carry(s, i) THEN (s[i] + 1) % Base ELSE s[i]]
    IN  IF next[Len(s)] = 0 THEN next ELSE Append(next, 0)

\* Mutant: the separators of one length start over.
NextSepWithoutCarry(s) ==
    IF s = <<0>> THEN <<1, 0>>
    ELSE [s EXCEPT ![1] = IF @ = Base - 1 THEN 1 ELSE @ + 1]

\* nextSep: count on in the bytes before the last 0, the first of them lowest and
\* none of them 0. A carry into the 0 makes the separator longer.
NextSep(s) ==
    LET next == [i \in 1 .. Len(s) |->
                    IF ~Carry(s, i) THEN s[i]
                    ELSE IF s[i] = Base - 1 THEN 1 ELSE s[i] + 1]
    IN  IF next[Len(s)] = 0 THEN next ELSE Append(next, 0)

Frame == sep \o packet \o sep

-----------------------------------------------------------------------------
Init ==
    /\ out = <<>>
    /\ sendLoop = "idle" /\ packet = <<>> /\ sep = <<>>
    /\ stream = <<>>
    /\ arrived = 0 /\ scanned = 0
    /\ reading = TRUE
    /\ accepted = <<>> /\ frames = <<>> /\ received = <<>>

\* Send: a packet is dropped when out is full.
Send(p) ==
    /\ Len(out) < OutCap
    /\ Len(accepted) < MaxPackets
    /\ out' = Append(out, p)
    /\ accepted' = Append(accepted, p)
    /\ UNCHANGED <<sending, stream, scanning, frames>>

\* case packet := <-d.out
TakePacket ==
    /\ sendLoop = "idle"
    /\ out # <<>>
    /\ out' = Tail(out)
    /\ sendLoop' = "framing" /\ packet' = Head(out) /\ sep' = <<0>>
    /\ UNCHANGED <<stream, scanning, accepted, frames>>

\* The loop of addSep goes on.
TryNextSep ==
    /\ sendLoop = "framing"
    /\ Occurs(sep, packet)
    /\ sep' = NextSep(sep)
    /\ UNCHANGED <<out, sendLoop, packet, stream, scanning, accepted, frames>>

\* addSep returns, and conn.Write writes n bytes of the frame.
Writes(n) ==
    /\ sendLoop = "framing"
    /\ ~Occurs(sep, packet)
    /\ stream' = stream \o SubSeq(Frame, 1, n)
    /\ frames' = Append(frames, [at |-> Len(stream), packet |-> packet, sep |-> sep])
    /\ packet' = <<>> /\ sep' = <<>>
    /\ UNCHANGED <<out, scanning, accepted>>

Write == Writes(Len(Frame)) /\ sendLoop' = "idle"

\* Mutant: an error of conn.Write is not looked at.
WriteFailsUnseen == (\E n \in 0 .. Len(Frame) - 1 : Writes(n)) /\ sendLoop' = "idle"

\* conn.Write fails after a part of the frame, if anything: sendLoop returns.
WriteFails == (\E n \in 0 .. Len(Frame) - 1 : Writes(n)) /\ sendLoop' = "ended"

\* case <-d.ctx.Done(): whatever has cancelled the connection.
SenderEnds ==
    /\ sendLoop = "idle"
    /\ sendLoop' = "ended"
    /\ UNCHANGED <<out, packet, sep, stream, scanning, accepted, frames>>

-----------------------------------------------------------------------------
(* The reader *)

Buffer == SubSeq(stream, scanned + 1, arrived)

\* split: where in the data the first packet starts and ends, if it is complete.
\* The first 0 ends the separator, the next occurrence of that ends the packet.
Tokens(data) ==
    {t \in [start : 1 .. Len(data), end : 0 .. Len(data)] :
        /\ \A i \in 1 .. t.start : data[i] = 0 <=> i = t.start
        /\ t.end >= t.start
        /\ OccursAt(SubSeq(data, 1, t.start), data, t.end)
        /\ \A i \in t.start .. t.end - 1 : ~OccursAt(SubSeq(data, 1, t.start), data, i)}

\* Bytes arrive, when the scanner has found no packet in its buffer.
Arrive ==
    /\ reading
    /\ Tokens(Buffer) = {}
    /\ arrived' \in arrived + 1 .. Len(stream)
    /\ UNCHANGED <<out, sending, stream, scanned, reading, accepted, frames, received>>

\* Mutant: Recv goes on with what the buffer holds, after an error.
ScanAfterError ==
    /\ \E t \in Tokens(Buffer) :
          /\ received' = Append(received, SubSeq(Buffer, t.start + 1, t.end))
          /\ scanned' = scanned + t.end + t.start
    /\ UNCHANGED <<out, sending, stream, arrived, reading, accepted, frames>>

\* Scan returns true: Recv has a packet.
Scan ==
    /\ reading
    /\ \E t \in Tokens(Buffer) :
          /\ received' = Append(received, SubSeq(Buffer, t.start + 1, t.end))
          /\ scanned' = scanned + t.end + t.start
    /\ UNCHANGED <<out, sending, stream, arrived, reading, accepted, frames>>

\* The connection was closed, has failed, or was silent until the read deadline:
\* Scan returns false, Recv an error. What the buffer holds is given up.
RecvFails ==
    /\ reading
    /\ reading' = FALSE
    /\ UNCHANGED <<out, sending, stream, arrived, scanned, accepted, frames, received>>

Next ==
    \/ \E p \in Packet : Send(p)
    \/ TakePacket \/ TryNextSep \/ Write \/ WriteFails \/ SenderEnds
    \/ Arrive \/ Scan \/ RecvFails

Spec == Init /\ [][Next]_vars

-----------------------------------------------------------------------------
(* Safety *)

\* Recv returns the packets given to Send, whole and in their order: whatever the
\* packets contain, wherever the stream is cut into portions and wherever it ends,
\* no packet is split, joined to another or found across a border (addSep, split).
ReceivedWhatWasSent ==
    /\ Len(received) <= Len(accepted)
    /\ \A i \in 1 .. Len(received) : received[i] = accepted[i]

-----------------------------------------------------------------------------
(* Why: an inductive invariant *)

\* What nextSep makes: no 0 but the last byte.
IsSep(s) ==
    /\ s \in Seq(Byte)
    /\ Len(s) > 0
    /\ \A i \in 1 .. Len(s) : s[i] = 0 <=> i = Len(s)

FrameLen(f) == Len(f.sep) + Len(f.packet) + Len(f.sep)
EndOf(f) == f.at + FrameLen(f)

\* The byte of the frame f at position k, counting from 1.
FrameByte(f, k) ==
    IF k <= Len(f.sep) THEN f.sep[k]
    ELSE IF k <= Len(f.sep) + Len(f.packet) THEN f.packet[k - Len(f.sep)]
    ELSE f.sep[k - Len(f.sep) - Len(f.packet)]

TypeOK ==
    /\ out \in Seq(Packet)
    /\ sendLoop \in {"idle", "framing", "ended"}
    /\ packet \in Seq(Byte)
    /\ sep \in Seq(Byte)
    /\ sendLoop = "framing" => packet \in Packet /\ IsSep(sep)
    /\ stream \in Seq(Byte)
    /\ arrived \in 0 .. Len(stream) /\ scanned \in 0 .. arrived
    /\ reading \in BOOLEAN
    /\ accepted \in Seq(Packet)
    /\ frames \in Seq([at : Nat, packet : Packet, sep : Seq(Byte)])
    /\ received \in Seq(Seq(Byte))

\* The packets accepted are those in a frame, the one in hand and those in out.
InHand == IF sendLoop = "framing" THEN 1 ELSE 0

Order ==
    /\ Len(accepted) = Len(frames) + InHand + Len(out)
    /\ \A i \in 1 .. Len(frames) : accepted[i] = frames[i].packet
    /\ sendLoop = "framing" => accepted[Len(frames) + 1] = packet
    /\ \A i \in 1 .. Len(out) : accepted[Len(frames) + InHand + i] = out[i]

\* The end of the last frame, were it complete.
Laid == IF frames = <<>> THEN 0 ELSE EndOf(frames[Len(frames)])

\* The frames follow each other in the stream. Only the last one may be incomplete,
\* and then the sender has ended.
Layout ==
    /\ \A i \in 1 .. Len(frames) :
          /\ IsSep(frames[i].sep)
          /\ ~Occurs(frames[i].sep, frames[i].packet)
          /\ frames[i].at <= Len(stream)
          /\ i > 1 => frames[i].at = EndOf(frames[i - 1])
          /\ \A k \in 1 .. FrameLen(frames[i]) :
                frames[i].at + k <= Len(stream) =>
                    stream[frames[i].at + k] = FrameByte(frames[i], k)
    /\ frames # <<>> => frames[1].at = 0
    /\ Len(stream) <= Laid
    /\ sendLoop # "ended" => Len(stream) = Laid

\* The scanner stands at the border of two frames.
Aligned ==
    /\ Len(received) <= Len(frames)
    /\ \A i \in 1 .. Len(received) : received[i] = frames[i].packet
    /\ scanned = IF received = <<>> THEN 0 ELSE EndOf(frames[Len(received)])

IInv == TypeOK /\ Order /\ Layout /\ Aligned

\* A packet whose frame has arrived to its end is found: the separator that ends it is
\* not missed for one that seems to start earlier, and split waits for no bytes that
\* follow it (split, with nextSep and addSep).
CompleteIsFound ==
    LET n == Len(received) + 1
    IN  n <= Len(frames) /\ EndOf(frames[n]) <= arrived => Tokens(Buffer) # {}

-----------------------------------------------------------------------------
(* A stream is a pipe *)

\* How many frames have been written to the end.
Written == IF Len(stream) = Laid THEN Len(frames) ELSE Len(frames) - 1

\* The packets that are to be received: of those accepted, when sendLoop has ended,
\* only the ones it has written.
Coming ==
    SubSeq(accepted, Len(received) + 1,
           IF sendLoop = "ended" THEN Written ELSE Len(accepted))

Abstract == INSTANCE Pipe
    WITH Payload <- Packet, queue <- Coming, alive <- sendLoop # "ended", open <- reading

\* Every step does to the packets what a step of a pipe does, or nothing: Recv
\* returns the oldest packet that is on its way, a failed write or the end of
\* sendLoop loses the ones after some packet for good, and nothing else does; after
\* its first error Recv returns no packet.
ImplementsPipe == Abstract!Spec

-----------------------------------------------------------------------------
(* Liveness *)

\* The runtime schedules sendLoop and the reader, TCP delivers what was written.
Fairness ==
    /\ WF_vars(TakePacket) /\ WF_vars(TryNextSep) /\ WF_vars(Write)
    /\ WF_vars(Arrive) /\ WF_vars(Scan)

FairSpec == Spec /\ Fairness

\* A packet that Send has not dropped is received, unless the connection ends:
\* addSep finds a separator for every packet, and no packet waits in the buffer
\* for bytes that follow it.
AcceptedIsReceived ==
    \A i \in 1 .. MaxPackets :
        Len(accepted) >= i ~> (Len(received) >= i \/ sendLoop = "ended" \/ ~reading)
=============================================================================
