----------------------------- MODULE MCFraming -----------------------------
(* Framing for TLC, with three values of a byte: 0, one more, and the one that *)
(* wraps around.                                                               *)
EXTENDS Framing

CONSTANT Shape    \* lengths of packets of which all are sent

\* All short packets; and longer ones that take a carry, or two, to frame.
Longer == {<<1, 0, 2, 0>>, <<2, 0, 1, 0>>, <<0, 2, 0, 1, 1, 0>>}
Packets == UNION {[1 .. n -> Byte] : n \in Shape} \cup Longer
============================================================================
