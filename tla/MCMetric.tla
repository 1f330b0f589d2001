------------------------------ MODULE MCMetric ------------------------------
(* An instance of Metric for TLC: the round trips by r1 vary, those by r2 do not. *)
EXTENDS Metric, TLC

CONSTANTS r1, r2

RoundTrips == (r1 :> {6, 8}) @@ (r2 :> {8})

Unserved == \A r \in DOMAIN heap : heap[r].served = 0

\* When no hello is on its way and nothing waits to be flooded.
Quiet == owed = {} /\ ~pendingFlood

\* Packets are served at such times only, and between two ticks: getAdja reads and
\* writes nothing but the heap, which keeps until its next update.
MCSpec == Init /\ [][Next /\ (Unserved \/ phase' = phase) /\ (Unserved \/ Quiet)']_vars
=============================================================================
