-------------------------------- MODULE Pipe --------------------------------
(***************************************************************************)
(* What a connection promises to those who send packets over it: they come *)
(* out at the other end once each, in their order, until it breaks.  Then  *)
(* those that were not on their way yet are lost, and no later ones come.  *)
(***************************************************************************)
EXTENDS Integers, Sequences

CONSTANT Payload    \* the packets

VARIABLES
    queue,          \* the packets that are still to come out
    received,       \* the packets that have come out
    alive,          \* is the sending end in order?
    open            \* does the receiving end still take packets?

vars == <<queue, received, alive, open>>

Init == queue = <<>> /\ received = <<>> /\ alive = TRUE /\ open = TRUE

Put(p) ==
    /\ alive
    /\ queue' = Append(queue, p)
    /\ UNCHANGED <<received, alive, open>>

Get ==
    /\ open
    /\ queue # <<>>
    /\ received' = Append(received, Head(queue))
    /\ queue' = Tail(queue)
    /\ UNCHANGED <<alive, open>>

Break ==
    /\ alive
    /\ alive' = FALSE
    /\ \E n \in 0 .. Len(queue) : queue' = SubSeq(queue, 1, n)
    /\ UNCHANGED <<received, open>>

Close ==
    /\ open
    /\ open' = FALSE
    /\ UNCHANGED <<queue, received, alive>>

Next == (\E p \in Payload : Put(p)) \/ Get \/ Break \/ Close

Spec == Init /\ [][Next]_vars
=============================================================================
