------------------------------ MODULE Flooding ------------------------------
(***************************************************************************)
(* What the flooding of link states promises, without adjacencies, packets *)
(* and acknowledgements: every node holds at most one copy of the link     *)
(* state of every owner; an owner publishes ever later versions, whatever  *)
(* it has forgotten; and a copy is only replaced by a later one that       *)
(* somebody who held it has told.  LinkStateDB implements it.              *)
(***************************************************************************)
EXTENDS Integers

CONSTANTS
    Node,
    State,         \* what a link state can say
    NoCopy         \* a node holds no copy

VARIABLES
    clock,         \* clock[o]: later than every version o has published
    held,          \* held[n][o]: n's copy of the link state of o, as n tells it
    told           \* copies that have been told and may still be heard

vars == <<clock, held, told>>

Nothing == [o \in Node |-> NoCopy]

Holds(n, o) == held[n][o] # NoCopy

\* The copy of o's link state that n can tell.
Telling(n, o) == [owner |-> o, version |-> held[n][o].version, state |-> held[n][o].state]

Init ==
    /\ clock \in [Node -> Nat]
    /\ held = [n \in Node |-> Nothing]
    /\ told = {}

\* A reading of the clock: no version below it is published any more.
Tick(o) ==
    /\ clock' = [clock EXCEPT ![o] = @ + 1]
    /\ UNCHANGED <<held, told>>

Publish(o) ==
    /\ clock' = [clock EXCEPT ![o] = @ + 1]
    /\ \E s \in State :
          held' = [held EXCEPT ![o][o] = [version |-> clock[o] + 1, state |-> s]]
    /\ UNCHANGED told

Forget(n) ==
    /\ UNCHANGED <<clock, told>>
    /\ held' = [held EXCEPT ![n] = Nothing]

\* n tells what it holds; what was told before may get lost.
Tell(n) ==
    /\ UNCHANGED <<clock, held>>
    /\ \A copy \in told' : copy \in told \/ \E o \in Node : Holds(n, o) /\ copy = Telling(n, o)

\* n hears a copy that is later than its own; or it never had one.
Learn(n, copy) ==
    /\ copy.owner # n
    /\ Holds(n, copy.owner) => held[n][copy.owner].version < copy.version
    /\ told' \subseteq told
    /\ UNCHANGED clock
    /\ held' = [held EXCEPT ![n][copy.owner] =
                  [version |-> copy.version, state |-> copy.state]]

Next ==
    \E n \in Node :
        \/ Tell(n) \/ Tick(n) \/ Publish(n) \/ Forget(n)
        \/ \E copy \in told : Learn(n, copy)

Spec == Init /\ [][Next]_vars
=============================================================================
