-------------------------- MODULE LifecycleProofs --------------------------
(***************************************************************************)
(* Proofs about Lifecycle: whatever ends a VPN, Stop returns only when     *)
(* every goroutine has, for any number of TLS connections and any          *)
(* capacities of the channels.                                             *)
(***************************************************************************)
EXTENDS Lifecycle, FiniteSetTheorems, TLAPS

-----------------------------------------------------------------------------
(* The names of the goroutines *)

\* The goroutines of the connections, by kind.
LEMMA Names ==
    /\ Caller \in Goroutine /\ Loops \subseteq Goroutine
    /\ \A l \in Link : {<<"recv", l>>, <<"hello", l>>, <<"watch", l>>} \subseteq Goroutine
BY DEF Goroutine, Caller, Loops

\* No two goroutines have the same name.
LEMMA Distinct ==
    /\ \A l \in Link : \A g \in {Caller} \cup Loops :
          g \notin {<<"recv", l>>, <<"hello", l>>, <<"watch", l>>}
    /\ Caller \notin Loops
    /\ <<"ospf">> \notin {<<"router">>, <<"socket">>, <<"dialer">>, <<"listener">>}
    /\ <<"dialer">> \notin {<<"router">>, <<"socket">>, <<"listener">>}
    /\ <<"router">> # <<"socket">>
    /\ \A l, k \in Link :
          /\ <<"recv", l>> \notin {<<"hello", k>>, <<"watch", k>>}
          /\ <<"hello", l>> # <<"watch", k>>
          /\ l # k => <<"recv", l>> # <<"recv", k>> /\ <<"hello", l>> # <<"hello", k>>
BY DEF Caller, Loops

\* There are finitely many goroutines, because there are finitely many connections.
LEMMA FiniteGoroutines == IsFiniteSet(Goroutine)
<1>1. \A S, x : IsFiniteSet(S) => IsFiniteSet(S \cup {x})
  BY FS_AddElement
<1>2. \A x : IsFiniteSet({x})
  BY FS_Singleton
<1>3. IsFiniteSet({"recv", "hello", "watch"})
  <2>1. IsFiniteSet(({"recv"} \cup {"hello"}) \cup {"watch"})
    BY ONLY <1>1, <1>2
  <2>2. {"recv", "hello", "watch"} = ({"recv"} \cup {"hello"}) \cup {"watch"}
    OBVIOUS
  <2> QED
    BY <2>1, <2>2
<1>4. IsFiniteSet({"recv", "hello", "watch"} \X Link)
  BY <1>3, FS_Product, LinkAssumption
<1>5. IsFiniteSet(Loops)
  <2>1. IsFiniteSet(((({<<"ospf">>} \cup {<<"router">>}) \cup {<<"socket">>}) \cup {<<"dialer">>})
                      \cup {<<"listener">>})
    BY ONLY <1>1, <1>2
  <2>2. Loops = ((({<<"ospf">>} \cup {<<"router">>}) \cup {<<"socket">>}) \cup {<<"dialer">>})
                  \cup {<<"listener">>}
    BY DEF Loops
  <2> QED
    BY <2>1, <2>2
<1> QED
  BY <1>2, <1>4, <1>5, FS_Union DEF Goroutine

-----------------------------------------------------------------------------
(* The wait group *)

\* Go, Loop and OnCancel keep the wait group equal to the number of goroutines that
\* run, when only goroutines that run return.
LEMMA BecomeKeeps ==
    ASSUME pc \in [Goroutine -> State], wg \in Nat, WaitGroup, NEW next,
           \A g \in DOMAIN next :
              /\ g \in Goroutine
              /\ next[g] \in State
              /\ g # Caller => /\ next[g] # "none"
                               /\ pc[g] # "done"
                               /\ pc[g] = "none" => next[g] # "done",
           Become(next)
    PROVE  /\ pc' = [g \in Goroutine |-> IF g \in DOMAIN next THEN next[g] ELSE pc[g]]
           /\ pc' \in [Goroutine -> State]
           /\ wg' \in Nat
           /\ WaitGroup'
<1> DEFINE R == {g \in Goroutine : Counted(g) /\ Running(g)}
           C == {g \in DOMAIN next : Counted(g)}
           S == {g \in C : pc[g] = "none"}
           E == {g \in C : next[g] = "done"}
<1>1. pc' = [g \in Goroutine |-> IF g \in DOMAIN next THEN next[g] ELSE pc[g]]
  BY DEF Become
<1>2. pc' \in [Goroutine -> State]
  BY <1>1
<1>3. wg' = wg + Cardinality(S) - Cardinality(E)
  BY DEF Become
<1>4. R' = (R \cup S) \ E
  BY <1>1, <1>2 DEF Counted, Running, State
<1>5. R \cap S = {} /\ (R \cup S) \cap E = E
  BY DEF Counted, Running, State
<1>6. IsFiniteSet(R) /\ IsFiniteSet(S) /\ IsFiniteSet(E)
  BY FiniteGoroutines, FS_Subset, R \subseteq Goroutine, S \subseteq Goroutine, E \subseteq Goroutine
<1>7. wg = Cardinality(R)
  BY DEF WaitGroup
<1> HIDE DEF R, S, E
<1>8. /\ IsFiniteSet(R \cup S)
      /\ Cardinality(R \cup S) = Cardinality(R) + Cardinality(S) - Cardinality({})
  BY <1>5, <1>6, FS_Union
<1>9. /\ IsFiniteSet((R \cup S) \ E)
      /\ Cardinality((R \cup S) \ E) = Cardinality(R \cup S) - Cardinality(E)
  <2> DEFINE T == R \cup S
  <2>1. IsFiniteSet(T) /\ T \cap E = E
    BY <1>5, <1>8
  <2> HIDE DEF T
  <2>2. IsFiniteSet(T \ E) /\ Cardinality(T \ E) = Cardinality(T) - Cardinality(E)
    BY <2>1, FS_Difference
  <2> QED
    BY <2>2 DEF T
<1>10. /\ Cardinality({}) = 0
       /\ Cardinality(R) \in Nat /\ Cardinality(S) \in Nat /\ Cardinality(E) \in Nat
       /\ Cardinality((R \cup S) \ E) \in Nat
  BY <1>6, <1>9, FS_EmptySet, FS_CardinalityType
<1>11. wg' = Cardinality((R \cup S) \ E)
  BY <1>3, <1>7, <1>8, <1>9, <1>10
<1>12. WaitGroup'
  BY <1>4, <1>11 DEF WaitGroup, R
<1> QED
  BY <1>1, <1>2, <1>10, <1>11, <1>12

-----------------------------------------------------------------------------
(* One step *)

\* The part of the type invariant that no other part of the invariant mentions.
Others ==
    /\ cancelled \in BOOLEAN
    /\ failed \subseteq Link
    /\ in \in 0 .. InCap
    /\ out \in 0 .. OutCap
    /\ queue \in 0 .. QueueCap
    /\ socketQueue \in 0 .. SocketCap

\* Nobody runs once Stop has returned.
LEMMA NotStopped ==
    ASSUME IInv, NEW g \in Goroutine \ {Caller}, Running(g)
    PROVE  main # "stopped"
BY DEF IInv, QuietAfterStop, AllEnded

\* The invariant is kept by whoever moves goroutines on before Stop has returned.
LEMMA Moves ==
    ASSUME IInv, Others', platform' = platform, main' \in Phase \ {"stopped"},
           burst' \in 0 .. Burst, peer' \in Link \cup {NoLink}, 
           Starting', Dialed', Sending', NEW next,
           \A g \in DOMAIN next :
              /\ g \in Goroutine
              /\ next[g] \in State
              /\ g # Caller => /\ next[g] # "none"
                               /\ pc[g] # "done"
                               /\ pc[g] = "none" => next[g] # "done",
           Become(next)
    PROVE  IInv'
<1>1. pc \in [Goroutine -> State] /\ wg \in Nat /\ WaitGroup /\ platform \in Platform
  BY DEF IInv, TypeOK
<1>2. pc' \in [Goroutine -> State] /\ wg' \in Nat /\ WaitGroup'
  BY <1>1, BecomeKeeps
<1>3. TypeOK'
  BY <1>1, <1>2 DEF TypeOK, Others
<1>4. QuietAfterStop'
  BY DEF QuietAfterStop
<1> QED
  BY <1>2, <1>3, <1>4 DEF IInv

\* A goroutine that runs goes on; the dialer and the "ospf" have nothing more to send.
LEMMA GoesOn ==
    ASSUME IInv, Others', UNCHANGED <<platform, main, burst, peer>>,
           NEW g \in Goroutine \ {Caller}, NEW s \in State \ {"none"},
           Running(g), Goes(g, s),
           g = <<"dialer">> => s \in {"dial", "done"},
           g = <<"ospf">> => s # "put"
    PROVE  IInv'
<1> DEFINE next == [h \in {g} |-> s]
<1>1. /\ pc \in [Goroutine -> State] /\ burst \in 0 .. Burst /\ peer \in Link \cup {NoLink}
      /\ main \in Phase
  BY DEF IInv, TypeOK
<1>2. Become(next)
  BY DEF Goes
<1>3. \A h \in Goroutine : pc'[h] = IF h = g THEN s ELSE pc[h]
  BY <1>2 DEF Become
<1>4. pc[g] \notin {"none", "done"}
  BY DEF Running
<1>5. main # "stopped"
  BY NotStopped
<1>6. Dialed'
  <2>1. /\ \A l \in Link : pc[<<"recv", l>>] = "none" => pc[<<"hello", l>>] = "none"
        /\ pc[<<"dialer">>] \in {"put", "wait"} => peer \in Link
        /\ pc[<<"dialer">>] = "put" => /\ pc[<<"recv", peer>>] # "none"
                                      /\ pc[<<"hello", peer>>] = "none"
    BY DEF IInv, Dialed
  <2>2. \A l \in Link :
           /\ pc'[<<"recv", l>>] = "none" <=> pc[<<"recv", l>>] = "none"
           /\ pc'[<<"hello", l>>] = "none" <=> pc[<<"hello", l>>] = "none"
    BY <1>3, <1>4, Names
  <2>3. pc'[<<"dialer">>] \in {"put", "wait"} => pc'[<<"dialer">>] = pc[<<"dialer">>]
    BY <1>3, Names DEF Loops
  <2> QED
    BY <2>1, <2>2, <2>3 DEF Dialed
<1>7. Sending'
  BY <1>3, Names DEF IInv, Sending, Loops
<1>8. Starting'
  BY <1>3, <1>4, Names DEF IInv, Starting, Loops
<1>9. \A h \in DOMAIN next :
         /\ h \in Goroutine
         /\ next[h] \in State
         /\ h # Caller => /\ next[h] # "none"
                          /\ pc[h] # "done"
                          /\ pc[h] = "none" => next[h] # "done"
  BY <1>4
<1> HIDE DEF next
<1> QED
  BY <1>1, <1>2, <1>5, <1>6, <1>7, <1>8, <1>9, Moves

\* A handler of the "ospf" has sent a packet or has still to send some; the watchers it
\* starts had not started.
LEMMA Handles ==
    ASSUME IInv, Others', UNCHANGED <<platform, main, peer>>,
           pc[<<"ospf">>] \in {"wait", "put"},
           NEW n \in 0 .. Burst, NEW W \in SUBSET ({"watch"} \X Link),
           \A g \in W : pc[g] = "none",
           OspfHandles(n, W)
    PROVE  IInv'
<1> DEFINE next == [g \in {<<"ospf">>} \cup W |->
               IF g # <<"ospf">> THEN "wait" ELSE IF n = 0 THEN Again("wait") ELSE "put"]
<1>1. /\ pc \in [Goroutine -> State] /\ peer \in Link \cup {NoLink} /\ main \in Phase
      /\ Burst \in Nat
  BY CapacityAssumption DEF IInv, TypeOK
<1>2. Become(next) /\ burst' = n
  BY DEF OspfHandles
<1>3. /\ \A h \in Goroutine : h \notin {<<"ospf">>} \cup W => pc'[h] = pc[h]
      /\ pc'[<<"ospf">>] = IF n = 0 THEN Again("wait") ELSE "put"
  BY <1>2, Names DEF Become, Loops
<1>4. \A g \in W : g \in Goroutine /\ g # Caller /\ g # <<"ospf">> /\ \E l \in Link : g = <<"watch", l>>
  BY DEF Goroutine, Caller
<1>5. main # "stopped"
  BY NotStopped, Names, Distinct DEF Running, Loops
<1>6. Dialed'
  <2>1. \A l \in Link : /\ pc'[<<"recv", l>>] = pc[<<"recv", l>>]
                        /\ pc'[<<"hello", l>>] = pc[<<"hello", l>>]
    BY <1>3, <1>4, Names, Distinct DEF Loops
  <2>2. pc'[<<"dialer">>] = pc[<<"dialer">>]
    BY <1>3, <1>4, Names, Distinct DEF Loops
  <2> QED
    BY <2>1, <2>2 DEF IInv, Dialed
<1>7. Sending'
  BY <1>2, <1>3 DEF Sending, Again
<1>8. Starting'
  BY <1>3, <1>4, Names, Distinct DEF IInv, Starting, Loops
<1>9. \A h \in DOMAIN next :
         /\ h \in Goroutine
         /\ next[h] \in State
         /\ h # Caller => /\ next[h] # "none"
                          /\ pc[h] # "done"
                          /\ pc[h] = "none" => next[h] # "done"
  BY <1>4, Names DEF Again, State, Loops
<1>10. burst' \in 0 .. Burst
  BY <1>2
<1> HIDE DEF next
<1> QED
  BY <1>1, <1>2, <1>5, <1>6, <1>7, <1>8, <1>9, <1>10, Moves

-----------------------------------------------------------------------------
(* The steps *)

\* The router.
LEMMA RouterKeeps ==
    ASSUME IInv, RouterTakesOut \/ RouterTakesPacket \/ RouterInjects \/ RouterTakesFromSocket \/ LoopEnds(<<"router">>)
    PROVE  IInv'
<1> USE CapacityAssumption DEF IInv, TypeOK, Others, Running, State, Again, chans, conns
<1>1. CASE RouterTakesOut
  <2>1. Others' /\ UNCHANGED <<platform, main, burst, peer>>
    BY <1>1 DEF RouterTakesOut
  <2>2. <<"router">> \in Goroutine \ {Caller} /\ Running(<<"router">>)
    BY <1>1, Names, Distinct DEF RouterTakesOut, Loops
  <2>3. \E s \in {"wait", "done"} : Goes(<<"router">>, s)
    BY <1>1 DEF RouterTakesOut
  <2> QED
    BY <2>1, <2>2, <2>3, GoesOn, Distinct DEF Loops
<1>2. CASE RouterTakesPacket
  <2>1. Others' /\ UNCHANGED <<platform, main, burst, peer>>
    BY <1>2 DEF RouterTakesPacket
  <2>2. <<"router">> \in Goroutine \ {Caller} /\ Running(<<"router">>)
    BY <1>2, Names, Distinct DEF RouterTakesPacket, Loops
  <2>3. \E s \in {"inject", "wait", "done"} : Goes(<<"router">>, s)
    BY <1>2 DEF RouterTakesPacket
  <2> QED
    BY <2>1, <2>2, <2>3, GoesOn, Distinct DEF Loops
<1>3. CASE RouterInjects
  <2>1. Others' /\ UNCHANGED <<platform, main, burst, peer>>
    BY <1>3 DEF RouterInjects
  <2>2. <<"router">> \in Goroutine \ {Caller} /\ Running(<<"router">>)
    BY <1>3, Names, Distinct DEF RouterInjects, Loops
  <2>3. \E s \in {"wait", "done"} : Goes(<<"router">>, s)
    BY <1>3 DEF RouterInjects
  <2> QED
    BY <2>1, <2>2, <2>3, GoesOn, Distinct DEF Loops
<1>4. CASE RouterTakesFromSocket
  <2>1. Others' /\ UNCHANGED <<platform, main, burst, peer>>
    BY <1>4 DEF RouterTakesFromSocket
  <2>2. <<"router">> \in Goroutine \ {Caller} /\ Running(<<"router">>)
    BY <1>4, Names, Distinct DEF RouterTakesFromSocket, Loops
  <2>3. \E s \in {"wait", "done"} : Goes(<<"router">>, s)
    BY <1>4 DEF RouterTakesFromSocket
  <2> QED
    BY <2>1, <2>2, <2>3, GoesOn, Distinct DEF Loops
<1>5. CASE LoopEnds(<<"router">>)
  <2>1. Others' /\ UNCHANGED <<platform, main, burst, peer>>
    BY <1>5 DEF LoopEnds
  <2>2. <<"router">> \in Goroutine \ {Caller} /\ Running(<<"router">>)
    BY <1>5, Names, Distinct DEF LoopEnds, Loops
  <2>3. \E s \in {"done"} : Goes(<<"router">>, s)
    BY <1>5 DEF LoopEnds
  <2> QED
    BY <2>1, <2>2, <2>3, GoesOn, Distinct DEF Loops
<1> QED
  BY <1>1, <1>2, <1>3, <1>4, <1>5

\* The reader of the tun device.
LEMMA SocketKeeps ==
    ASSUME IInv, SocketReads \/ SocketPuts \/ SocketEnds
    PROVE  IInv'
<1> USE CapacityAssumption DEF IInv, TypeOK, Others, Running, State, Again, chans, conns
<1>1. CASE SocketReads
  <2>1. Others' /\ UNCHANGED <<platform, main, burst, peer>>
    BY <1>1 DEF SocketReads
  <2>2. <<"socket">> \in Goroutine \ {Caller} /\ Running(<<"socket">>)
    BY <1>1, Names, Distinct DEF SocketReads, Loops
  <2>3. \E s \in {"put"} : Goes(<<"socket">>, s)
    BY <1>1 DEF SocketReads
  <2> QED
    BY <2>1, <2>2, <2>3, GoesOn, Distinct DEF Loops
<1>2. CASE SocketPuts
  <2>1. Others' /\ UNCHANGED <<platform, main, burst, peer>>
    BY <1>2 DEF SocketPuts
  <2>2. <<"socket">> \in Goroutine \ {Caller} /\ Running(<<"socket">>)
    BY <1>2, Names, Distinct DEF SocketPuts, Loops
  <2>3. \E s \in {"wait", "done"} : Goes(<<"socket">>, s)
    BY <1>2 DEF SocketPuts
  <2> QED
    BY <2>1, <2>2, <2>3, GoesOn, Distinct DEF Loops
<1>3. CASE SocketEnds
  <2>1. Others' /\ UNCHANGED <<platform, main, burst, peer>>
    BY <1>3 DEF SocketEnds
  <2>2. <<"socket">> \in Goroutine \ {Caller} /\ Running(<<"socket">>)
    BY <1>3, Names, Distinct DEF SocketEnds, Loops
  <2>3. \E s \in {"wait", "done"} : Goes(<<"socket">>, s)
    BY <1>3 DEF SocketEnds
  <2> QED
    BY <2>1, <2>2, <2>3, GoesOn, Distinct DEF Loops
<1> QED
  BY <1>1, <1>2, <1>3

\* The dialer, when there is no new connection, and the "ospf" at its end.
LEMMA DialerWaits ==
    ASSUME IInv, DialerRedials \/ DialerEnds \/ LoopEnds(<<"ospf">>)
    PROVE  IInv'
<1> USE CapacityAssumption DEF IInv, TypeOK, Others, Running, State, Again, chans, conns
<1>1. CASE DialerRedials
  <2>1. Others' /\ UNCHANGED <<platform, main, burst, peer>>
    BY <1>1 DEF DialerRedials
  <2>2. <<"dialer">> \in Goroutine \ {Caller} /\ Running(<<"dialer">>)
    BY <1>1, Names, Distinct DEF DialerRedials, Loops
  <2>3. \E s \in {"dial", "done"} : Goes(<<"dialer">>, s)
    BY <1>1 DEF DialerRedials
  <2> QED
    BY <2>1, <2>2, <2>3, GoesOn, Distinct DEF Loops
<1>2. CASE DialerEnds
  <2>1. Others' /\ UNCHANGED <<platform, main, burst, peer>>
    BY <1>2 DEF DialerEnds
  <2>2. <<"dialer">> \in Goroutine \ {Caller} /\ Running(<<"dialer">>)
    BY <1>2, Names, Distinct DEF DialerEnds, Loops
  <2>3. \E s \in {"done"} : Goes(<<"dialer">>, s)
    BY <1>2 DEF DialerEnds
  <2> QED
    BY <2>1, <2>2, <2>3, GoesOn, Distinct DEF Loops
<1>3. CASE LoopEnds(<<"ospf">>)
  <2>1. Others' /\ UNCHANGED <<platform, main, burst, peer>>
    BY <1>3 DEF LoopEnds
  <2>2. <<"ospf">> \in Goroutine \ {Caller} /\ Running(<<"ospf">>)
    BY <1>3, Names, Distinct DEF LoopEnds, Loops
  <2>3. \E s \in {"done"} : Goes(<<"ospf">>, s)
    BY <1>3 DEF LoopEnds
  <2> QED
    BY <2>1, <2>2, <2>3, GoesOn, Distinct DEF Loops
<1> QED
  BY <1>1, <1>2, <1>3

\* The listener, when it has no connection of a peer.
LEMMA ListenerKeeps ==
    ASSUME IInv, Accept \/ Visited \/ AcceptFails
    PROVE  IInv'
<1> USE CapacityAssumption DEF IInv, TypeOK, Others, Running, State, Again, chans, conns
<1>1. CASE Accept
  <2>1. Others' /\ UNCHANGED <<platform, main, burst, peer>>
    BY <1>1 DEF Accept
  <2>2. <<"listener">> \in Goroutine \ {Caller} /\ Running(<<"listener">>)
    BY <1>1, Names, Distinct DEF Accept, Loops
  <2>3. \E s \in {"handshake"} : Goes(<<"listener">>, s)
    BY <1>1 DEF Accept
  <2> QED
    BY <2>1, <2>2, <2>3, GoesOn, Distinct DEF Loops
<1>2. CASE Visited
  <2>1. Others' /\ UNCHANGED <<platform, main, burst, peer>>
    BY <1>2 DEF Visited
  <2>2. <<"listener">> \in Goroutine \ {Caller} /\ Running(<<"listener">>)
    BY <1>2, Names, Distinct DEF Visited, Loops
  <2>3. \E s \in {"wait", "done"} : Goes(<<"listener">>, s)
    BY <1>2 DEF Visited
  <2> QED
    BY <2>1, <2>2, <2>3, GoesOn, Distinct DEF Loops
<1>3. CASE AcceptFails
  <2>1. Others' /\ UNCHANGED <<platform, main, burst, peer>>
    BY <1>3 DEF AcceptFails
  <2>2. <<"listener">> \in Goroutine \ {Caller} /\ Running(<<"listener">>)
    BY <1>3, Names, Distinct DEF AcceptFails, Loops
  <2>3. \E s \in {"done"} : Goes(<<"listener">>, s)
    BY <1>3 DEF AcceptFails
  <2> QED
    BY <2>1, <2>2, <2>3, GoesOn, Distinct DEF Loops
<1> QED
  BY <1>1, <1>2, <1>3

\* The goroutines of a connection.
LEMMA ConnectionKeeps ==
    ASSUME IInv, NEW l \in Link,
           Recv(l) \/ RecvPuts(l) \/ RecvFails(l) \/ HelloTicks(l) \/ HelloPuts(l) \/ HelloEnds(l) \/ WatchWakes(l) \/ WatchEnds(l)
    PROVE  IInv'
<1> USE CapacityAssumption DEF IInv, TypeOK, Others, Running, State, Again, chans, conns
<1>1. CASE Recv(l)
  <2>1. Others' /\ UNCHANGED <<platform, main, burst, peer>>
    BY <1>1 DEF Recv
  <2>2. <<"recv", l>> \in Goroutine \ {Caller} /\ Running(<<"recv", l>>)
    BY <1>1, Names, Distinct DEF Recv, Loops
  <2>3. \E s \in {"put"} : Goes(<<"recv", l>>, s)
    BY <1>1 DEF Recv
  <2> QED
    BY <2>1, <2>2, <2>3, GoesOn, Distinct DEF Loops
<1>2. CASE RecvPuts(l)
  <2>1. Others' /\ UNCHANGED <<platform, main, burst, peer>>
    BY <1>2 DEF RecvPuts
  <2>2. <<"recv", l>> \in Goroutine \ {Caller} /\ Running(<<"recv", l>>)
    BY <1>2, Names, Distinct DEF RecvPuts, Loops
  <2>3. \E s \in {"wait", "done"} : Goes(<<"recv", l>>, s)
    BY <1>2 DEF RecvPuts
  <2> QED
    BY <2>1, <2>2, <2>3, GoesOn, Distinct DEF Loops
<1>3. CASE RecvFails(l)
  <2>1. Others' /\ UNCHANGED <<platform, main, burst, peer>>
    BY <1>3 DEF RecvFails
  <2>2. <<"recv", l>> \in Goroutine \ {Caller} /\ Running(<<"recv", l>>)
    BY <1>3, Names, Distinct DEF RecvFails, Loops
  <2>3. \E s \in {"done"} : Goes(<<"recv", l>>, s)
    BY <1>3 DEF RecvFails
  <2> QED
    BY <2>1, <2>2, <2>3, GoesOn, Distinct DEF Loops
<1>4. CASE HelloTicks(l)
  <2>1. Others' /\ UNCHANGED <<platform, main, burst, peer>>
    BY <1>4 DEF HelloTicks
  <2>2. <<"hello", l>> \in Goroutine \ {Caller} /\ Running(<<"hello", l>>)
    BY <1>4, Names, Distinct DEF HelloTicks, Loops
  <2>3. \E s \in {"put"} : Goes(<<"hello", l>>, s)
    BY <1>4 DEF HelloTicks
  <2> QED
    BY <2>1, <2>2, <2>3, GoesOn, Distinct DEF Loops
<1>5. CASE HelloPuts(l)
  <2>1. Others' /\ UNCHANGED <<platform, main, burst, peer>>
    BY <1>5 DEF HelloPuts
  <2>2. <<"hello", l>> \in Goroutine \ {Caller} /\ Running(<<"hello", l>>)
    BY <1>5, Names, Distinct DEF HelloPuts, Loops
  <2>3. \E s \in {"wait"} : Goes(<<"hello", l>>, s)
    BY <1>5 DEF HelloPuts
  <2> QED
    BY <2>1, <2>2, <2>3, GoesOn, Distinct DEF Loops
<1>6. CASE HelloEnds(l)
  <2>1. Others' /\ UNCHANGED <<platform, main, burst, peer>>
    BY <1>6 DEF HelloEnds
  <2>2. <<"hello", l>> \in Goroutine \ {Caller} /\ Running(<<"hello", l>>)
    BY <1>6, Names, Distinct DEF HelloEnds, Loops
  <2>3. \E s \in {"done"} : Goes(<<"hello", l>>, s)
    BY <1>6 DEF HelloEnds
  <2> QED
    BY <2>1, <2>2, <2>3, GoesOn, Distinct DEF Loops
<1>7. CASE WatchWakes(l)
  <2>1. Others' /\ UNCHANGED <<platform, main, burst, peer>>
    BY <1>7 DEF WatchWakes
  <2>2. <<"watch", l>> \in Goroutine \ {Caller} /\ Running(<<"watch", l>>)
    BY <1>7, Names, Distinct DEF WatchWakes, Loops
  <2>3. \E s \in {"put"} : Goes(<<"watch", l>>, s)
    BY <1>7 DEF WatchWakes
  <2> QED
    BY <2>1, <2>2, <2>3, GoesOn, Distinct DEF Loops
<1>8. CASE WatchEnds(l)
  <2>1. Others' /\ UNCHANGED <<platform, main, burst, peer>>
    BY <1>8 DEF WatchEnds
  <2>2. <<"watch", l>> \in Goroutine \ {Caller} /\ Running(<<"watch", l>>)
    BY <1>8, Names, Distinct DEF WatchEnds, Loops
  <2>3. \E s \in {"done"} : Goes(<<"watch", l>>, s)
    BY <1>8 DEF WatchEnds
  <2> QED
    BY <2>1, <2>2, <2>3, GoesOn, Distinct DEF Loops
<1> QED
  BY <1>1, <1>2, <1>3, <1>4, <1>5, <1>6, <1>7, <1>8

\* The handlers of the "ospf".
LEMMA OspfKeeps ==
    ASSUME IInv, OspfTakesPacket \/ OspfTicks \/ OspfPuts
    PROVE  IInv'
<1> USE CapacityAssumption
<1>1. CASE OspfTakesPacket
  <2>1. PICK n \in {0, 1}, W \in SUBSET ({"watch"} \X Link) :
           /\ \A g \in W : pc[g] = "none"
           /\ OspfHandles(n, W)
    BY <1>1 DEF OspfTakesPacket
  <2>2. /\ Others' /\ UNCHANGED <<platform, main, peer>>
        /\ pc[<<"ospf">>] \in {"wait", "put"}
        /\ n \in 0 .. Burst
    BY <1>1 DEF OspfTakesPacket, IInv, TypeOK, Others, conns
  <2> QED
    BY <2>1, <2>2, Handles
<1>2. CASE OspfTicks
  <2>1. PICK n \in 0 .. Burst : OspfHandles(n, {})
    BY <1>2 DEF OspfTicks
  <2>2. /\ Others' /\ UNCHANGED <<platform, main, peer>>
        /\ pc[<<"ospf">>] \in {"wait", "put"}
    BY <1>2 DEF OspfTicks, IInv, TypeOK, Others, conns, chans
  <2> QED
    BY <2>1, <2>2, Handles
<1>3. CASE OspfPuts
  <2>1. /\ Others' /\ UNCHANGED <<platform, main, peer>>
        /\ pc[<<"ospf">>] \in {"wait", "put"}
        /\ OspfHandles(burst - 1, {})
    BY <1>3 DEF OspfPuts, IInv, TypeOK, Others, conns
  <2>2. burst - 1 \in 0 .. Burst
    BY <1>3 DEF OspfPuts, IInv, TypeOK, Sending
  <2> QED
    BY <2>1, <2>2, Handles
<1> QED
  BY <1>1, <1>2, <1>3

\* A caller comes.
LEMMA CallKeeps ==
    ASSUME IInv, CallsTask
    PROVE  IInv'
<1> DEFINE next == [h \in {Caller} |-> "put"]
<1>1. /\ pc \in [Goroutine -> State] /\ burst \in 0 .. Burst /\ peer \in Link \cup {NoLink}
      /\ main \in Phase /\ peer' \in Link \cup {NoLink} /\ burst' = burst /\ platform' = platform
  BY DEF IInv, TypeOK, CallsTask, chans, conns
<1>2. Others'
  BY CapacityAssumption DEF IInv, TypeOK, Others, CallsTask, chans, conns
<1>3. Become(next)
  BY DEF CallsTask, chans, conns, Goes
<1>4. \A h \in Goroutine : pc'[h] = IF h \in DOMAIN next THEN next[h] ELSE pc[h]
  BY <1>3 DEF Become
<1>5. main' \in Phase \ {"stopped"}
  BY <1>1, NotStopped, Names, Distinct DEF Phase, Running, Loops, CallsTask, chans, conns
<1>6. Dialed'
  BY <1>1, <1>4, Names, Distinct DEF IInv, Dialed, Again, Loops, CallsTask, chans, conns
<1>7. Sending'
  BY <1>1, <1>4, Names, Distinct DEF IInv, Sending, Again, Loops, CallsTask, chans, conns
<1>8. Starting'
  BY <1>1, <1>4, Names, Distinct DEF IInv, Starting, Again, Loops, CallsTask, chans, conns
<1>9. \A h \in DOMAIN next :
         /\ h \in Goroutine
         /\ next[h] \in State
         /\ h # Caller => /\ next[h] # "none"
                          /\ pc[h] # "done"
                          /\ pc[h] = "none" => next[h] # "done"
  BY <1>1, Names, Distinct DEF IInv, Dialed, Starting, Again, State, Loops, CallsTask, chans, conns
<1> HIDE DEF next
<1> QED
  BY <1>1, <1>2, <1>3, <1>5, <1>6, <1>7, <1>8, <1>9, Moves

\* The "ospf" takes what a caller has to put.
LEMMA TaskKeeps ==
    ASSUME IInv, OspfTakesTask
    PROVE  IInv'
<1> DEFINE next == [h \in {<<"ospf">>, Caller} |-> IF h = Caller THEN "none" ELSE Again("wait")]
<1>1. /\ pc \in [Goroutine -> State] /\ burst \in 0 .. Burst /\ peer \in Link \cup {NoLink}
      /\ main \in Phase /\ peer' \in Link \cup {NoLink} /\ burst' = burst /\ platform' = platform
  BY DEF IInv, TypeOK, OspfTakesTask, chans, conns
<1>2. Others'
  BY CapacityAssumption DEF IInv, TypeOK, Others, OspfTakesTask, chans, conns
<1>3. Become(next)
  BY DEF OspfTakesTask, chans, conns, Goes
<1>4. \A h \in Goroutine : pc'[h] = IF h \in DOMAIN next THEN next[h] ELSE pc[h]
  BY <1>3 DEF Become
<1>5. main' \in Phase \ {"stopped"}
  BY <1>1, NotStopped, Names, Distinct DEF Phase, Running, Loops, OspfTakesTask, chans, conns
<1>6. Dialed'
  BY <1>1, <1>4, Names, Distinct DEF IInv, Dialed, Again, Loops, OspfTakesTask, chans, conns
<1>7. Sending'
  BY <1>1, <1>4, Names, Distinct DEF IInv, Sending, Again, Loops, OspfTakesTask, chans, conns
<1>8. Starting'
  BY <1>1, <1>4, Names, Distinct DEF IInv, Starting, Again, Loops, OspfTakesTask, chans, conns
<1>9. \A h \in DOMAIN next :
         /\ h \in Goroutine
         /\ next[h] \in State
         /\ h # Caller => /\ next[h] # "none"
                          /\ pc[h] # "done"
                          /\ pc[h] = "none" => next[h] # "done"
  BY <1>1, Names, Distinct DEF IInv, Dialed, Starting, Again, State, Loops, OspfTakesTask, chans, conns
<1> HIDE DEF next
<1> QED
  BY <1>1, <1>2, <1>3, <1>5, <1>6, <1>7, <1>8, <1>9, Moves

\* The "ospf" takes what a watcher has to put.
LEMMA DeadRouteKeeps ==
    ASSUME IInv, NEW l \in Link, OspfTakesDeadRoute(l)
    PROVE  IInv'
<1> DEFINE next == [h \in {<<"ospf">>, <<"watch", l>>} |->
               IF h = <<"ospf">> THEN Again("wait") ELSE "done"]
<1>1. /\ pc \in [Goroutine -> State] /\ burst \in 0 .. Burst /\ peer \in Link \cup {NoLink}
      /\ main \in Phase /\ peer' \in Link \cup {NoLink} /\ burst' = burst /\ platform' = platform
  BY DEF IInv, TypeOK, OspfTakesDeadRoute, chans, conns
<1>2. Others'
  BY CapacityAssumption DEF IInv, TypeOK, Others, OspfTakesDeadRoute, chans, conns
<1>3. Become(next)
  BY DEF OspfTakesDeadRoute, chans, conns, Goes
<1>4. \A h \in Goroutine : pc'[h] = IF h \in DOMAIN next THEN next[h] ELSE pc[h]
  BY <1>3 DEF Become
<1>5. main' \in Phase \ {"stopped"}
  BY <1>1, NotStopped, Names, Distinct DEF Phase, Running, Loops, OspfTakesDeadRoute, chans, conns
<1>6. Dialed'
  BY <1>1, <1>4, Names, Distinct DEF IInv, Dialed, Again, Loops, OspfTakesDeadRoute, chans, conns
<1>7. Sending'
  BY <1>1, <1>4, Names, Distinct DEF IInv, Sending, Again, Loops, OspfTakesDeadRoute, chans, conns
<1>8. Starting'
  BY <1>1, <1>4, Names, Distinct DEF IInv, Starting, Again, Loops, OspfTakesDeadRoute, chans, conns
<1>9. \A h \in DOMAIN next :
         /\ h \in Goroutine
         /\ next[h] \in State
         /\ h # Caller => /\ next[h] # "none"
                          /\ pc[h] # "done"
                          /\ pc[h] = "none" => next[h] # "done"
  BY <1>1, Names, Distinct DEF IInv, Dialed, Starting, Again, State, Loops, OspfTakesDeadRoute, chans, conns
<1> HIDE DEF next
<1> QED
  BY <1>1, <1>2, <1>3, <1>5, <1>6, <1>7, <1>8, <1>9, Moves

\* The dialer makes a connection.
LEMMA DialKeeps ==
    ASSUME IInv, NEW l \in Link, Dial(l)
    PROVE  IInv'
<1> DEFINE next == [h \in {<<"dialer">>, <<"recv", l>>} |-> IF h = <<"dialer">> THEN "put" ELSE "wait"]
<1>1. /\ pc \in [Goroutine -> State] /\ burst \in 0 .. Burst /\ peer \in Link \cup {NoLink}
      /\ main \in Phase /\ peer' \in Link \cup {NoLink} /\ burst' = burst /\ platform' = platform
  BY DEF IInv, TypeOK, Dial, chans
<1>2. Others'
  BY CapacityAssumption DEF IInv, TypeOK, Others, Dial, chans
<1>3. Become(next)
  BY DEF Dial, chans, Goes
<1>4. \A h \in Goroutine : pc'[h] = IF h \in DOMAIN next THEN next[h] ELSE pc[h]
  BY <1>3 DEF Become
<1>5. main' \in Phase \ {"stopped"}
  BY <1>1, NotStopped, Names, Distinct DEF Phase, Running, Loops, Dial, chans
<1>6. Dialed'
  BY <1>1, <1>4, Names, Distinct DEF IInv, Dialed, Again, Loops, Dial, chans
<1>7. Sending'
  BY <1>1, <1>4, Names, Distinct DEF IInv, Sending, Again, Loops, Dial, chans
<1>8. Starting'
  BY <1>1, <1>4, Names, Distinct DEF IInv, Starting, Again, Loops, Dial, chans
<1>9. \A h \in DOMAIN next :
         /\ h \in Goroutine
         /\ next[h] \in State
         /\ h # Caller => /\ next[h] # "none"
                          /\ pc[h] # "done"
                          /\ pc[h] = "none" => next[h] # "done"
  BY <1>1, Names, Distinct DEF IInv, Dialed, Starting, Again, State, Loops, Dial, chans
<1> HIDE DEF next
<1> QED
  BY <1>1, <1>2, <1>3, <1>5, <1>6, <1>7, <1>8, <1>9, Moves

\* The dialer sends the first hello of its connection.
LEMMA DialerPutsKeeps ==
    ASSUME IInv, DialerPuts
    PROVE  IInv'
<1> DEFINE next == [h \in {<<"dialer">>, <<"hello", peer>>} |-> "wait"]
<1>1. /\ pc \in [Goroutine -> State] /\ burst \in 0 .. Burst /\ peer \in Link \cup {NoLink}
      /\ main \in Phase /\ peer' \in Link \cup {NoLink} /\ burst' = burst /\ platform' = platform
  BY DEF IInv, TypeOK, DialerPuts, conns
<1>2. Others'
  BY CapacityAssumption DEF IInv, TypeOK, Others, DialerPuts, conns
<1>3. Become(next)
  BY DEF DialerPuts, conns, Goes
<1>4. \A h \in Goroutine : pc'[h] = IF h \in DOMAIN next THEN next[h] ELSE pc[h]
  BY <1>3 DEF Become
<1>5. main' \in Phase \ {"stopped"}
  BY <1>1, NotStopped, Names, Distinct DEF Phase, Running, Loops, DialerPuts, conns
<1>6. Dialed'
  BY <1>1, <1>4, Names, Distinct DEF IInv, Dialed, Again, Loops, DialerPuts, conns
<1>7. Sending'
  BY <1>1, <1>4, Names, Distinct DEF IInv, Sending, Again, Loops, DialerPuts, conns
<1>8. Starting'
  BY <1>1, <1>4, Names, Distinct DEF IInv, Starting, Again, Loops, DialerPuts, conns
<1>9. \A h \in DOMAIN next :
         /\ h \in Goroutine
         /\ next[h] \in State
         /\ h # Caller => /\ next[h] # "none"
                          /\ pc[h] # "done"
                          /\ pc[h] = "none" => next[h] # "done"
  BY <1>1, Names, Distinct DEF IInv, Dialed, Starting, Again, State, Loops, DialerPuts, conns
<1> HIDE DEF next
<1> QED
  BY <1>1, <1>2, <1>3, <1>5, <1>6, <1>7, <1>8, <1>9, Moves

\* The listener has the connection of a peer.
LEMMA AcceptedKeeps ==
    ASSUME IInv, NEW l \in Link, Accepted(l)
    PROVE  IInv'
<1> DEFINE next == [h \in {<<"listener">>, <<"recv", l>>} |->
               IF h = <<"listener">> THEN Again("wait") ELSE "wait"]
<1>1. /\ pc \in [Goroutine -> State] /\ burst \in 0 .. Burst /\ peer \in Link \cup {NoLink}
      /\ main \in Phase /\ peer' \in Link \cup {NoLink} /\ burst' = burst /\ platform' = platform
  BY DEF IInv, TypeOK, Accepted, chans, conns
<1>2. Others'
  BY CapacityAssumption DEF IInv, TypeOK, Others, Accepted, chans, conns
<1>3. Become(next)
  BY DEF Accepted, chans, conns, Goes
<1>4. \A h \in Goroutine : pc'[h] = IF h \in DOMAIN next THEN next[h] ELSE pc[h]
  BY <1>3 DEF Become
<1>5. main' \in Phase \ {"stopped"}
  BY <1>1, NotStopped, Names, Distinct DEF Phase, Running, Loops, Accepted, chans, conns
<1>6. Dialed'
  BY <1>1, <1>4, Names, Distinct DEF IInv, Dialed, Again, Loops, Accepted, chans, conns
<1>7. Sending'
  BY <1>1, <1>4, Names, Distinct DEF IInv, Sending, Again, Loops, Accepted, chans, conns
<1>8. Starting'
  BY <1>1, <1>4, Names, Distinct DEF IInv, Starting, Again, Loops, Accepted, chans, conns
<1>9. \A h \in DOMAIN next :
         /\ h \in Goroutine
         /\ next[h] \in State
         /\ h # Caller => /\ next[h] # "none"
                          /\ pc[h] # "done"
                          /\ pc[h] = "none" => next[h] # "done"
  BY <1>1, Names, Distinct DEF IInv, Dialed, Starting, Again, State, Loops, Accepted, chans, conns
<1> HIDE DEF next
<1> QED
  BY <1>1, <1>2, <1>3, <1>5, <1>6, <1>7, <1>8, <1>9, Moves

\* ospf.New.
LEMMA StartOspfKeeps ==
    ASSUME IInv, StartOspf
    PROVE  IInv'
<1> DEFINE next == [h \in {<<"ospf">>} |-> "wait"]
<1>1. /\ pc \in [Goroutine -> State] /\ burst \in 0 .. Burst /\ peer \in Link \cup {NoLink}
      /\ main \in Phase /\ peer' \in Link \cup {NoLink} /\ burst' = burst /\ platform' = platform
  BY DEF IInv, TypeOK, StartOspf, chans, conns
<1>2. Others'
  BY CapacityAssumption DEF IInv, TypeOK, Others, StartOspf, chans, conns
<1>3. Become(next)
  BY DEF StartOspf, chans, conns, Goes
<1>4. \A h \in Goroutine : pc'[h] = IF h \in DOMAIN next THEN next[h] ELSE pc[h]
  BY <1>3 DEF Become
<1>5. main' \in Phase \ {"stopped"}
  BY <1>1, NotStopped, Names, Distinct DEF Phase, Running, Loops, StartOspf, chans, conns
<1>6. Dialed'
  BY <1>1, <1>4, Names, Distinct DEF IInv, Dialed, Again, Loops, StartOspf, chans, conns
<1>7. Sending'
  BY <1>1, <1>4, Names, Distinct DEF IInv, Sending, Again, Loops, StartOspf, chans, conns
<1>8. Starting'
  BY <1>1, <1>4, Names, Distinct DEF IInv, Starting, Again, Loops, StartOspf, chans, conns
<1>9. \A h \in DOMAIN next :
         /\ h \in Goroutine
         /\ next[h] \in State
         /\ h # Caller => /\ next[h] # "none"
                          /\ pc[h] # "done"
                          /\ pc[h] = "none" => next[h] # "done"
  BY <1>1, Names, Distinct DEF IInv, Dialed, Starting, Again, State, Loops, StartOspf, chans, conns
<1> HIDE DEF next
<1> QED
  BY <1>1, <1>2, <1>3, <1>5, <1>6, <1>7, <1>8, <1>9, Moves

\* router.Start.
LEMMA StartRouterKeeps ==
    ASSUME IInv, StartRouter
    PROVE  IInv'
<1> DEFINE next == [h \in {<<"router">>, <<"socket">>} |-> "wait"]
<1>1. /\ pc \in [Goroutine -> State] /\ burst \in 0 .. Burst /\ peer \in Link \cup {NoLink}
      /\ main \in Phase /\ peer' \in Link \cup {NoLink} /\ burst' = burst /\ platform' = platform
  BY DEF IInv, TypeOK, StartRouter, chans, conns
<1>2. Others'
  BY CapacityAssumption DEF IInv, TypeOK, Others, StartRouter, chans, conns
<1>3. Become(next)
  BY DEF StartRouter, chans, conns, Goes
<1>4. \A h \in Goroutine : pc'[h] = IF h \in DOMAIN next THEN next[h] ELSE pc[h]
  BY <1>3 DEF Become
<1>5. main' \in Phase \ {"stopped"}
  BY <1>1, NotStopped, Names, Distinct DEF Phase, Running, Loops, StartRouter, chans, conns
<1>6. Dialed'
  BY <1>1, <1>4, Names, Distinct DEF IInv, Dialed, Again, Loops, StartRouter, chans, conns
<1>7. Sending'
  BY <1>1, <1>4, Names, Distinct DEF IInv, Sending, Again, Loops, StartRouter, chans, conns
<1>8. Starting'
  BY <1>1, <1>4, Names, Distinct DEF IInv, Starting, Again, Loops, StartRouter, chans, conns
<1>9. \A h \in DOMAIN next :
         /\ h \in Goroutine
         /\ next[h] \in State
         /\ h # Caller => /\ next[h] # "none"
                          /\ pc[h] # "done"
                          /\ pc[h] = "none" => next[h] # "done"
  BY <1>1, Names, Distinct DEF IInv, Dialed, Starting, Again, State, Loops, StartRouter, chans, conns
<1> HIDE DEF next
<1> QED
  BY <1>1, <1>2, <1>3, <1>5, <1>6, <1>7, <1>8, <1>9, Moves

\* link.New starts a dialer or a listener.
LEMMA StartLinkKeeps ==
    ASSUME IInv, StartLink
    PROVE  IInv'
<1>1. PICK g \in {<<"dialer">>, <<"listener">>}, s \in {"dial", "wait"} :
         Goes(g, s) /\ (g = <<"dialer">> => s = "dial")
  BY Distinct DEF StartLink, Loops
<1> DEFINE next == [h \in {g} |-> s]
<1>2. /\ pc \in [Goroutine -> State] /\ burst \in 0 .. Burst /\ peer \in Link \cup {NoLink}
      /\ peer' = peer /\ burst' = burst /\ platform' = platform /\ pc[g] = "none"
      /\ main' \in Phase \ {"stopped"} /\ UNCHANGED main
  BY DEF IInv, TypeOK, StartLink, conns, Phase
<1>3. Others'
  BY CapacityAssumption DEF IInv, TypeOK, Others, StartLink, chans, conns
<1>4. Become(next)
  BY <1>1 DEF Goes
<1>5. \A h \in Goroutine : pc'[h] = IF h = g THEN s ELSE pc[h]
  BY <1>4 DEF Become
<1>6. Dialed'
  BY <1>1, <1>2, <1>5, Names, Distinct DEF IInv, Dialed, Loops
<1>7. Sending' /\ Starting'
  BY <1>1, <1>2, <1>5, Names, Distinct DEF IInv, Sending, Starting, Loops
<1>8. \A h \in DOMAIN next :
         /\ h \in Goroutine
         /\ next[h] \in State
         /\ h # Caller => /\ next[h] # "none"
                          /\ pc[h] # "done"
                          /\ pc[h] = "none" => next[h] # "done"
  BY <1>2, Names DEF State, Loops
<1> HIDE DEF next
<1> QED
  BY <1>2, <1>3, <1>4, <1>6, <1>7, <1>8, Moves

\* What starts and ends nothing itself. Stop returns at a wait group of 0: that of a
\* finite set of goroutines that run, which is thus empty.
LEMMA MainKeeps ==
    ASSUME IInv, StartReturns \/ StartFails \/ Stop \/ StopReturns
    PROVE  IInv'
<1>1. /\ UNCHANGED <<platform, wg, pc, burst, conns, chans>>
      /\ cancelled' \in BOOLEAN /\ main' \in Phase
  BY DEF StartReturns, StartFails, Stop, StopReturns, IInv, TypeOK, Phase
<1>2. TypeOK' /\ WaitGroup' /\ Dialed' /\ Sending'
  BY <1>1 DEF IInv, TypeOK, WaitGroup, Dialed, Sending, Counted, Running, conns, chans
<1>3. Starting'
  BY <1>1 DEF StartReturns, StartFails, Stop, StopReturns, Starting
<1>4. QuietAfterStop'
  <2>1. CASE StopReturns
    <3> DEFINE R == {g \in Goroutine : Counted(g) /\ Running(g)}
    <3>1. IsFiniteSet(R) /\ Cardinality(R) = 0
      BY <2>1, FiniteGoroutines, FS_Subset, R \subseteq Goroutine DEF StopReturns, IInv, WaitGroup
    <3>2. R = {}
      BY <3>1, FS_EmptySet
    <3> QED
      BY <1>1, <3>2 DEF QuietAfterStop, AllEnded, Counted, Running
  <2>2. CASE StartReturns \/ StartFails \/ Stop
    BY <2>2 DEF StartReturns, StartFails, Stop, QuietAfterStop
  <2> QED
    BY <2>1, <2>2
<1> QED
  BY <1>2, <1>3, <1>4 DEF IInv

\* A connection fails, or nothing happens.
LEMMA StutterKeeps ==
    ASSUME IInv, UNCHANGED vars \/ \E l \in Link : SendFails(l)
    PROVE  IInv'
<1>1. /\ UNCHANGED <<platform, main, cancelled, wg, pc, burst, peer, chans>>
      /\ failed' \subseteq Link
  BY DEF SendFails, IInv, TypeOK, vars, conns
<1> QED
  BY <1>1 DEF IInv, TypeOK, WaitGroup, Starting, Dialed, Sending, QuietAfterStop, AllEnded,
      Counted, Running, chans

-----------------------------------------------------------------------------
(* The invariant *)

LEMMA InitEstablishes == Init => IInv
<1> SUFFICES ASSUME Init
             PROVE  IInv
  OBVIOUS
<1>1. TypeOK
  <2>1. pc \in [Goroutine -> State] /\ main \in Phase
    BY DEF Init, Phase, State
  <2>2. \A n \in Nat : 0 \in 0 .. n
    OBVIOUS
  <2>3. burst \in 0 .. Burst /\ in \in 0 .. InCap /\ out \in 0 .. OutCap
    BY <2>2, CapacityAssumption DEF Init
  <2>4. queue \in 0 .. QueueCap /\ socketQueue \in 0 .. SocketCap
    BY <2>2, CapacityAssumption DEF Init
  <2>5. /\ platform \in Platform /\ cancelled \in BOOLEAN /\ wg \in Nat
        /\ peer \in Link \cup {NoLink} /\ failed \subseteq Link
    BY DEF Init
  <2> QED
    BY <2>1, <2>3, <2>4, <2>5 DEF TypeOK
<1>2. WaitGroup
  <2>1. {g \in Goroutine : Counted(g) /\ Running(g)} = {}
    BY DEF Init, Running
  <2> QED
    BY <2>1, FS_EmptySet DEF Init, WaitGroup
<1>3. Starting /\ Dialed /\ Sending /\ QuietAfterStop
  BY Names DEF Init, Starting, Dialed, Sending, QuietAfterStop, Loops
<1> QED
  BY <1>1, <1>2, <1>3 DEF IInv

LEMMA NextKeeps == IInv /\ [Next]_vars => IInv'
<1> SUFFICES ASSUME IInv, [Next]_vars
             PROVE  IInv'
  OBVIOUS
<1>1. CASE Ospf
  BY <1>1, OspfKeeps, CallKeeps, TaskKeeps, DialerWaits DEF Ospf
<1>2. CASE Router
  BY <1>2, RouterKeeps DEF Router
<1>3. CASE Socket
  BY <1>3, SocketKeeps DEF Socket
<1>4. CASE Dialer
  BY <1>4, DialerPutsKeeps, DialerWaits DEF Dialer
<1>5. CASE Listener
  BY <1>5, ListenerKeeps DEF Listener
<1>6. CASE \E l \in Link : Connection(l)
  <2>1. PICK l \in Link : Connection(l)
    BY <1>6
  <2>2. CASE Dial(l) \/ Accepted(l) \/ OspfTakesDeadRoute(l) \/ SendFails(l)
    BY <2>2, DialKeeps, AcceptedKeeps, DeadRouteKeeps, StutterKeeps
  <2>3. CASE \/ Recv(l) \/ RecvPuts(l) \/ RecvFails(l)
             \/ HelloTicks(l) \/ HelloPuts(l) \/ HelloEnds(l)
             \/ WatchWakes(l) \/ WatchEnds(l)
    BY <2>3, ConnectionKeeps
  <2> QED
    BY <2>1, <2>2, <2>3 DEF Connection
<1>7. CASE Start \/ Stop \/ StopReturns
  BY <1>7, StartOspfKeeps, StartRouterKeeps, StartLinkKeeps, MainKeeps DEF Start
<1>8. CASE UNCHANGED vars
  BY <1>8, StutterKeeps
<1> QED
  BY <1>1, <1>2, <1>3, <1>4, <1>5, <1>6, <1>7, <1>8 DEF Next

\* The wait group counts exactly the goroutines that run (component.go, Go, Loop and
\* OnCancel), whoever of them starts others while Stop waits.
THEOREM Invariance == Spec => []IInv
BY InitEstablishes, NextKeeps, PTL DEF Spec

\* Once Stop has returned nothing of the VPN runs, and nothing starts again.
THEOREM StopIsFinal == Spec => []QuietAfterStop
<1>1. IInv => QuietAfterStop
  BY DEF IInv
<1> QED
  BY <1>1, Invariance, PTL
-----------------------------------------------------------------------------
(* Blocked for good *)

\* The router, and those that send on a channel it reads in no select.
Blocking == {<<"router">>, <<"ospf">>, <<"socket">>} \cup ({"recv"} \X Link)

\* g gets rid of its packet.
Puts(g) ==
    \/ g = <<"ospf">> /\ OspfPuts
    \/ g = <<"socket">> /\ SocketPuts
    \/ \E l \in Link : g = <<"recv", l>> /\ RecvPuts(l)

\* What moves a goroutine that may block: its start, an event it waits for, Inject, or
\* that it gets rid of its packet.
MayMove(g) == g \in Blocking => pc[g] \in {"none", "wait", "inject"} \/ Puts(g)
OnlySoMoved == \A g \in Goroutine : pc'[g] # pc[g] => MayMove(g)

LEMMA BecomeMoves ==
    /\ \A next : Become(next) /\ (\A g \in DOMAIN next : MayMove(g)) => OnlySoMoved
    /\ \A g, s : Goes(g, s) /\ MayMove(g) => OnlySoMoved
    /\ UNCHANGED pc => OnlySoMoved
BY DEF Become, Goes, OnlySoMoved

\* Of the goroutines only these may block.
LEMMA NeverBlocks ==
    /\ {Caller, <<"dialer">>, <<"listener">>} \cap Blocking = {}
    /\ \A l : {<<"hello", l>>, <<"watch", l>>} \cap Blocking = {}
<1>1. {Caller, <<"dialer">>, <<"listener">>} \cap Blocking = {}
  BY DEF Caller, Blocking
<1>2. \A l : <<"hello", l>> \notin Blocking
  BY DEF Blocking
<1>3. \A l : <<"watch", l>> \notin Blocking
  BY DEF Blocking
<1> QED
  BY <1>1, <1>2, <1>3

LEMMA StartMoves ==
    ASSUME IInv, Start \/ Stop \/ StopReturns
    PROVE  OnlySoMoved
<1>1. CASE StartOspf
  <2>1. pc[<<"ospf">>] = "none"
    BY <1>1 DEF StartOspf, IInv, Starting
  <2> QED
    BY <1>1, <2>1, BecomeMoves DEF StartOspf, MayMove
<1>2. CASE StartRouter
  <2>1. \A g \in {<<"router">>, <<"socket">>} : pc[g] = "none"
    BY <1>2 DEF StartRouter, IInv, Starting
  <2>2. Become([g \in {<<"router">>, <<"socket">>} |-> "wait"])
    BY <1>2 DEF StartRouter
  <2> QED
    BY <2>1, <2>2, BecomeMoves DEF MayMove
<1>3. CASE StartLink
  BY <1>3, BecomeMoves, NeverBlocks DEF StartLink, MayMove
<1>4. CASE StartReturns \/ StartFails \/ Stop \/ StopReturns
  BY <1>4, BecomeMoves DEF StartReturns, StartFails, Stop, StopReturns
<1> QED
  BY <1>1, <1>2, <1>3, <1>4 DEF Start

LEMMA LoopMoves ==
    ASSUME Socket \/ Listener \/ Dialer \/ Router
    PROVE  OnlySoMoved
<1>1. CASE Socket
  <2>1. pc[<<"socket">>] = "wait" \/ SocketPuts
    BY <1>1 DEF Socket, SocketReads, SocketEnds
  <2>2. MayMove(<<"socket">>)
    BY <2>1 DEF MayMove, Puts
  <2>3. \E s \in State \cup {Again("wait")} : Goes(<<"socket">>, s)
    BY <1>1 DEF Socket, SocketReads, SocketPuts, SocketEnds, State
  <2> QED
    BY <2>2, <2>3, BecomeMoves
<1>2. CASE Listener
  <2>1. \E s \in State \cup {Again("wait")} : Goes(<<"listener">>, s)
    BY <1>2 DEF Listener, Accept, Visited, AcceptFails, State
  <2> QED
    BY <2>1, BecomeMoves, NeverBlocks DEF MayMove
<1>3. CASE DialerRedials \/ DialerEnds
  <2>1. \E s \in State \cup {Again("dial")} : Goes(<<"dialer">>, s)
    BY <1>3 DEF DialerRedials, DialerEnds, State
  <2> QED
    BY <2>1, BecomeMoves, NeverBlocks DEF MayMove
<1>4. CASE DialerPuts
  <2>1. Become([g \in {<<"dialer">>, <<"hello", peer>>} |-> "wait"])
    BY <1>4 DEF DialerPuts
  <2> QED
    BY <2>1, BecomeMoves, NeverBlocks DEF MayMove
<1>5. CASE Router
  <2>1. pc[<<"router">>] \in {"wait", "inject"}
    BY <1>5 DEF Router, RouterTakesOut, RouterTakesPacket, RouterInjects,
                RouterTakesFromSocket, LoopEnds
  <2>2. \E s \in State \cup {Again("wait")} : Goes(<<"router">>, s)
    BY <1>5 DEF Router, RouterTakesOut, RouterTakesPacket, RouterInjects,
                RouterTakesFromSocket, LoopEnds, State
  <2> QED
    BY <2>1, <2>2, BecomeMoves DEF MayMove
<1> QED
  BY <1>1, <1>2, <1>3, <1>4, <1>5 DEF Dialer

LEMMA OspfMoves ==
    ASSUME Ospf
    PROVE  OnlySoMoved
<1>1. CASE OspfTakesPacket \/ OspfTicks \/ OspfPuts
  <2>1. \E n : \E W \in SUBSET ({"watch"} \X Link) : OspfHandles(n, W)
    <3>1. OspfTakesPacket =>
             \E n \in {0, 1} : \E W \in SUBSET ({"watch"} \X Link) : OspfHandles(n, W)
      BY DEF OspfTakesPacket
    <3>2. OspfTicks \/ OspfPuts => \E n : OspfHandles(n, {})
      BY DEF OspfTicks, OspfPuts
    <3> QED
      BY <1>1, <3>1, <3>2
  <2>2. MayMove(<<"ospf">>)
    BY <1>1 DEF OspfTakesPacket, OspfTicks, MayMove, Puts
  <2>3. \A W \in SUBSET ({"watch"} \X Link) : \A g \in {<<"ospf">>} \cup W : MayMove(g)
    BY <2>2, NeverBlocks DEF MayMove
  <2> QED
    BY <2>1, <2>3, BecomeMoves DEF OspfHandles
<1>2. CASE CallsTask
  BY <1>2, BecomeMoves, NeverBlocks DEF CallsTask, MayMove
<1>3. CASE OspfTakesTask
  <2>1. MayMove(<<"ospf">>) /\ MayMove(Caller)
    BY <1>3, NeverBlocks DEF OspfTakesTask, MayMove
  <2>2. Become([g \in {<<"ospf">>, Caller} |-> IF g = Caller THEN "none" ELSE Again("wait")])
    BY <1>3 DEF OspfTakesTask
  <2> QED
    BY <2>1, <2>2, BecomeMoves
<1>4. CASE LoopEnds(<<"ospf">>)
  BY <1>4, BecomeMoves DEF LoopEnds, MayMove
<1> QED
  BY <1>1, <1>2, <1>3, <1>4 DEF Ospf

LEMMA ConnectionMoves ==
    ASSUME NEW l \in Link, Connection(l)
    PROVE  OnlySoMoved
<1>1. CASE Dial(l)
  <2>1. MayMove(<<"dialer">>) /\ MayMove(<<"recv", l>>)
    BY <1>1, NeverBlocks DEF Dial, MayMove
  <2>2. Become([g \in {<<"dialer">>, <<"recv", l>>} |->
                   IF g = <<"dialer">> THEN "put" ELSE "wait"])
    BY <1>1 DEF Dial
  <2> QED
    BY <2>1, <2>2, BecomeMoves
<1>2. CASE Accepted(l)
  <2>1. MayMove(<<"listener">>) /\ MayMove(<<"recv", l>>)
    BY <1>2, NeverBlocks DEF Accepted, MayMove
  <2>2. Become([g \in {<<"listener">>, <<"recv", l>>} |->
                   IF g = <<"listener">> THEN Again("wait") ELSE "wait"])
    BY <1>2 DEF Accepted
  <2> QED
    BY <2>1, <2>2, BecomeMoves
<1>3. CASE OspfTakesDeadRoute(l)
  <2>1. MayMove(<<"ospf">>) /\ MayMove(<<"watch", l>>)
    BY <1>3, NeverBlocks DEF OspfTakesDeadRoute, MayMove
  <2>2. Become([g \in {<<"ospf">>, <<"watch", l>>} |->
                   IF g = <<"ospf">> THEN Again("wait") ELSE "done"])
    BY <1>3 DEF OspfTakesDeadRoute
  <2> QED
    BY <2>1, <2>2, BecomeMoves
<1>4. CASE Recv(l) \/ RecvFails(l)
  BY <1>4, BecomeMoves DEF Recv, RecvFails, MayMove
<1>5. CASE RecvPuts(l)
  <2>1. MayMove(<<"recv", l>>)
    BY <1>5 DEF MayMove, Puts
  <2> QED
    BY <1>5, <2>1, BecomeMoves DEF RecvPuts
<1>6. CASE SendFails(l)
  BY <1>6, BecomeMoves DEF SendFails
<1>7. CASE HelloTicks(l) \/ HelloPuts(l) \/ HelloEnds(l) \/ WatchWakes(l) \/ WatchEnds(l)
  <2>1. \E g \in {<<"hello", l>>, <<"watch", l>>}, s \in State : Goes(g, s)
    BY <1>7 DEF HelloTicks, HelloPuts, HelloEnds, WatchWakes, WatchEnds, State
  <2> QED
    BY <2>1, BecomeMoves, NeverBlocks DEF MayMove
<1> QED
  BY <1>1, <1>2, <1>3, <1>4, <1>5, <1>6, <1>7 DEF Connection

LEMMA StepMoves == IInv /\ [Next]_vars => OnlySoMoved
BY StartMoves, LoopMoves, OspfMoves, ConnectionMoves, BecomeMoves DEF Next, vars

\* Nobody but the router takes a packet out of the channels it reads.
LEMMA OnlyRouterTakes ==
    ASSUME IInv, [Next]_vars, pc[<<"router">>] # "wait"
    PROVE  out' >= out /\ queue' >= queue /\ socketQueue' >= socketQueue
<1> USE DEF chans, IInv, TypeOK
<1>1. CASE Ospf
  BY <1>1 DEF Ospf, OspfTakesPacket, OspfTicks, OspfPuts, CallsTask, OspfTakesTask, LoopEnds
<1>2. CASE Router
  BY <1>2 DEF Router, RouterTakesOut, RouterTakesPacket, RouterInjects,
              RouterTakesFromSocket, LoopEnds
<1>3. CASE Socket \/ Dialer \/ Listener
  BY <1>3 DEF Socket, SocketReads, SocketPuts, SocketEnds, Dialer, DialerPuts, DialerRedials,
              DialerEnds, Listener, Accept, Visited, AcceptFails
<1>4. CASE \E l \in Link : Connection(l)
  BY <1>4 DEF Connection, Dial, Accepted, Recv, RecvPuts, RecvFails, SendFails, HelloTicks,
              HelloPuts, HelloEnds, WatchWakes, WatchEnds, OspfTakesDeadRoute
<1>5. CASE Start \/ Stop \/ StopReturns
  BY <1>5 DEF Start, StartOspf, StartRouter, StartLink, StartReturns, StartFails, Stop, StopReturns
<1>6. CASE UNCHANGED vars
  BY <1>6 DEF vars
<1> QED
  BY <1>1, <1>2, <1>3, <1>4, <1>5, <1>6 DEF Next

LEMMA BlockedStays ==
    ASSUME IInv, [Next]_vars, NEW g \in Goroutine, Blocked(g)
    PROVE  Blocked(g)'
<1>1. /\ pc[<<"router">>] = "done" /\ pc[g] = "put"
      /\ g \in {<<"ospf">>, <<"socket">>} \/ \E l \in Link : g = <<"recv", l>>
  BY DEF Blocked, Goroutine, Caller, Loops
<1>2. g \in Blocking /\ <<"router">> \in Blocking /\ <<"router">> \in Goroutine
  BY <1>1, Names DEF Blocking, Loops
<1>3. ~Puts(g) /\ ~Puts(<<"router">>)
  <2>1. ~Puts(g)
    <3>1. g = <<"ospf">> => out = OutCap
      BY DEF Blocked
    <3>2. g = <<"socket">> => socketQueue = SocketCap
      BY DEF Blocked
    <3>3. \A l \in Link : g = <<"recv", l>> => queue = QueueCap
      BY DEF Blocked
    <3>4. ~(out < out) /\ ~(socketQueue < socketQueue) /\ ~(queue < queue)
      BY DEF IInv, TypeOK
    <3> QED
      BY <3>1, <3>2, <3>3, <3>4 DEF Puts, OspfPuts, SocketPuts, RecvPuts
  <2>2. ~Puts(<<"router">>)
    BY Distinct DEF Puts, Loops
  <2> QED
    BY <2>1, <2>2
<1>4. pc'[<<"router">>] = pc[<<"router">>] /\ pc'[g] = pc[g]
  BY <1>1, <1>2, <1>3, StepMoves DEF OnlySoMoved, MayMove
<1>5. out' >= out /\ queue' >= queue /\ socketQueue' >= socketQueue
  BY <1>1, OnlyRouterTakes
<1>6. /\ out \in 0 .. OutCap /\ out' \in 0 .. OutCap
      /\ queue \in 0 .. QueueCap /\ queue' \in 0 .. QueueCap
      /\ socketQueue \in 0 .. SocketCap /\ socketQueue' \in 0 .. SocketCap
  <2>1. IInv'
    BY NextKeeps
  <2> QED
    BY <2>1 DEF IInv, TypeOK
<1>7. /\ out = OutCap => out' = OutCap
      /\ queue = QueueCap => queue' = QueueCap
      /\ socketQueue = SocketCap => socketQueue' = SocketCap
  BY <1>5, <1>6, CapacityAssumption
<1> QED
  BY <1>1, <1>4, <1>7 DEF Blocked

\* A goroutine that is blocked on a channel when the router has returned stays blocked.
THEOREM BlockedForGood == Spec => StaysBlocked
<1>1. IInv /\ [Next]_vars => [\A g \in Goroutine : Blocked(g) => Blocked(g)']_vars
  BY BlockedStays
<1> QED
  BY <1>1, Invariance, PTL DEF Spec, StaysBlocked

\* Stop never returns once a goroutine is blocked so: the wait group counts it.
THEOREM BlockedHangsStop ==
    ASSUME NEW g \in Goroutine
    PROVE  Spec => [](Blocked(g) => [](main # "stopped"))
<1>1. IInv /\ [Next]_vars => (Blocked(g) => Blocked(g)')
  BY BlockedStays
<1>2. IInv /\ Blocked(g) => main # "stopped"
  <2> SUFFICES ASSUME IInv, Blocked(g)
               PROVE  main # "stopped"
    OBVIOUS
  <2>1. g # Caller
    BY DEF Blocked, Caller
  <2> QED
    BY <2>1, NotStopped DEF Blocked, Running
<1> QED
  BY <1>1, <1>2, Invariance, PTL DEF Spec
=============================================================================
