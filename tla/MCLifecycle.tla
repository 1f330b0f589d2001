---------------------------- MODULE MCLifecycle ----------------------------
(* Instances of Lifecycle for TLC.                                           *)
EXTENDS Lifecycle

\* The time before the end, of a node that dials. Calls from outside and packets from
\* the tun device, which meet nowhere, do not come at once.
Dials ==
    /\ main # "stopping" /\ ~cancelled
    /\ pc[<<"listener">>] = "none"
    /\ pc[Caller] = "none" \/ (pc[<<"socket">>] # "put" /\ socketQueue = 0)

RunningSpec == Init /\ [][Next /\ Dials']_vars /\ Scheduled /\ Served

\* The whole life, without calls from outside. The app does not listen, and not both
\* queues of the router hold packets at once: it takes what it is given, and whoever
\* sends on either of them fills it alone.
Uncalled ==
    /\ pc[Caller] = "none"
    /\ platform = "android" => pc[<<"listener">>] = "none"
    /\ socketQueue = 0 \/ queue = 0

EndingSpec == Init /\ [][Next /\ Uncalled']_vars /\ Scheduled
============================================================================
