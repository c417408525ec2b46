-------------------------------- MODULE Life --------------------------------
(***************************************************************************)
(* The life cycle of a node as its other parts see it: when the database   *)
(* is open, when requests are taken, and how far start and stop are        *)
(* (CurveTimeNode in curvetime/node.py).  It does not say who calls start  *)
(* and stop: Lifecycle shows that main and the signal handlers do it this  *)
(* way, and Node builds the rest of the node on it.                        *)
(***************************************************************************)

VARIABLES
    alive,        \* a process with a CurveTimeNode
    start, stop,  \* how far CurveTimeNode.start and stop are
    api,          \* the REST and JSON-RPC servers take requests
    up            \* the database is open

lifeVars == <<alive, start, stop, api, up>>

\* CurveTimeNode._running: set by start, reset by stop
NodeRunning == start # "no" /\ stop = "no"

Init ==
    /\ alive = FALSE
    /\ start = "no" /\ stop = "no"
    /\ api = FALSE
    /\ up = FALSE

\* __init__
Construct ==
    /\ ~alive
    /\ alive' = TRUE
    /\ up' = TRUE
    /\ UNCHANGED <<start, stop, api>>

\* start, up to the await of network.start
Start ==
    /\ alive
    /\ start = "no" /\ stop = "no"
    /\ start' = "network"
    /\ UNCHANGED <<alive, stop, api, up>>

\* The rest of start, which ends with the servers running or in an
\* exception.  It does not look again whether stop was called.
StartReturns ==
    /\ start = "network"
    /\ start' = "done"
    /\ api' \in BOOLEAN
    /\ UNCHANGED <<alive, stop, up>>

\* stop, up to the await of network.stop; a second call returns at once.
Stop ==
    /\ NodeRunning
    /\ stop' = "network"
    /\ UNCHANGED <<alive, start, api, up>>

\* The rest of stop: the API tasks there are by now are cancelled and the
\* database is closed.
StopReturns ==
    /\ stop = "network"
    /\ stop' = "done"
    /\ api' = FALSE
    /\ up' = FALSE
    /\ UNCHANGED <<alive, start>>

\* The process ends, at any time.
Exit ==
    /\ alive
    /\ alive' = FALSE
    /\ start' = "no" /\ stop' = "no"
    /\ api' = FALSE
    /\ up' = FALSE

Next == Construct \/ Start \/ StartReturns \/ Stop \/ StopReturns \/ Exit

Spec == Init /\ [][Next]_lifeVars
=============================================================================
