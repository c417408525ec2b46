----------------------------- MODULE Lifecycle -----------------------------
(***************************************************************************)
(* Starting and stopping a node (curvetime/node.py, network/p2p_node.py):  *)
(* the coroutine main, the tasks that signal handlers create, and          *)
(* asyncio.run, which cancels what is left when main has ended.            *)
(*                                                                         *)
(* An action is what one of them does up to its next await; an await that  *)
(* does not suspend gives nobody else a turn (RunsOn).  It implements      *)
(* Life, on which Node is built.                                           *)
(***************************************************************************)
EXTENDS Integers

CONSTANTS
    Serves,   \* can run_api_server give a coroutine?  As it is written,
              \* uvicorn.run raises in it, inside the running loop.
    MaxConns  \* bound: connections there are to close

ASSUME LifecycleAssumption == Serves \subseteq BOOLEAN /\ MaxConns \in Nat

VARIABLES
    main,       \* where the coroutine main is
    pending,    \* a signal handler has created a task that has not run yet
    stopper,    \* whose call of stop goes past the test of _running
    phase,      \* how far that call is
    left,       \* connections it has still to close
    server,     \* the WebSocket server; the network's tasks come up with it
    api, db,    \* the API task, the database
    cancelled   \* asyncio.run has cancelled the tasks there were

vars == <<main, pending, stopper, phase, left, server, api, db, cancelled>>

\* The waits of stop: a connection, the tasks of gossip and of discovery,
\* the WebSocket server, the API task.
Waits == {"close", "components", "server", "task"}

\* Has the call of stop something to wait for here?
Suspends ==
    CASE phase = "close" -> left > 0
      [] phase = "components" -> server = "open"
      [] phase = "server" -> server = "closed"
      [] phase = "task" -> api
      [] OTHER -> TRUE

\* main, or the call of stop, has not come to an await that suspends.
MainRunsOn == main \in {"constructed", "finally"}
RunsOn == MainRunsOn \/ ~Suspends

\* CurveTimeNode._running, from the first step of start on
Running == phase = "none"

Init ==
    /\ main = "none"
    /\ pending = FALSE
    /\ stopper = "none" /\ phase = "none" /\ left = 0
    /\ server = "none"
    /\ api = FALSE /\ db = FALSE
    /\ cancelled = FALSE

-----------------------------------------------------------------------------
(* main *)

Construct ==
    /\ main = "none"
    /\ main' = "constructed"
    /\ db' = TRUE
    /\ UNCHANGED <<pending, stopper, phase, left, server, api, cancelled>>

\* start, up to the await of websockets.serve
Start ==
    /\ main = "constructed"
    /\ main' = "listen"
    /\ UNCHANGED <<pending, stopper, phase, left, server, api, db, cancelled>>

\* The port is taken: the exception leaves network.start and start.
ListenFails ==
    /\ main = "listen" /\ ~RunsOn
    /\ main' = "finally"
    /\ UNCHANGED <<pending, stopper, phase, left, server, api, db, cancelled>>

\* discovery.start and gossip.start do not suspend; connect_to_peer of the
\* bootstrap peers does.
Listens ==
    /\ main = "listen" /\ ~RunsOn
    /\ main' = "connect"
    /\ server' = "open"
    /\ UNCHANGED <<pending, stopper, phase, left, api, db, cancelled>>

\* start returns, and main looks at _running each second.
ServesApi ==
    /\ main' = IF Running THEN "serve" ELSE "finally"
    /\ api' = TRUE

\* start ends with the exception of run_api_server.
RaisesInStart ==
    /\ main' = "finally"
    /\ UNCHANGED api

Connects ==
    /\ main = "connect" /\ ~RunsOn
    /\ \E serves \in Serves : IF serves THEN ServesApi ELSE RaisesInStart
    /\ UNCHANGED <<pending, stopper, phase, left, server, db, cancelled>>

\* The loop of main finds _running false.
Poll ==
    /\ main = "serve" /\ ~RunsOn
    /\ ~Running
    /\ main' = "finally"
    /\ UNCHANGED <<pending, stopper, phase, left, server, api, db, cancelled>>

\* stop, past the test of _running
Stop(caller) ==
    /\ stopper' = caller
    /\ phase' = "close"
    /\ left' \in IF server = "open" THEN 0 .. MaxConns ELSE {0}

\* Faulty: the stop is started as a task.
FinallyAsTask ==
    /\ main = "finally"
    /\ main' = "ended"
    /\ IF Running THEN Stop("main") ELSE UNCHANGED <<stopper, phase, left>>
    /\ UNCHANGED <<pending, server, api, db, cancelled>>

\* Faulty: stop does not look at _running.
FinallyStops ==
    /\ main = "finally"
    /\ main' = "stop"
    /\ Stop("main")
    /\ UNCHANGED <<pending, server, api, db, cancelled>>

\* `finally: await node.stop()`: the whole stop, or nothing.
Finally ==
    /\ main = "finally"
    /\ IF Running
       THEN main' = "stop" /\ Stop("main")
       ELSE main' = "ended" /\ UNCHANGED <<stopper, phase, left>>
    /\ UNCHANGED <<pending, server, api, db, cancelled>>

-----------------------------------------------------------------------------
(* Signals *)

\* SIGINT or SIGTERM: asyncio.create_task(node.stop())
Signal ==
    /\ main \notin {"none", "ended"} /\ ~RunsOn
    /\ ~pending
    /\ pending' = TRUE
    /\ UNCHANGED <<main, stopper, phase, left, server, api, db, cancelled>>

\* The task runs for the first time.
SignalStops ==
    /\ pending /\ ~RunsOn
    /\ pending' = FALSE
    /\ IF Running THEN Stop("signal") ELSE UNCHANGED <<stopper, phase, left>>
    /\ UNCHANGED <<main, server, api, db, cancelled>>

-----------------------------------------------------------------------------
(* The call of stop that does the work *)

Goes(p, q) == ~MainRunsOn /\ phase = p /\ phase' = q

\* Faulty: the loop is over the table itself, into which peers come meanwhile.
CloseConnectionLive ==
    /\ ~MainRunsOn
    /\ phase = "close" /\ left > 0
    /\ left' \in 0 .. MaxConns
    /\ UNCHANGED <<main, pending, stopper, phase, server, api, db, cancelled>>

\* A connection of the snapshot is closed, or closing it failed.
CloseConnection ==
    /\ ~MainRunsOn
    /\ phase = "close" /\ left > 0
    /\ left' = left - 1
    /\ UNCHANGED <<main, pending, stopper, phase, server, api, db, cancelled>>

\* Faulty: the database is closed before the network is.
AllClosedFirst ==
    /\ Goes("close", "task")
    /\ left = 0
    /\ UNCHANGED <<main, pending, stopper, left, server, api, db, cancelled>>

AllClosed ==
    /\ Goes("close", "components")
    /\ left = 0
    /\ UNCHANGED <<main, pending, stopper, left, server, api, db, cancelled>>

\* gossip.stop and discovery.stop; then the WebSocket server is closed.
ComponentsStop ==
    /\ Goes("components", "server")
    /\ server' = IF server = "open" THEN "closed" ELSE server
    /\ UNCHANGED <<main, pending, stopper, left, api, db, cancelled>>

\* Faulty: the database is closed before the API task has ended.
ServerStopsAndCloses ==
    /\ Goes("server", "task")
    /\ db' = FALSE
    /\ UNCHANGED <<main, pending, stopper, left, server, api, cancelled>>

ServerStops ==
    /\ Goes("server", "task")
    /\ UNCHANGED <<main, pending, stopper, left, server, api, db, cancelled>>

\* Faulty: the API task is left running.
TaskGoesOn ==
    /\ Goes("task", "done")
    /\ db' = FALSE
    /\ main' = IF stopper = "main" THEN "ended" ELSE main
    /\ UNCHANGED <<pending, stopper, left, server, api, cancelled>>

\* The API task has ended, if there is one; the database is closed.
TaskEnds ==
    /\ Goes("task", "done")
    /\ api' = FALSE
    /\ db' = FALSE
    /\ main' = IF stopper = "main" THEN "ended" ELSE main
    /\ UNCHANGED <<pending, stopper, left, server, cancelled>>

StopStep == CloseConnection \/ AllClosed \/ ComponentsStop \/ ServerStops \/ TaskEnds

-----------------------------------------------------------------------------
(* asyncio.run *)

\* Each task gets one CancelledError.  A stop that closes a connection or
\* waits for the API task swallows it and goes on; elsewhere it ends there.
Cancel ==
    /\ main = "ended" /\ ~RunsOn
    /\ ~cancelled
    /\ cancelled' = TRUE
    /\ pending' = FALSE
    /\ phase' = IF phase \in {"components", "server"} THEN "cut" ELSE phase
    /\ UNCHANGED <<main, stopper, left, server, api, db>>

Ended ==
    /\ main' = "none"
    /\ pending' = FALSE
    /\ stopper' = "none" /\ phase' = "none" /\ left' = 0
    /\ server' = "none"
    /\ api' = FALSE /\ db' = FALSE
    /\ cancelled' = FALSE

\* Every task has ended, and so has the process.
Exit == cancelled /\ phase \notin Waits /\ Ended

\* It is killed.
Crash == main # "none" /\ Ended

MainStep == Construct \/ Start \/ ListenFails \/ Listens \/ Connects \/ Poll \/ Finally

Next == MainStep \/ Signal \/ SignalStops \/ StopStep \/ Cancel \/ Exit \/ Crash

Spec == Init /\ [][Next]_vars

\* The loop resumes what is ready.  Every await of start and stop comes to
\* an end: connecting and closing have timeouts, cancelled tasks end.
FairSpec ==
    /\ Spec
    /\ WF_vars(main # "none" /\ MainStep)
    /\ WF_vars(SignalStops)
    /\ WF_vars(StopStep)
    /\ WF_vars(Cancel)
    /\ WF_vars(Exit)

-----------------------------------------------------------------------------
(* Properties *)

LifecycleTypeOK ==
    /\ main \in {"none", "constructed", "listen", "connect", "serve", "finally",
                 "stop", "ended"}
    /\ pending \in BOOLEAN
    /\ stopper \in {"none", "main", "signal"}
    /\ phase \in Waits \cup {"none", "done", "cut"}
    /\ left \in 0 .. MaxConns
    /\ server \in {"none", "open", "closed"}
    /\ api \in BOOLEAN
    /\ db = (main # "none" /\ phase # "done")
    /\ cancelled \in BOOLEAN

\* A stop that main runs is never cut short, so a process that ends by
\* itself leaves the database open only when a signal's stop was still at
\* work while main went on to its end (node.py:215, node.py:264-274).
OnlySignalStopsAreCut == phase = "cut" => stopper = "signal" /\ main = "ended"

\* Requests meet a closed database only where the API was started after the
\* database was closed; and then main, which finds _running false, is at its
\* end, which cancels the API (node.py:169-189, node.py:269-270).
ServedOnlyToTheEnd == api /\ ~db => main \in {"finally", "ended"}

\* stop closes the database last: the network is down and every connection
\* it knew is closed, unless the server came up only later (node.py:223-242,
\* p2p_node.py:105-125).
DatabaseClosedLast ==
    [][phase # "done" /\ phase' = "done" => server # "open" /\ left = 0]_vars

\* A signal ends the process, wherever start, stop and main are, and whoever
\* has called stop before (node.py:263-274).
SignalEnds == pending ~> main = "none"

Abs == INSTANCE Life WITH
    alive <- main # "none",
    start <- CASE main \in {"none", "constructed"} -> "no"
               [] main \in {"listen", "connect"} -> "network"
               [] OTHER -> "done",
    stop <- CASE phase = "none" -> "no"
              [] phase = "done" -> "done"
              [] OTHER -> "network",
    up <- db

\* main, the signal handlers and asyncio.run use start and stop as Life says
\* (node.py:159-244, node.py:253-279).
ImplementsLife == Abs!Spec

\* A process that ends by itself has closed the database: stop is the
\* graceful end of the node (node.py:214, node.py:240).
ExitClosesDatabase == [][Exit => ~db]_vars
=============================================================================
