-------------------------- MODULE LifecycleProofs --------------------------
(***************************************************************************)
(* Proofs about Lifecycle, whatever run_api_server gives and however many  *)
(* connections there are to close.                                         *)
(***************************************************************************)
EXTENDS Lifecycle, TLAPS

\* Who runs the one stop there is, and how far main is then.
OneStop ==
    /\ phase = "none" <=> stopper = "none"
    /\ stopper = "main" => \/ main = "stop" /\ phase \in Waits
                           \/ main = "ended" /\ phase = "done"
    /\ main = "stop" => stopper = "main"
    /\ main = "ended" => phase # "none"
    /\ main \in {"none", "constructed"} => phase = "none"
    /\ cancelled => main = "ended"
    /\ pending => main # "none"

\* What main has not started yet is not there; what stop has passed is gone.
InOrder ==
    /\ main \in {"none", "constructed", "listen"} => server = "none" /\ ~api
    /\ main = "connect" => ~api
    /\ phase # "close" => left = 0
    /\ phase \in {"server", "task"} => server # "open"

LifecycleInv ==
    /\ LifecycleTypeOK
    /\ OnlySignalStopsAreCut
    /\ ServedOnlyToTheEnd
    /\ OneStop
    /\ InOrder

-----------------------------------------------------------------------------
(* The inductive invariant *)

LEMMA LifecycleInvInit == Init => LifecycleInv
<1> SUFFICES ASSUME Init PROVE LifecycleInv
  OBVIOUS
<1>1. LifecycleTypeOK
  <2>1. left \in 0 .. MaxConns
    BY LifecycleAssumption DEF Init
  <2>2. db = (main # "none" /\ phase # "done")
    BY Zenon DEF Init
  <2> QED
    BY <2>1, <2>2 DEF Init, LifecycleTypeOK, Waits
<1>2. OnlySignalStopsAreCut /\ ServedOnlyToTheEnd
  BY DEF Init, OnlySignalStopsAreCut, ServedOnlyToTheEnd
<1>3. OneStop /\ InOrder
  BY DEF Init, OneStop, InOrder
<1> QED
  BY <1>1, <1>2, <1>3 DEF LifecycleInv

LEMMA EndedInv == Ended => LifecycleInv'
<1> SUFFICES ASSUME Ended PROVE LifecycleInv'
  OBVIOUS
<1>1. LifecycleTypeOK'
  <2>1. left' \in 0 .. MaxConns
    BY LifecycleAssumption DEF Ended
  <2>2. db' = (main' # "none" /\ phase' # "done")
    BY Zenon DEF Ended
  <2> QED
    BY <2>1, <2>2 DEF Ended, LifecycleTypeOK, Waits
<1>2. OnlySignalStopsAreCut' /\ ServedOnlyToTheEnd'
  BY DEF Ended, OnlySignalStopsAreCut, ServedOnlyToTheEnd
<1>3. OneStop' /\ InOrder'
  BY DEF Ended, OneStop, InOrder
<1> QED
  BY <1>1, <1>2, <1>3 DEF LifecycleInv

\* Each action keeps each part.
LEMMA MainKeepsInv == LifecycleInv /\ MainStep => LifecycleInv'
<1> SUFFICES ASSUME LifecycleInv, MainStep PROVE LifecycleInv'
  OBVIOUS
<1> USE LifecycleAssumption
    DEF LifecycleInv, LifecycleTypeOK, OnlySignalStopsAreCut, ServedOnlyToTheEnd,
        OneStop, InOrder, Waits
<1>1. CASE Construct
  BY <1>1 DEF Construct
<1>2. CASE Start
  BY <1>2 DEF Start
<1>3. CASE ListenFails
  BY <1>3 DEF ListenFails
<1>4. CASE Listens
  BY <1>4 DEF Listens, RunsOn, Suspends
<1>5. CASE Connects
  BY <1>5 DEF Connects, ServesApi, RaisesInStart, Running
<1>6. CASE Poll
  BY <1>6 DEF Poll
<1>7. CASE Finally
  BY <1>7 DEF Finally, Stop, Running
<1> QED
  BY <1>1, <1>2, <1>3, <1>4, <1>5, <1>6, <1>7 DEF MainStep

LEMMA StopKeepsInv == LifecycleInv /\ (SignalStops \/ StopStep) => LifecycleInv'
<1> SUFFICES ASSUME LifecycleInv, SignalStops \/ StopStep PROVE LifecycleInv'
  OBVIOUS
<1> USE LifecycleAssumption
    DEF LifecycleInv, LifecycleTypeOK, OnlySignalStopsAreCut, ServedOnlyToTheEnd,
        OneStop, InOrder, Waits
<1>1. CASE SignalStops
  BY <1>1 DEF SignalStops, Stop, Running, RunsOn, MainRunsOn
<1>2. CASE CloseConnection
  BY <1>2 DEF CloseConnection
<1>3. CASE AllClosed
  BY <1>3 DEF AllClosed, Goes
<1>4. CASE ComponentsStop
  BY <1>4 DEF ComponentsStop, Goes
<1>5. CASE ServerStops
  BY <1>5 DEF ServerStops, Goes
<1>6. CASE TaskEnds
  BY <1>6 DEF TaskEnds, Goes
<1> QED
  BY <1>1, <1>2, <1>3, <1>4, <1>5, <1>6 DEF StopStep

LEMMA LifecycleInvNext == LifecycleInv /\ [Next]_vars => LifecycleInv'
<1> SUFFICES ASSUME LifecycleInv, [Next]_vars PROVE LifecycleInv'
  OBVIOUS
<1> USE LifecycleAssumption
    DEF LifecycleInv, LifecycleTypeOK, OnlySignalStopsAreCut, ServedOnlyToTheEnd,
        OneStop, InOrder, Waits
<1>1. CASE MainStep
  BY <1>1, MainKeepsInv
<1>2. CASE SignalStops \/ StopStep
  BY <1>2, StopKeepsInv
<1>3. CASE Signal
  BY <1>3 DEF Signal
<1>4. CASE Cancel
  BY <1>4 DEF Cancel
<1>5. CASE Exit \/ Crash
  <2>1. Ended
    BY <1>5 DEF Exit, Crash
  <2> QED
    BY <2>1, EndedInv
<1>6. CASE UNCHANGED vars
  BY <1>6 DEF vars
<1> QED
  BY <1>1, <1>2, <1>3, <1>4, <1>5, <1>6 DEF Next

THEOREM LifecycleInvariance == Spec => []LifecycleInv
BY LifecycleInvInit, LifecycleInvNext, PTL DEF Spec

-----------------------------------------------------------------------------
(* Theorems *)

\* Each variable has its values, and the database is open from the
\* construction of the node to the end of stop (node.py:39, node.py:241).
THEOREM LifecycleTypeCorrect == Spec => []LifecycleTypeOK
<1>1. LifecycleInv => LifecycleTypeOK
  BY DEF LifecycleInv
<1> QED
  BY <1>1, LifecycleInvariance, PTL

\* Only the stop of a signal is ever cut short, and only by the end of main
\* (node.py:215, node.py:264-274).
THEOREM OnlySignalStopsEverCut == Spec => []OnlySignalStopsAreCut
<1>1. LifecycleInv => OnlySignalStopsAreCut
  BY DEF LifecycleInv
<1> QED
  BY <1>1, LifecycleInvariance, PTL

\* Requests meet a closed database only when main is at its end
\* (node.py:169-189, node.py:269-270).
THEOREM AlwaysServedOnlyToTheEnd == Spec => []ServedOnlyToTheEnd
<1>1. LifecycleInv => ServedOnlyToTheEnd
  BY DEF LifecycleInv
<1> QED
  BY <1>1, LifecycleInvariance, PTL

\* Whatever else goes on, stop closes the database under no open server and
\* after all connections it knew (node.py:223-242, p2p_node.py:105-125).
THEOREM DatabaseAlwaysClosedLast == Spec => DatabaseClosedLast
<1>1. ASSUME LifecycleInv, [Next]_vars, phase # "done", phase' = "done"
      PROVE  server # "open" /\ left = 0
  <2>1. TaskEnds
    BY <1>1
    DEF Next, vars, MainStep, StopStep, Construct, Start, ListenFails, Listens, Connects,
        Poll, Finally, Signal, SignalStops, Stop, CloseConnection, AllClosed,
        ComponentsStop, ServerStops, Goes, Cancel, Exit, Crash, Ended
  <2>2. phase = "task"
    BY <2>1 DEF TaskEnds, Goes
  <2> QED
    BY <1>1, <2>2 DEF LifecycleInv, InOrder
<1>2. LifecycleInv /\ [Next]_vars =>
        [phase # "done" /\ phase' = "done" => server # "open" /\ left = 0]_vars
  BY <1>1
<1> QED
  BY <1>2, LifecycleInvariance, PTL DEF Spec, DatabaseClosedLast

\* start and stop, as main, the signals and asyncio.run use them, are those
\* of Life, on which Node is built.
THEOREM LifecycleRefinesLife == Spec => ImplementsLife
<1>1. Init => Abs!Init
  BY DEF Init, Abs!Init
<1>2. ASSUME LifecycleInv, [Next]_vars PROVE [Abs!Next]_(Abs!lifeVars)
  <2> USE <1>2
      DEF LifecycleInv, LifecycleTypeOK, OneStop, InOrder, Waits, Abs!lifeVars, Abs!Next
  <2>1. CASE Construct
    <3>1. Abs!Construct
      BY <2>1 DEF Construct, Abs!Construct
    <3> QED
      BY <3>1
  <2>2. CASE Start
    <3>1. Abs!Start
      BY <2>2 DEF Start, Abs!Start
    <3> QED
      BY <3>1
  <2>3. CASE ListenFails \/ Connects
    <3>1. Abs!StartReturns
      BY <2>3
      DEF ListenFails, Connects, ServesApi, RaisesInStart, Abs!StartReturns
    <3> QED
      BY <3>1
  <2>4. CASE Listens
    BY <2>4 DEF Listens
  <2>5. CASE Poll
    BY <2>5 DEF Poll
  <2>6. CASE Finally
    <3>1. CASE Running
      <4>1. Abs!Stop
        BY <2>6, <3>1 DEF Finally, Running, Stop, Abs!Stop, Abs!NodeRunning
      <4> QED
        BY <4>1
    <3>2. CASE ~Running
      BY <2>6, <3>2 DEF Finally
    <3> QED
      BY <3>1, <3>2
  <2>7. CASE Signal
    BY <2>7 DEF Signal
  <2>8. CASE SignalStops
    <3>1. CASE Running
      <4>1. Abs!Stop
        BY <2>8, <3>1
        DEF SignalStops, Running, Stop, Abs!Stop, Abs!NodeRunning, RunsOn, MainRunsOn
      <4> QED
        BY <4>1
    <3>2. CASE ~Running
      BY <2>8, <3>2 DEF SignalStops
    <3> QED
      BY <3>1, <3>2
  <2>9. CASE CloseConnection \/ AllClosed \/ ComponentsStop \/ ServerStops
    BY <2>9 DEF CloseConnection, AllClosed, ComponentsStop, ServerStops, Goes
  <2>10. CASE TaskEnds
    <3>1. Abs!StopReturns
      BY <2>10 DEF TaskEnds, Goes, Abs!StopReturns
    <3> QED
      BY <3>1
  <2>11. CASE Cancel
    BY <2>11 DEF Cancel
  <2>12. CASE Exit \/ Crash
    <3>1. Abs!Exit
      BY <2>12 DEF Exit, Crash, Ended, Abs!Exit
    <3> QED
      BY <3>1
  <2>13. CASE UNCHANGED vars
    BY <2>13 DEF vars
  <2> QED
    BY <2>1, <2>2, <2>3, <2>4, <2>5, <2>6, <2>7, <2>8, <2>9, <2>10, <2>11, <2>12, <2>13
    DEF Next, MainStep, StopStep
<1> QED
  BY <1>1, <1>2, LifecycleInvariance, PTL DEF Spec, ImplementsLife, Abs!Spec
=============================================================================
