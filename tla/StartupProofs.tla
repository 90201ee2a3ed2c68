----------------------------- MODULE StartupProofs ----------------------------
(***************************************************************************)
(* The start of the server, for every length of the pause and of the ping. *)
(***************************************************************************)
EXTENDS Startup, TLAPS

LEMMA EndIsLate ==
    /\ End \in Nat
    /\ \A i \in 1 .. Attempts : i * Pause \in Nat /\ (i - 1) * Pause \in Nat /\ i * Pause <= End
    /\ Selection <= End
  <1>1. \A i \in 1 .. Attempts : i = 1 \/ i = 2 \/ i = 3
    BY DEF Attempts
  <1> QED
    BY <1>1, StartupAssumption DEF End, Attempts

-------------------------------------------------------------------------------
(* Types *)

LEMMA InitTypeOK == Init => TypeOK
  BY StartupAssumption, EndIsLate DEF Init, TypeOK, Off, Process, Attempts, Never

LEMMA NextTypeOK == TypeOK /\ [Next]_vars => TypeOK'
  <1> SUFFICES ASSUME TypeOK, [Next]_vars PROVE TypeOK'
    OBVIOUS
  <1> USE StartupAssumption DEF TypeOK, Attempts, Never
  <1>1. CASE Start
    BY <1>1, EndIsLate DEF Start, Process
  <1>2. CASE Open
    BY <1>2 DEF Open, Process
  <1>3. CASE Wake
    BY <1>3 DEF Wake, NextAttempt, Process
  <1>4. CASE CheckHandle
    BY <1>4 DEF CheckHandle, GoesTo, Process
  <1>5. CASE Ping
    BY <1>5 DEF Ping, GoesTo, Process
  <1>6. CASE Run
    BY <1>6 DEF Run, GoesTo, Process
  <1>7. CASE Stop
    BY <1>7, EndIsLate DEF Stop, Off, Process
  <1>8. CASE Tick
    BY <1>8, EndIsLate DEF Tick, GoesTo, Process
  <1>9. ASSUME NEW s \in Services, ServiceStarts(s) PROVE TypeOK'
    BY <1>9 DEF ServiceStarts
  <1>10. ASSUME NEW s \in Services, ServiceStops(s) PROVE TypeOK'
    BY <1>10, EndIsLate DEF ServiceStops, NotedDown
  <1>11. CASE UNCHANGED vars
    BY <1>11 DEF vars
  <1> QED
    BY <1>1, <1>2, <1>3, <1>4, <1>5, <1>6, <1>7, <1>8, <1>9, <1>10, <1>11 DEF Next, Step

(* The type invariant: an attempt of the loop of NewDatabase is one of its  *)
(* three, and the handle is there from the first one on.                    *)
THEOREM TypeCorrect == Spec => []TypeOK
  BY InitTypeOK, NextTypeOK, PTL DEF Spec

-------------------------------------------------------------------------------
(* The wait for the services *)

LEMMA InitAwaited == Init => Awaiting /\ SlowStartAwaited
  BY DEF Init, Off, Process, Never, Awaiting, Booting, SlowStartAwaited

LEMMA NextAwaited ==
    TypeOK /\ Awaiting /\ SlowStartAwaited /\ [Next]_vars => (Awaiting /\ SlowStartAwaited)'
  <1> SUFFICES ASSUME TypeOK, Awaiting, SlowStartAwaited, [Next]_vars
               PROVE  (Awaiting /\ SlowStartAwaited)'
    OBVIOUS
  <1> USE StartupAssumption, EndIsLate DEF TypeOK, Awaiting, Booting, SlowStartAwaited, Attempts, Services, Process, Never
  <1>1. CASE Start
    BY <1>1 DEF Start, Process
  <1>2. CASE Open
    BY <1>2 DEF Open
  <1>3. CASE Wake
    BY <1>3 DEF Wake, NextAttempt
  <1>4. CASE CheckHandle
    BY <1>4 DEF CheckHandle, GoesTo
  <1>5. CASE Ping
    BY <1>5 DEF Ping, GoesTo
  <1>6. CASE Run
    BY <1>6 DEF Run, GoesTo
  <1>7. CASE Stop
    BY <1>7 DEF Stop, Off
  <1>8. CASE Tick
    BY <1>8 DEF Tick, GoesTo
  <1>9. ASSUME NEW s \in Services, ServiceStarts(s) PROVE (Awaiting /\ SlowStartAwaited)'
    BY <1>9 DEF ServiceStarts
  <1>10. ASSUME NEW s \in Services, ServiceStops(s) PROVE (Awaiting /\ SlowStartAwaited)'
    BY <1>10 DEF ServiceStops, NotedDown
  <1>11. CASE UNCHANGED vars
    BY <1>11 DEF vars
  <1> QED
    BY <1>1, <1>2, <1>3, <1>4, <1>5, <1>6, <1>7, <1>8, <1>9, <1>10, <1>11 DEF Next, Step

(* However long the pause of NewDatabase and the Mongo driver's search are, *)
(* a Postgres that is there, and stays, from two pauses after the start on  *)
(* is connected to, and a Mongo that is there when the search ends is found. *)
THEOREM SlowStart == Spec => []SlowStartAwaited
  <1>1. Spec => [](Awaiting /\ SlowStartAwaited)
    BY InitAwaited, NextAwaited, TypeCorrect, PTL DEF Spec
  <1> QED
    BY <1>1, PTL
===============================================================================
