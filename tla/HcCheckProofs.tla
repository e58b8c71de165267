--------------------------- MODULE HcCheckProofs ---------------------------
(***************************************************************************)
(* Proofs about HcCheck for every timeout and every number of calls: the   *)
(* thread never sleeps on an outdated deadline.                            *)
(***************************************************************************)
EXTENDS HcCheck, TLAPS

(* The inductive invariant.  Between its test of m_stop and the wait the   *)
(* thread holds the mutex, so main, whatever it writes meanwhile, has its  *)
(* signal still ahead of it.                                               *)
DecisionIsCurrent == checker = "decided" => ~m_stop \/ main = "signal"

IInv == SleepIsCurrent /\ DecisionIsCurrent

LEMMA InitIInv == Init => IInv
BY DEF Init, IInv, SleepIsCurrent, DecisionIsCurrent

LEMMA NextIInv == IInv /\ [Next]_vars => IInv'
<1> SUFFICES ASSUME IInv, [Next]_vars PROVE IInv'
  OBVIOUS
<1> USE DEF IInv, SleepIsCurrent, DecisionIsCurrent
<1>1. CASE Tick
  BY <1>1 DEF Tick
<1>2. CASE Connect \/ HealthCheck \/ Disconnect
  BY <1>2 DEF Connect, HealthCheck, Disconnect, Begin
<1>3. CASE Stamp
  BY <1>3 DEF Stamp
<1>4. CASE Flag
  BY <1>4 DEF Flag, ClearStop
<1>5. CASE Signal
  BY <1>5 DEF Signal, SignalSleeper, m_lock, MutexFree
<1>6. CASE Put
  BY <1>6 DEF Put
<1>7. CASE BeforeCancel
  BY <1>7 DEF BeforeCancel, SignalSleeper, m_lock, MutexFree
<1>8. CASE Close
  BY <1>8 DEF Close
<1>9. CASE Get
  BY <1>9 DEF Get
<1>10. CASE Decide
  BY <1>10 DEF Decide
<1>11. CASE Sleep
  BY <1>11 DEF Sleep
<1>12. CASE Expire
  BY <1>12 DEF Expire
<1>13. CASE Wake
  BY <1>13 DEF Wake
<1>14. CASE UNCHANGED vars
  BY <1>14 DEF vars
<1>15. QED
  BY <1>1, <1>2, <1>3, <1>4, <1>5, <1>6, <1>7, <1>8, <1>9, <1>10, <1>11, <1>12, <1>13,
     <1>14 DEF Next, Main, Checker, Ended, AtBounds

(* While the WHCCheckThread sleeps, its deadline is that of the last       *)
(* health check and the timer is on, but for the moment before main's      *)
(* signal: the unlocked writes of BeforeNotify lose no wake-up.            *)
THEOREM SleepStaysCurrent == Spec => []SleepIsCurrent
<1>1. IInv => SleepIsCurrent
  BY DEF IInv
<1>2. QED BY <1>1, InitIInv, NextIInv, PTL DEF Spec

-----------------------------------------------------------------------------
(* Main stamps before the last health check's time, and puts one event for *)
(* each call of Notify.                                                    *)
Notifying == main \in {"stamp", "start", "stop", "signal", "put"}

TInv == /\ TypeOK
        /\ main = "stamp" => now <= MaxTime
        /\ queue + (IF Notifying THEN 1 ELSE 0) <= calls

LEMMA NextTInv == TInv /\ [Next]_vars => TInv'
<1> SUFFICES ASSUME TInv, [Next]_vars PROVE TInv'
  OBVIOUS
<1> USE HcCheckAssumption DEF TInv, TypeOK, Notifying, LastTick, NoAlarm
<1>1. CASE Tick
  <2>1. now' = now + 1 /\ now' <= LastTick /\ (main = "stamp" => now' <= MaxTime)
    BY <1>1 DEF Tick
  <2>2. QED BY <1>1, <2>1 DEF Tick
<1>2. CASE Connect \/ HealthCheck \/ Disconnect
  <2>1. calls + 1 \in 0..MaxCalls /\ now <= MaxTime /\ main = "idle" /\ calls' = calls + 1
        /\ UNCHANGED <<now, last_hc_time, m_stop, queue, closed, checker, deadline, alarmed>>
    BY <1>2 DEF Connect, HealthCheck, Disconnect, Begin
  <2>2. main' \in {"stamp", "stop"} /\ m_connected' \in BOOLEAN
    BY <1>2 DEF Connect, HealthCheck, Disconnect
  <2>3. TypeOK'
    BY <2>1, <2>2
  <2>4. queue' + 1 <= calls'
    BY <2>1
  <2>5. QED BY <2>1, <2>2, <2>3, <2>4
<1>3. CASE Stamp
  BY <1>3 DEF Stamp
<1>4. CASE Flag
  BY <1>4 DEF Flag, ClearStop
<1>5. CASE Signal \/ BeforeCancel
  BY <1>5 DEF Signal, BeforeCancel, SignalSleeper
<1>6. CASE Put
  BY <1>6 DEF Put
<1>7. CASE Close
  BY <1>7 DEF Close, CloseQueue
<1>8. CASE Get
  BY <1>8 DEF Get, HasEvent
<1>9. CASE Decide \/ Expire
  BY <1>9 DEF Decide, Expire
<1>10. CASE Sleep
  BY <1>10 DEF Sleep
<1>11. CASE Wake
  BY <1>11 DEF Wake, RaiseAlarm
<1>12. CASE UNCHANGED vars
  BY <1>12 DEF vars
<1>13. QED
  BY <1>1, <1>2, <1>3, <1>4, <1>5, <1>6, <1>7, <1>8, <1>9, <1>10, <1>11, <1>12
     DEF Next, Main, Checker, Ended, AtBounds

(* The timer stays in its types: it takes no event from an empty queue and *)
(* its times stay in the bounds of the clock.                              *)
THEOREM TypeCorrect == Spec => []TypeOK
<1>1. Init => TInv
  <2>1. 0 \in 0..LastTick /\ 0 \in 0..MaxTime /\ 0 \in 0..MaxCalls /\ NoAlarm \in 0..NoAlarm
    BY HcCheckAssumption DEF LastTick, NoAlarm
  <2>2. Init => TypeOK
    BY <2>1 DEF Init, TypeOK
  <2>3. Init => main # "stamp" /\ queue + (IF Notifying THEN 1 ELSE 0) <= calls
    BY DEF Init, Notifying
  <2>4. QED BY <2>2, <2>3 DEF TInv
<1>2. TInv => TypeOK
  BY DEF TInv
<1>3. QED BY <1>1, <1>2, NextTInv, PTL DEF Spec
=============================================================================
