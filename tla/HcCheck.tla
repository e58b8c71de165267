------------------------------ MODULE HcCheck ------------------------------
(***************************************************************************)
(* The health-check timer of the receive process (WTimeOut.cxx): the main  *)
(* thread stamps last_hc_time at every connection and health check, sets   *)
(* m_stop when the connection is closed, signals the WHCCheckThread if it  *)
(* sleeps and puts an event in its queue; the thread takes an event, then  *)
(* sleeps in AfterRun until last_hc_time + m_timeout and raises an alarm   *)
(* when it was not woken before.                                           *)
(*                                                                         *)
(* last_hc_time and m_stop are written without the thread's mutex, so each *)
(* write is a step.  An event carries nothing the thread reads (Run only   *)
(* logs): the queue, a closable channel, is the number of its events.      *)
(***************************************************************************)
EXTENDS Naturals

CONSTANTS Timeout,   \* RTWORK_RECV_HC_TIMEOUT in ticks; 0 disables the timer
          MaxTime,   \* bound: health checks arrive until then, the clock
                     \*   goes on until the last of them has timed out
          MaxCalls   \* bound: calls of Notify

ASSUME HcCheckAssumption ==
    Timeout \in Nat /\ MaxTime \in Nat /\ MaxCalls \in Nat

VARIABLES now,           \* time(NULL)
          last_hc_time,
          m_stop,
          m_connected,   \* WSocket's flag, read by IsConnected()
          main,          \* where main is in Notify or Cancel
          calls,         \* calls of Notify so far
          queue,         \* events in the thread's queue
          closed,        \* the queue was closed
          checker,       \* where the thread is
          deadline,      \* timeout_time of the sleep in AfterRun
          alarmed        \* history: last_hc_time when the last alarm was raised

vars == <<now, last_hc_time, m_stop, m_connected, main, calls, queue, closed,
          checker, deadline, alarmed>>

LastTick == MaxTime + Timeout
NoAlarm == LastTick + 1

Init == /\ now = 0 /\ last_hc_time = 0 /\ m_stop = FALSE /\ m_connected = FALSE
        /\ main = "idle" /\ calls = 0 /\ queue = 0 /\ closed = FALSE
        /\ checker = "get" /\ deadline = 0 /\ alarmed = NoAlarm

Tick == /\ now < IF main = "stamp" THEN MaxTime ELSE LastTick
        /\ now' = now + 1
        /\ UNCHANGED <<last_hc_time, m_stop, m_connected, main, calls, queue, closed,
                       checker, deadline, alarmed>>

(* The mutex is held from the test of m_stop to pthread_cond_timedwait;    *)
(* m_lock is set from there until the thread has the mutex again.          *)
MutexFree == checker # "decided"
m_lock == checker \in {"sleep", "woken", "timedout"}

-----------------------------------------------------------------------------
(* Main: a connection or a health check is notified with HC_CHECK_FLAG.    *)
Begin == /\ main = "idle" /\ calls < MaxCalls /\ now <= MaxTime
         /\ calls' = calls + 1
         /\ UNCHANGED <<now, last_hc_time, m_stop, queue, closed, checker, deadline,
                        alarmed>>

Connect == /\ ~m_connected /\ Begin
           /\ m_connected' = TRUE /\ main' = "stamp"

HealthCheck == /\ m_connected /\ Begin
               /\ main' = "stamp" /\ UNCHANGED m_connected

(* Disconnect notifies with HC_STOP_FLAG.                                  *)
Disconnect == /\ m_connected /\ Begin
              /\ m_connected' = FALSE /\ main' = "stop"

Stamp == /\ main = "stamp"
         /\ last_hc_time' = now
         /\ main' = "start"
         /\ UNCHANGED <<now, m_stop, m_connected, calls, queue, closed, checker, deadline,
                        alarmed>>

StopNotCleared == UNCHANGED m_stop           \* mutant: m_stop=false forgotten
ClearStop == m_stop' = FALSE

Flag == /\ main \in {"start", "stop"}
        /\ IF main = "start" THEN ClearStop ELSE m_stop' = TRUE
        /\ main' = "signal"
        /\ UNCHANGED <<now, last_hc_time, m_connected, calls, queue, closed, checker,
                       deadline, alarmed>>

NoSignal == UNCHANGED checker                \* mutant: the sleeper is not woken
SignalSleeper == checker' = IF checker = "sleep" THEN "woken" ELSE checker

(* The rest of BeforeNotify: under the mutex, signal only if m_lock.       *)
Signal == /\ main = "signal" /\ MutexFree
          /\ IF m_lock THEN SignalSleeper ELSE UNCHANGED checker
          /\ main' = "put"
          /\ UNCHANGED <<now, last_hc_time, m_stop, m_connected, calls, queue, closed,
                         deadline, alarmed>>

Put == /\ main = "put"
       /\ queue' = queue + 1
       /\ main' = "idle"
       /\ UNCHANGED <<now, last_hc_time, m_stop, m_connected, calls, closed, checker,
                      deadline, alarmed>>

(* Cancel: BeforeCancel, then Close.                                       *)
BeforeCancel == /\ main = "idle" /\ ~closed /\ MutexFree
                /\ IF m_lock THEN SignalSleeper ELSE UNCHANGED checker
                /\ main' = "close"
                /\ UNCHANGED <<now, last_hc_time, m_stop, m_connected, calls, queue,
                               closed, deadline, alarmed>>

CloseForgotten == closed' = closed           \* mutant: Cancel without Close
CloseQueue == closed' = TRUE

Close == /\ main = "close"
         /\ CloseQueue
         /\ main' = "join"
         /\ UNCHANGED <<now, last_hc_time, m_stop, m_connected, calls, queue, checker,
                        deadline, alarmed>>

Main == \/ Connect \/ HealthCheck \/ Disconnect
        \/ Stamp \/ Flag \/ Signal \/ Put
        \/ BeforeCancel \/ Close

-----------------------------------------------------------------------------
(* The thread: Get, the empty Run, AfterRun.                               *)

HasEvent == queue > 0

Get == /\ checker = "get"
       /\ \/ /\ HasEvent
             /\ queue' = queue - 1 /\ checker' = "afterRun"
          \/ /\ queue = 0 /\ closed
             /\ checker' = "ended" /\ UNCHANGED queue
       /\ UNCHANGED <<now, last_hc_time, m_stop, m_connected, main, calls, closed,
                      deadline, alarmed>>

(* The test under the mutex.                                               *)
Decide == /\ checker = "afterRun"
          /\ checker' = IF ~m_stop /\ Timeout # 0 THEN "decided" ELSE "get"
          /\ UNCHANGED <<now, last_hc_time, m_stop, m_connected, main, calls, queue,
                         closed, deadline, alarmed>>

(* The deadline is computed and the wait begins; the mutex is released.    *)
Sleep == /\ checker = "decided"
         /\ deadline' = last_hc_time + Timeout
         /\ checker' = "sleep"
         /\ UNCHANGED <<now, last_hc_time, m_stop, m_connected, main, calls, queue, closed,
                        alarmed>>

Expire == /\ checker = "sleep" /\ now >= deadline
          /\ checker' = "timedout"
          /\ UNCHANGED <<now, last_hc_time, m_stop, m_connected, main, calls, queue,
                         closed, deadline, alarmed>>

RaiseAlarm == alarmed' = last_hc_time

(* The wait returned: nothing is tested again but the connection.  A       *)
(* health check, or a reconnect, that came after the wait expired does not *)
(* keep the thread from raising the alarm.                                 *)
Wake == /\ checker \in {"woken", "timedout"}
        /\ IF checker = "timedout" /\ m_connected THEN RaiseAlarm ELSE UNCHANGED alarmed
        /\ checker' = "get"
        /\ UNCHANGED <<now, last_hc_time, m_stop, m_connected, main, calls, queue, closed,
                       deadline>>

Checker == Get \/ Decide \/ Sleep \/ Expire \/ Wake

Ended == checker = "ended" /\ main = "join" /\ UNCHANGED vars

(* Nothing happens any more: the clock and the peer are at their bounds    *)
(* and the process goes on waiting.                                        *)
AtBounds == now = LastTick /\ main = "idle" /\ checker = "get" /\ UNCHANGED vars

Next == Tick \/ Main \/ Checker \/ Ended \/ AtBounds

Spec == Init /\ [][Next]_vars

(* Time passes, the thread runs and main finishes what it began.  Nothing  *)
(* obliges the peer to connect or to send, or the process to shut down.    *)
FairSpec == /\ Spec
            /\ WF_vars(Tick) /\ WF_vars(Checker)
            /\ WF_vars(Stamp \/ Flag \/ Signal \/ Put \/ Close)

-----------------------------------------------------------------------------
TypeOK == /\ now \in 0..LastTick
          /\ last_hc_time \in 0..MaxTime
          /\ m_stop \in BOOLEAN
          /\ m_connected \in BOOLEAN
          /\ main \in {"idle", "stamp", "start", "stop", "signal", "put", "close", "join"}
          /\ calls \in 0..MaxCalls
          /\ queue \in 0..MaxCalls
          /\ closed \in BOOLEAN
          /\ checker \in {"get", "afterRun", "decided", "sleep", "woken", "timedout",
                          "ended"}
          /\ deadline \in 0..LastTick
          /\ alarmed \in 0..NoAlarm

(* The thread never sleeps on an outdated decision: the deadline it sleeps *)
(* to is that of the last health check and the timer is not stopped, but   *)
(* for the moment in which main, having written last_hc_time or m_stop     *)
(* without the lock (WTimeOut.cxx:90-96), is about to signal it.           *)
SleepIsCurrent ==
    checker = "sleep" =>
        \/ deadline = last_hc_time + Timeout /\ ~m_stop
        \/ main \in {"start", "signal"}

(* A connection that stays silent for the timeout is noticed: an alarm is  *)
(* raised for that silence, unless a health check or the end of the        *)
(* connection comes first -- although a signal sent while the thread is    *)
(* not yet asleep is lost (WTimeOut.cxx:101).                              *)
SilenceIsNoticed ==
    \A t \in 0..MaxTime :
        m_connected /\ main = "idle" /\ last_hc_time = t /\ Timeout # 0
            ~> \/ alarmed = t
               \/ main # "idle"

(* Cancel ends the thread, at the latest when the timeout expires: a       *)
(* thread that was about to sleep is not woken by BeforeCancel.            *)
CancelEndsTheThread == main = "join" ~> checker = "ended"
=============================================================================
