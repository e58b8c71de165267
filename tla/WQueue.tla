------------------------------- MODULE WQueue -------------------------------
(***************************************************************************)
(* The event queue between two threads of the receive process (WQueue.hxx) *)
(* with the loop of the thread that consumes it (WThread::OnExecute) and   *)
(* the calls of the thread that feeds it (WThread::Notify, Cancel).        *)
(*                                                                         *)
(* Every queue of the process has one producer: main feeds the Work, HC    *)
(* and HCCheck queues, the Work thread feeds the DB queue.  A section      *)
(* under m_mutex is one step; pthread_cond_wait splits it, and a thread    *)
(* that was signalled still has to take the mutex again ("woken").         *)
(* Put reads m_close before it takes the mutex: that read is its own step. *)
(***************************************************************************)
EXTENDS Naturals, Sequences

CONSTANTS Max,      \* m_max: 0 for no bound (work_buff_size for the DB queue)
          MaxPuts   \* bound: how many events the producer notifies

ASSUME MaxAssumption == Max \in Nat
ASSUME MaxPutsAssumption == MaxPuts \in Nat

VARIABLES m_queue,    \* the RWTPtrSlist: event numbers, oldest first
          m_num,      \* the counter kept beside it
          m_close,
          producer,   \* "idle" | "checked" | "wait" | "woken"
          consumer,   \* "get" | "wait" | "woken" | "run" | "end" (m_end)
          calls,      \* calls of Put so far; the number of the current event
          accepted,   \* history: events whose Put returned true
          delivered,  \* history: events the consumer ran
          raced       \* history: the producer was inside Put when Close ran

vars == <<m_queue, m_num, m_close, producer, consumer, calls,
          accepted, delivered, raced>>

Init == /\ m_queue = <<>> /\ m_num = 0 /\ m_close = FALSE
        /\ producer = "idle" /\ consumer = "get" /\ calls = 0
        /\ accepted = <<>> /\ delivered = <<>> /\ raced = FALSE

-----------------------------------------------------------------------------
(* The conditions of Put, Get and Close, each read under m_mutex.          *)

NeverFull == FALSE                           \* mutant: Put ignores m_max
PutMustWait == Max # 0 /\ m_num = Max

GetMustWait == m_num = 0 /\ ~m_close

EmptyAndClosed == m_num = 0
                  /\ m_close

(* pthread_cond_signal(&m_cond_get): a waiting consumer has to run again;  *)
(* without a waiter the signal is lost.                                    *)
SignalGet == consumer' = IF consumer = "wait" THEN "woken" ELSE consumer

SignalPut == producer' = IF producer = "wait" THEN "woken" ELSE producer

(* Put signals the getter only for the item that makes the queue nonempty. *)
WakesGetAtTwo == m_num = 1                   \* mutant: off by one
WakesGet == m_num = 0

(* Get signals the putter only when it takes the item of a full queue.     *)
WakesPutAboveMax == Max # 0 /\ m_num - 1 = Max  \* mutant: compared with m_max
WakesPut == Max # 0 /\ m_num - 1 = Max - 1

-----------------------------------------------------------------------------
(* Put, called by WThread::Notify.                                         *)

PutUnchecked == /\ producer = "idle" /\ calls < MaxPuts   \* mutant: no test of m_close
                /\ calls' = calls + 1
                /\ producer' = "checked"
                /\ UNCHANGED <<m_queue, m_num, m_close, consumer,
                               accepted, delivered, raced>>

(* The test before the lock.  A refused event is deleted by Notify.        *)
PutCheck == /\ producer = "idle" /\ calls < MaxPuts
            /\ calls' = calls + 1
            /\ producer' = IF m_close THEN "idle" ELSE "checked"
            /\ UNCHANGED <<m_queue, m_num, m_close, consumer,
                           accepted, delivered, raced>>

InsertFront == m_queue' = <<calls>> \o m_queue   \* mutant: a stack
InsertItem == m_queue' = Append(m_queue, calls)

Insert == /\ InsertItem
          /\ m_num' = m_num + 1
          /\ IF WakesGet THEN SignalGet ELSE UNCHANGED consumer
          /\ accepted' = Append(accepted, calls)
          /\ producer' = "idle"
          /\ UNCHANGED <<m_close, calls, delivered, raced>>

PutWait == /\ producer = "checked" /\ PutMustWait
           /\ producer' = "wait"
           /\ UNCHANGED <<m_queue, m_num, m_close, consumer, calls,
                          accepted, delivered, raced>>

PutNow == producer = "checked" /\ ~PutMustWait /\ Insert

(* After pthread_cond_wait neither the room nor m_close is tested again.   *)
PutResume == producer = "woken" /\ Insert

-----------------------------------------------------------------------------
(* Get, called by WThread::OnExecute, and the rest of that loop.           *)

GetWait == /\ consumer = "get" /\ GetMustWait
           /\ consumer' = "wait"
           /\ UNCHANGED <<m_queue, m_num, m_close, producer, calls,
                          accepted, delivered, raced>>

(* After the wait, once.  RWTPtrSlist::get of an empty list returns nil,   *)
(* which the loop takes for "Event queue is closed".                       *)
Take == \/ /\ EmptyAndClosed
           /\ consumer' = "end"
           /\ UNCHANGED <<m_queue, m_num, m_close, producer, calls,
                          accepted, delivered, raced>>
        \/ /\ ~EmptyAndClosed
           /\ m_num' = m_num - 1
           /\ IF WakesPut THEN SignalPut ELSE UNCHANGED producer
           /\ IF m_queue = <<>>
              THEN /\ consumer' = "end"
                   /\ UNCHANGED <<m_queue, delivered>>
              ELSE /\ consumer' = "run"
                   /\ m_queue' = Tail(m_queue)
                   /\ delivered' = Append(delivered, Head(m_queue))
           /\ UNCHANGED <<m_close, calls, accepted, raced>>

GetNow == consumer = "get" /\ ~GetMustWait /\ Take

GetResume == consumer = "woken" /\ Take

(* event->Run returned or threw: the event is deleted, the loop goes on.   *)
RunEvent == /\ consumer = "run"
            /\ consumer' = "get"
            /\ UNCHANGED <<m_queue, m_num, m_close, producer, calls,
                           accepted, delivered, raced>>

-----------------------------------------------------------------------------
(* WThread::Cancel.  The process calls it once per thread.                 *)

CloseSilently == /\ ~m_close                 \* mutant: no signal
                 /\ m_close' = TRUE
                 /\ raced' = (producer # "idle")
                 /\ UNCHANGED <<m_queue, m_num, producer, consumer, calls,
                                accepted, delivered>>

Close == /\ ~m_close
         /\ m_close' = TRUE
         /\ IF m_num = 0 THEN SignalGet ELSE UNCHANGED consumer
         /\ raced' = (producer # "idle")
         /\ UNCHANGED <<m_queue, m_num, producer, calls, accepted, delivered>>

Producer == PutCheck \/ PutWait \/ PutNow \/ PutResume
Consumer == GetWait \/ GetNow \/ GetResume \/ RunEvent

(* Nothing is left to do: the thread was joined.                           *)
Finished == /\ consumer = "end" /\ producer = "idle" /\ calls = MaxPuts
            /\ UNCHANGED vars

Next == Producer \/ Consumer \/ Close \/ Finished

Spec == Init /\ [][Next]_vars

(* The threads run: a call of Put that has begun goes on, the consumer's   *)
(* loop goes on.  Nothing obliges the producer to call Put or main to call *)
(* Cancel.                                                                 *)
Fairness == /\ WF_vars(PutWait \/ PutNow \/ PutResume)
            /\ WF_vars(Consumer)

FairSpec == Spec /\ Fairness

(* POSIX lets pthread_cond_wait return without a signal.                   *)
SpuriousWakeup == /\ \/ consumer = "wait" /\ consumer' = "woken" /\ UNCHANGED producer
                     \/ producer = "wait" /\ producer' = "woken" /\ UNCHANGED consumer
                  /\ UNCHANGED <<m_queue, m_num, m_close, calls,
                                 accepted, delivered, raced>>

SpuriousSpec == Init /\ [][Next \/ SpuriousWakeup]_vars

-----------------------------------------------------------------------------
TypeOK == /\ m_queue \in Seq(1..MaxPuts)
          /\ m_num \in Nat
          /\ m_close \in BOOLEAN
          /\ producer \in {"idle", "checked", "wait", "woken"}
          /\ consumer \in {"get", "wait", "woken", "run", "end"}
          /\ calls \in 0..MaxPuts
          /\ accepted \in Seq(1..MaxPuts)
          /\ delivered \in Seq(1..MaxPuts)
          /\ raced \in BOOLEAN

(* The counter the conditions read is the length of the list, and a        *)
(* bounded queue never holds more than m_max although Put tests the room   *)
(* with an if (WQueue.hxx:93) and inserts unconditionally after the wait.  *)
CapacityRespected == /\ m_num = Len(m_queue)
                     /\ Max # 0 => m_num <= Max

(* Each event whose Put returned true is run exactly once, in the order of *)
(* the calls: what was run and what is queued is what was accepted.        *)
Fifo == accepted = delivered \o m_queue

(* OnExecute takes a NULL from Get for "Event queue is closed"             *)
(* (WThread.cxx:120): the thread ends only after Cancel.                   *)
NullMeansClosed == consumer = "end" => m_close

(* When the consumer has ended, no event whose Put returned true is left   *)
(* in the queue, but for the single one whose Put was running when Close   *)
(* was called (WQueue.hxx:88: m_close is read before the lock and never    *)
(* again).                                                                 *)
OnlyARacingPutIsLost ==
    consumer = "end" /\ m_queue # <<>> => raced /\ Len(m_queue) = 1

(* No wake-up is lost: a consumer waits only on an empty open queue, a     *)
(* producer only on a full one whose consumer is still running, so that    *)
(* the next Get signals it.                                                *)
NoLostWakeup ==
    /\ consumer = "wait" => m_num = 0 /\ ~m_close
    /\ producer = "wait" => /\ Max # 0 /\ m_num = Max
                            /\ consumer \notin {"wait", "end"}

(* Cancel ends the thread whatever it was doing, so the Wait (pthread_join)*)
(* that follows each Cancel in Main.cxx returns.                           *)
CancelEndsTheThread == m_close ~> consumer = "end"

(* A Put blocked on a full queue returns, also when Close overtakes it,    *)
(* although Close never signals m_cond_put.                                *)
PutReturns == producer # "idle" ~> producer = "idle"

(* What Put accepted is run in the end, unless it raced with Close.        *)
AcceptedIsRun ==
    \A n \in 1..MaxPuts :
        Len(accepted) >= n ~> (Len(delivered) >= n \/ raced)

(* The queue implements the closable channel.                              *)
Chan == INSTANCE Channel WITH
            Item <- 1..MaxPuts, Capacity <- Max,
            closed <- m_close, late <- (m_close /\ producer # "idle"),
            ended <- (consumer = "end")

ImplementsChannel == Chan!Spec
=============================================================================
