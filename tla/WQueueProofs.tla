---------------------------- MODULE WQueueProofs ----------------------------
(***************************************************************************)
(* Proofs about WQueue for every m_max and every number of calls: the      *)
(* queue's invariants, and that it implements Channel.                     *)
(***************************************************************************)
EXTENDS WQueue, SequenceTheorems, TLAPS

Events == 1..MaxPuts

-----------------------------------------------------------------------------
(* Moving the head of the queue to the end of what was delivered leaves    *)
(* their concatenation alone: Get keeps the order.                         *)
LEMMA HeadMoves ==
    ASSUME NEW S, NEW s \in Seq(S), NEW q \in Seq(S), q # <<>>
    PROVE  Append(s, Head(q)) \o Tail(q) = s \o q
<1>1. /\ Head(q) \in S /\ Tail(q) \in Seq(S) /\ Len(q) \in Nat
      /\ Len(Tail(q)) = Len(q) - 1
      /\ \A i \in 1..Len(Tail(q)) : Tail(q)[i] = q[i + 1]
      /\ Head(q) = q[1]
  BY HeadTailProperties, LenProperties
<1>2. Append(s, Head(q)) \in Seq(S) /\ Len(Append(s, Head(q))) = Len(s) + 1
      /\ Len(s) \in Nat
  BY <1>1, LenProperties
<1>3. /\ Append(s, Head(q)) \o Tail(q) \in Seq(S)
      /\ Len(Append(s, Head(q)) \o Tail(q)) = Len(s) + Len(q)
      /\ s \o q \in Seq(S) /\ Len(s \o q) = Len(s) + Len(q)
  BY <1>1, <1>2, ConcatProperties
<1>4. ASSUME NEW i \in 1..(Len(s) + Len(q))
      PROVE  (Append(s, Head(q)) \o Tail(q))[i] = (s \o q)[i]
  <2>1. (s \o q)[i] = IF i <= Len(s) THEN s[i] ELSE q[i - Len(s)]
    BY ConcatProperties
  <2>2. (Append(s, Head(q)) \o Tail(q))[i]
        = IF i <= Len(s) + 1 THEN Append(s, Head(q))[i]
                             ELSE Tail(q)[i - (Len(s) + 1)]
    BY <1>1, <1>2, ConcatProperties
  <2>3. CASE i <= Len(s)
    BY <2>1, <2>2, <2>3, <1>1, <1>2
  <2>4. CASE i = Len(s) + 1
    BY <2>1, <2>2, <2>4, <1>1, <1>2
  <2>5. CASE i > Len(s) + 1
    BY <2>1, <2>2, <2>5, <1>1, <1>2
  <2>6. QED BY <2>3, <2>4, <2>5, <1>1, <1>2
<1>5. QED BY <1>3, <1>4, SeqEqual

(* Put appends to what is in transit as it appends to what was accepted.   *)
LEMMA AppendMoves ==
    ASSUME NEW S, NEW s \in Seq(S), NEW q \in Seq(S), NEW e \in S
    PROVE  s \o Append(q, e) = Append(s \o q, e)
<1>1. /\ s \o q \in Seq(S) /\ <<e>> \in Seq(S)
      /\ Append(s \o q, e) = (s \o q) \o <<e>>
      /\ Append(q, e) = q \o <<e>>
  BY ConcatProperties, AppendIsConcat
<1>2. QED BY <1>1, ConcatAssociative

-----------------------------------------------------------------------------
(* The inductive invariant.  Counted is what a thread that was signalled   *)
(* may rely on although it tests nothing again; Ended is why a NULL from   *)
(* Get means a closed queue, and who may still put afterwards.             *)
Counted == /\ producer = "woken" => m_num < Max
           /\ consumer = "woken" => m_num > 0 \/ m_close
           /\ producer # "idle" => calls \in Events
           /\ m_close /\ producer # "idle" => raced

Ended == consumer = "end" =>
            /\ m_close
            /\ m_queue # <<>> => raced /\ Len(m_queue) = 1 /\ producer = "idle"

IInv == /\ TypeOK
        /\ CapacityRespected
        /\ Fifo
        /\ NoLostWakeup
        /\ Counted
        /\ Ended

LEMMA InitIInv == Init => IInv
<1> SUFFICES ASSUME Init PROVE IInv
  OBVIOUS
<1>1. Fifo
  BY ConcatEmptySeq DEF Init, Fifo
<1>2. TypeOK /\ CapacityRespected
  <2>1. <<>> \in Seq(1..MaxPuts) /\ Len(<<>>) = 0
    BY EmptySeq
  <2>2. m_num \in Nat /\ calls \in 0..MaxPuts
    BY MaxPutsAssumption DEF Init
  <2>3. TypeOK
    BY <2>1, <2>2, Zenon DEF Init, TypeOK
  <2>4. CapacityRespected
    BY <2>1, MaxAssumption DEF Init, CapacityRespected
  <2>5. QED BY <2>3, <2>4
<1>3. NoLostWakeup /\ Counted /\ Ended
  BY DEF Init, NoLostWakeup, Counted, Ended
<1>4. QED BY <1>1, <1>2, <1>3 DEF IInv

(* The effect of inserting, shared by PutNow and PutResume: there is room. *)
LEMMA InsertIInv ==
    ASSUME IInv, Insert, producer # "idle", producer # "wait",
           Max # 0 => m_num < Max
    PROVE  IInv'
<1> USE DEF IInv
<1>1. calls \in Events /\ calls \in Nat
  BY MaxPutsAssumption DEF Counted, Events
<1>2. /\ m_queue' = Append(m_queue, calls) /\ m_queue' \in Seq(Events)
      /\ Len(m_queue') = Len(m_queue) + 1 /\ m_queue' # <<>>
      /\ accepted' = Append(accepted, calls) /\ accepted' \in Seq(Events)
      /\ Len(m_queue) \in Nat
  BY <1>1, AppendProperties, LenProperties DEF Insert, InsertItem, TypeOK, Events
<1>3. TypeOK'
  BY <1>2 DEF TypeOK, Insert, SignalGet, Events
<1>4. CapacityRespected'
  BY <1>2, MaxAssumption DEF CapacityRespected, Insert
<1>5. Fifo'
  <2>1. delivered \in Seq(Events) /\ m_queue \in Seq(Events)
    BY DEF TypeOK, Events
  <2>2. delivered \o Append(m_queue, calls) = Append(delivered \o m_queue, calls)
    BY <1>1, <2>1, AppendMoves
  <2>3. QED BY <2>2, <1>2 DEF Fifo, Insert
<1>6. NoLostWakeup'
  BY DEF NoLostWakeup, Insert, SignalGet, WakesGet
<1>7. Counted'
  BY <1>2 DEF Counted, Insert, SignalGet, WakesGet, CapacityRespected, NoLostWakeup, TypeOK
<1>8. Ended'
  <2>1. consumer' = "end" => consumer = "end"
    BY DEF Insert, SignalGet
  <2>2. consumer = "end" => m_close /\ raced /\ m_queue = <<>>
    BY DEF Ended, Counted
  <2>3. QED BY <2>1, <2>2, <1>2 DEF Ended, Insert
<1>9. QED BY <1>3, <1>4, <1>5, <1>6, <1>7, <1>8

(* The effect of the part of Get after the wait.                           *)
LEMMA TakeIInv ==
    ASSUME IInv, Take, (consumer = "get" /\ ~GetMustWait) \/ consumer = "woken"
    PROVE  IInv'
<1> USE DEF IInv
<1>1. m_num \in Nat /\ m_num = Len(m_queue) /\ m_queue \in Seq(Events)
  BY LenProperties DEF TypeOK, CapacityRespected, Events
<1>2. m_num > 0 \/ m_close
  BY <1>1 DEF Counted, GetMustWait
<1>3. m_num = 0 <=> m_queue = <<>>
  BY <1>1, EmptySeq
<1>4. CASE EmptyAndClosed
  <2>1. /\ consumer' = "end" /\ m_close /\ m_queue = <<>>
        /\ UNCHANGED <<m_queue, m_num, m_close, producer, calls,
                       accepted, delivered, raced>>
    BY <1>3, <1>4 DEF Take, EmptyAndClosed
  <2>2. producer # "wait"
    BY <1>4, MaxAssumption DEF NoLostWakeup, EmptyAndClosed, Take, CapacityRespected, PutMustWait
  <2>3. QED BY <2>1, <2>2 DEF TypeOK, CapacityRespected, Fifo, NoLostWakeup, Counted, Ended
<1>5. CASE ~EmptyAndClosed
  <2>1. m_num > 0 /\ m_queue # <<>>
    BY <1>1, <1>2, <1>3, <1>5 DEF EmptyAndClosed
  <2>2. /\ m_num' = m_num - 1 /\ consumer' = "run"
        /\ m_queue' = Tail(m_queue) /\ delivered' = Append(delivered, Head(m_queue))
        /\ IF WakesPut THEN SignalPut ELSE UNCHANGED producer
        /\ UNCHANGED <<m_close, calls, accepted, raced>>
    BY <1>5, <2>1 DEF Take
  <2>3. /\ Head(m_queue) \in Events /\ m_queue' \in Seq(Events)
        /\ Len(m_queue') = Len(m_queue) - 1
        /\ delivered' \in Seq(Events)
    BY <1>1, <2>1, <2>2, HeadTailProperties, AppendProperties DEF TypeOK, Events
  <2>4. TypeOK'
    BY <1>1, <2>2, <2>3 DEF TypeOK, SignalPut, Events
  <2>5. CapacityRespected'
    BY <1>1, <2>2, <2>3, MaxAssumption DEF CapacityRespected
  <2>6. Fifo'
    BY <2>1, <2>2, HeadMoves DEF Fifo, TypeOK
  <2>7. NoLostWakeup'
    BY <1>1, <2>1, <2>2, MaxAssumption DEF NoLostWakeup, SignalPut, WakesPut
  <2>8. Counted'
    BY <1>1, <2>1, <2>2, MaxAssumption
       DEF Counted, SignalPut, WakesPut, NoLostWakeup
  <2>9. Ended'
    BY <2>2 DEF Ended
  <2>10. QED BY <2>4, <2>5, <2>6, <2>7, <2>8, <2>9
<1>6. QED BY <1>4, <1>5

LEMMA NextIInv == IInv /\ [Next]_vars => IInv'
<1> SUFFICES ASSUME IInv, [Next]_vars PROVE IInv'
  OBVIOUS
<1> USE DEF IInv
<1>0. /\ m_num \in Nat /\ m_num = Len(m_queue)
      /\ m_num = 0 <=> m_queue = <<>>
  BY LenProperties, EmptySeq DEF TypeOK, CapacityRespected
<1>1. CASE PutCheck
  BY <1>1, MaxPutsAssumption
     DEF PutCheck, TypeOK, CapacityRespected, Fifo, NoLostWakeup, Counted, Ended, Events
<1>2. CASE PutWait
  <2>1. consumer \notin {"wait", "end"}
    BY <1>0, <1>2, MaxAssumption DEF PutWait, PutMustWait, NoLostWakeup, Ended
  <2>2. QED
    BY <2>1, <1>2 DEF PutWait, PutMustWait, TypeOK, CapacityRespected, Fifo,
                      NoLostWakeup, Counted, Ended
<1>3. CASE PutNow
  BY <1>0, <1>3, InsertIInv, MaxAssumption DEF PutNow, PutMustWait, CapacityRespected
<1>4. CASE PutResume
  BY <1>4, InsertIInv DEF PutResume, Counted
<1>5. CASE GetWait
  BY <1>0, <1>5, MaxAssumption
     DEF GetWait, GetMustWait, TypeOK, CapacityRespected, Fifo, NoLostWakeup, Counted, Ended
<1>6. CASE GetNow
  BY <1>6, TakeIInv DEF GetNow
<1>7. CASE GetResume
  BY <1>7, TakeIInv DEF GetResume
<1>8. CASE RunEvent
  BY <1>8 DEF RunEvent, TypeOK, CapacityRespected, Fifo, NoLostWakeup, Counted, Ended
<1>9. CASE Close
  BY <1>0, <1>9
     DEF Close, SignalGet, TypeOK, CapacityRespected, Fifo, NoLostWakeup, Counted, Ended
<1>10. CASE UNCHANGED vars
  BY <1>10 DEF vars, TypeOK, CapacityRespected, Fifo, NoLostWakeup, Counted, Ended
<1>11. QED
  BY <1>1, <1>2, <1>3, <1>4, <1>5, <1>6, <1>7, <1>8, <1>9, <1>10
     DEF Next, Producer, Consumer, Finished

(* The inductive invariant holds in every reachable state.                 *)
THEOREM IInvHolds == Spec => []IInv
BY InitIInv, NextIInv, PTL DEF Spec

(* The variables keep their types (WQueue.hxx:39-42).                      *)
THEOREM TypeCorrect == Spec => []TypeOK
BY IInvHolds, PTL DEF IInv

(* A bounded queue never exceeds m_max and m_num never drifts from the     *)
(* list, although Put inserts unconditionally after its wait: with one     *)
(* producer nobody else can take the room it was signalled for.            *)
THEOREM QueueBounded == Spec => []CapacityRespected
BY IInvHolds, PTL DEF IInv

(* No waiting thread is forgotten by the signals of Put, Get and Close.    *)
THEOREM WakeupsKept == Spec => []NoLostWakeup
BY IInvHolds, PTL DEF IInv

(* What Put accepted is run, but for one event racing with Close.          *)
THEOREM LossBounded == Spec => []OnlyARacingPutIsLost
<1>1. IInv => OnlyARacingPutIsLost
  BY DEF IInv, Ended, OnlyARacingPutIsLost
<1>2. QED BY <1>1, IInvHolds, PTL

(* Get returns NULL only on a closed queue.                                *)
THEOREM NullOnlyWhenClosed == Spec => []NullMeansClosed
<1>1. IInv => NullMeansClosed
  BY DEF IInv, Ended, NullMeansClosed
<1>2. QED BY <1>1, IInvHolds, PTL

-----------------------------------------------------------------------------
(* Refinement: the steps of WQueue are steps of Channel or stutter.        *)

LEMMA InitChannel == Init => Chan!Init
BY DEF Init, Chan!Init

(* An insertion is a Send: the queue is open or the producer is late.      *)
LEMMA InsertIsSend ==
    ASSUME IInv, Insert, producer # "idle", Max # 0 => m_num < Max
    PROVE  Chan!Next
<1> USE DEF IInv
<1>1. Len(accepted) = Len(delivered) + Len(m_queue)
      /\ Len(accepted) \in Nat /\ Len(delivered) \in Nat /\ Len(m_queue) \in Nat
  BY ConcatProperties, LenProperties DEF Fifo, TypeOK
<1>2. calls \in 1..MaxPuts
  BY DEF Counted, Events
<1>3. Max = 0 \/ Chan!InTransit < Max
  BY <1>1, MaxAssumption DEF Chan!InTransit, CapacityRespected
<1>4. (consumer = "end") = (consumer' = "end")
  BY DEF Insert, SignalGet
<1>5. Chan!Send(calls)
  BY <1>3, <1>4 DEF Chan!Send, Insert, TypeOK
<1>6. QED BY <1>2, <1>5 DEF Chan!Next

(* The rest of Get delivers the oldest event or ends the receiver.         *)
LEMMA TakeIsDeliverOrEnd ==
    ASSUME IInv, Take, (consumer = "get" /\ ~GetMustWait) \/ consumer = "woken"
    PROVE  Chan!Next
<1> USE DEF IInv
<1>1. /\ Len(accepted) = Len(delivered) + Len(m_queue)
      /\ Len(accepted) \in Nat /\ Len(delivered) \in Nat /\ Len(m_queue) \in Nat
      /\ m_num = Len(m_queue)
      /\ m_num = 0 <=> m_queue = <<>>
  BY ConcatProperties, LenProperties, EmptySeq DEF Fifo, TypeOK, CapacityRespected
<1>2. m_num > 0 \/ m_close
  BY <1>1 DEF Counted, GetMustWait
<1>3. CASE EmptyAndClosed
  <2>1. Chan!End
    BY <1>1, <1>3 DEF Take, EmptyAndClosed, Chan!End, Chan!InTransit
  <2>2. QED BY <2>1 DEF Chan!Next
<1>4. CASE ~EmptyAndClosed
  <2>1. m_num > 0 /\ m_queue # <<>>
    BY <1>1, <1>2, <1>4 DEF EmptyAndClosed
  <2>2. accepted[Len(delivered) + 1] = Head(m_queue)
    BY <1>1, <2>1, ConcatProperties DEF Fifo, TypeOK
  <2>3. (producer = "idle") = (producer' = "idle") /\ consumer' # "end"
    BY <1>4, <2>1 DEF Take, SignalPut
  <2>4. consumer # "end"
    OBVIOUS
  <2>5. Chan!Deliver
    BY <1>1, <1>4, <2>1, <2>2, <2>3, <2>4 DEF Take, Chan!Deliver
  <2>6. QED BY <2>5 DEF Chan!Next
<1>5. QED BY <1>3, <1>4

LEMMA NextChannel == IInv /\ IInv' /\ [Next]_vars => [Chan!Next]_(Chan!chan)
<1> SUFFICES ASSUME IInv, IInv', [Next]_vars PROVE [Chan!Next]_(Chan!chan)
  OBVIOUS
<1>1. CASE PutCheck
  BY <1>1 DEF PutCheck, Chan!chan
<1>2. CASE PutWait
  BY <1>2 DEF PutWait, Chan!chan
<1>3. CASE PutNow
  BY <1>3, InsertIsSend, MaxAssumption
     DEF PutNow, PutMustWait, IInv, CapacityRespected, TypeOK
<1>4. CASE PutResume
  BY <1>4, InsertIsSend DEF PutResume, IInv, Counted
<1>5. CASE GetWait
  BY <1>5 DEF GetWait, Chan!chan
<1>6. CASE GetNow
  BY <1>6, TakeIsDeliverOrEnd DEF GetNow
<1>7. CASE GetResume
  BY <1>7, TakeIsDeliverOrEnd DEF GetResume
<1>8. CASE RunEvent
  BY <1>8 DEF RunEvent, Chan!chan
<1>9. CASE Close
  <2>1. Chan!Close
    BY <1>9 DEF Close, SignalGet, Chan!Close
  <2>2. QED BY <2>1 DEF Chan!Next
<1>10. CASE UNCHANGED vars
  BY <1>10 DEF vars, Chan!chan
<1>11. QED
  BY <1>1, <1>2, <1>3, <1>4, <1>5, <1>6, <1>7, <1>8, <1>9, <1>10
     DEF Next, Producer, Consumer, Finished

(* Each queue of the process is a bounded closable FIFO channel.           *)
THEOREM QueueIsAChannel == Spec => ImplementsChannel
<1>1. Spec => []IInv
  BY IInvHolds
<1>2. QED
  BY <1>1, InitChannel, NextChannel, PTL DEF Spec, ImplementsChannel, Chan!Spec
=============================================================================
