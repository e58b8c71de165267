--------------------------- MODULE MonitorProofs ---------------------------
(***************************************************************************)
(* Proofs about Monitor for every number of processes, starts and faults:  *)
(* a process reported as stopping was asked to stop, and no thread         *)
(* outlives the object it runs.                                            *)
(***************************************************************************)
EXTENDS Monitor, WellFoundedInduction, TLAPS

LEMMA Constants == /\ NumProcs \in Nat \ {0} /\ MaxPids \in Nat /\ MaxFaults \in Nat
                   /\ Procs = 1..NumProcs /\ Threads = {0} \cup 1..NumProcs
                   /\ Watcher \in Threads /\ Procs \subseteq Threads /\ 1 \in Procs
BY MonitorAssumption DEF Procs, Threads, Watcher

(* The pid fuser prints first.                                             *)
LEMMA MinType == ASSUME NEW S \in SUBSET Pids, S # {} PROVE Min(S) \in S
<1>1. S \subseteq Nat
  BY Constants DEF Pids
<1>2. PICK x \in S : \A y \in S : ~(<<y, x>> \in OpToRel(<, Nat))
  BY <1>1, WFMin, NatLessThanWellFounded
<1>3. \A y \in S : x <= y
  <2>1. SUFFICES ASSUME NEW y \in S, y < x PROVE FALSE
    BY <1>1
  <2>2. <<y, x>> \in {ss \in Nat \X Nat : ss[1] < ss[2]}
    BY <1>1, <2>1
  <2>3. OpToRel(<, Nat) = {ss \in Nat \X Nat : ss[1] < ss[2]}
    BY Zenon DEF OpToRel
  <2>4. QED BY <2>2, <2>3, <1>2, Zenon
<1>4. QED BY <1>3 DEF Min

LEMMA FirstPid == ASSUME TypeOK, NEW p \in Procs
                  PROVE  /\ running[p] = {} => IsProcessStarted(p) = NoPid
                         /\ running[p] # {} => IsProcessStarted(p) \in running[p]
BY MinType DEF TypeOK, IsProcessStarted

LEMMA InitType == Init => TypeOK
<1> SUFFICES ASSUME Init PROVE TypeOK
  OBVIOUS
<1>1. /\ 0 \in 0..MaxPids /\ 0 \in 0..MaxFaults /\ {} \subseteq Pids
  BY Constants
<1>2. /\ "boot" \in Moments /\ "none" \in ThreadStates /\ "dummy" \in Status
      /\ NoCall \in [op : {"none", "term", "notify"}, pids : SUBSET Pids]
  BY DEF Moments, ThreadStates, Status, NoCall
<1>3. QED BY <1>1, <1>2, Constants DEF Init, TypeOK

LEMMA NextType == TypeOK /\ [Next]_vars => TypeOK'
<1> SUFFICES ASSUME TypeOK, [Next]_vars PROVE TypeOK'
  OBVIOUS
<1>0. Fault => faults' \in 0..MaxFaults
  BY Constants DEF TypeOK, Fault
<1> USE Constants DEF TypeOK, world, main, threads, watch, ao, Moments
<1>1. ASSUME NEW p \in Procs, TestStart(p) PROVE TypeOK'
  <2>1. launching[p] + 1 \in 0..MaxPids
    BY <1>1 DEF TestStart
  <2>2. launching' \in [Procs -> 0..MaxPids]
    BY <1>1, <2>1 DEF TestStart
  <2>3. QED BY <1>1, <2>2 DEF TestStart
<1>2. ASSUME NEW p \in Procs, Launch(p) PROVE TypeOK'
  <2>1. started + 1 \in Pids /\ started + 1 \in 0..MaxPids /\ launching[p] - 1 \in 0..MaxPids
    BY <1>2 DEF Launch, Pids
  <2>2. launching' \in [Procs -> 0..MaxPids] /\ started' \in 0..MaxPids
    BY <1>2, <2>1 DEF Launch
  <2>3. running' \in [Procs -> SUBSET Pids]
    <3>1. running' = [running EXCEPT ![p] = @ \cup {started + 1}]
      BY <1>2 DEF Launch
    <3>2. running[p] \cup {started + 1} \in SUBSET Pids
      BY <2>1
    <3>3. QED BY <3>1, <3>2
  <2>4. UNCHANGED <<asked, stopCall, main, pending, mutex, threads, watch, ao, overtaken, faults>>
    BY <1>2 DEF Launch
  <2>5. QED BY <2>2, <2>3, <2>4
<1>3. ASSUME NEW p \in Procs, TestStop(p) \/ Kill(p) PROVE TypeOK'
  <2>0. \A o \in {"none", "term", "notify"}, P \in SUBSET Pids :
           [op |-> o, pids |-> P] \in [op : {"none", "term", "notify"}, pids : SUBSET Pids]
    OBVIOUS
  <2>1. stopCall' \in [Procs -> [op : {"none", "term", "notify"}, pids : SUBSET Pids]]
    <3>1. CASE TestStop(p)
      <4>1. stopCall' = [stopCall EXCEPT ![p] = [op |-> "term", pids |-> running[p]]]
        BY <3>1 DEF TestStop
      <4>2. running[p] \in SUBSET Pids
        OBVIOUS
      <4>3. [op |-> "term", pids |-> running[p]] \in
               [op : {"none", "term", "notify"}, pids : SUBSET Pids]
        BY <2>0, <4>2
      <4>4. stopCall \in [Procs -> [op : {"none", "term", "notify"}, pids : SUBSET Pids]]
        OBVIOUS
      <4> DEFINE new == [op |-> "term", pids |-> running[p]]
      <4>5. /\ new \in [op : {"none", "term", "notify"}, pids : SUBSET Pids]
            /\ stopCall' = [stopCall EXCEPT ![p] = new]
        BY <4>1, <4>3
      <4> HIDE DEF new
      <4>6. QED BY <4>4, <4>5, Zenon
    <3>2. CASE Kill(p)
      <4> DEFINE new == IF stopCall[p].pids \subseteq running[p]
                        THEN [op |-> "notify", pids |-> {}] ELSE NoCall
      <4>1. stopCall' = [stopCall EXCEPT ![p] = new]
        BY <3>2 DEF Kill
      <4>2. new \in [op : {"none", "term", "notify"}, pids : SUBSET Pids]
        BY <2>0 DEF NoCall
      <4> HIDE DEF new
      <4>3. QED BY <4>1, <4>2
    <3>3. QED BY <1>3, <3>1, <3>2
  <2>2. asked' \subseteq Pids
    BY <1>3 DEF TestStop, Kill
  <2>3. UNCHANGED <<running, started, launching, main, pending, mutex, threads, watch, ao,
                     overtaken, faults>>
    BY <1>3 DEF TestStop, Kill
  <2>4. QED BY <2>1, <2>2, <2>3
<1>4. ASSUME NEW p \in Procs, NotifyMonitor(p) PROVE TypeOK'
  <2>1. stopCall' \in [Procs -> [op : {"none", "term", "notify"}, pids : SUBSET Pids]]
    BY <1>4 DEF NotifyMonitor, NoCall
  <2>2. mpc' \in Moments /\ pending' \subseteq {TERM} \cup Procs
    BY <1>4 DEF NotifyMonitor
  <2>3. QED BY <1>4, <2>1, <2>2 DEF NotifyMonitor
<1>5. ASSUME NEW p \in Procs, ProcessEnds(p) PROVE TypeOK'
  <2>1. PICK x \in running[p] : running' = [running EXCEPT ![p] = @ \ {x}]
    BY <1>5 DEF ProcessEnds
  <2>2. running[p] \ {x} \in SUBSET Pids
    OBVIOUS
  <2>3. running' \in [Procs -> SUBSET Pids]
    BY <2>1, <2>2
  <2>4. asked' \subseteq asked /\ overtaken' \subseteq overtaken
    BY <1>5 DEF ProcessEnds
  <2>5. UNCHANGED <<started, launching, stopCall, main, pending, mutex, threads, watch, ao, faults>>
    BY <1>5 DEF ProcessEnds
  <2>6. QED BY <2>3, <2>4, <2>5
<1>6. CASE Sigterm
  BY <1>6 DEF Sigterm
<1>7. CASE Boot \/ MaskAgain
  BY <1>7 DEF Boot, MaskAgain, Goto
<1>8. CASE InitFails \/ StartFails
  <2>1. faults' \in 0..MaxFaults
    <3>1. Fault
      BY <1>8 DEF InitFails, StartFails
    <3>2. QED BY <3>1, <1>0
  <2>2. mpc' \in Moments /\ stopAt' \in Threads
    BY <1>8 DEF InitFails, StartFails
  <2>3. QED BY <1>8, <2>1, <2>2 DEF InitFails, StartFails
<1>9. CASE StartThread
  <2>1. PICK t \in Threads : Starts(t) /\ thr' = [thr EXCEPT ![t] = "work"]
    BY <1>9 DEF StartThread
  <2>2. thr' \in [Threads -> ThreadStates] /\ mpc' \in Moments
    BY <1>9, <2>1 DEF ThreadStates, StartThread
  <2>3. QED BY <1>9, <2>2 DEF StartThread
<1>10. CASE LogStarted
  BY <1>10 DEF LogStarted
<1>11. CASE CheckRunningStatus
  BY <1>11 DEF CheckRunningStatus
<1>12. CASE SigTerm \/ HandlerLogs
  BY <1>12 DEF SigTerm, HandlerLogs
<1>13. ASSUME NEW t \in Threads, After(t) PROVE mpc' \in Moments /\ stopAt' \in Threads
  BY <1>13 DEF After
<1>14. CASE CancelThread
  <2>1. cancel' \subseteq Threads
    <3>1. cancel' \in {cancel, cancel \cup {stopAt}}
      BY <1>14 DEF CancelThread
    <3>2. QED BY <3>1
  <2>2. mpc' \in Moments /\ stopAt' \in Threads
    BY <1>14, <1>13 DEF CancelThread
  <2>3. QED BY <1>14, <2>1, <2>2 DEF CancelThread
<1>15. CASE JoinThread
  BY <1>15, <1>13 DEF JoinThread, GoesOn
<1>16. ASSUME NEW t \in Threads, EndOfRound(t) = EndOfRound(t) PROVE EndOfRound(t) \in ThreadStates
  BY DEF EndOfRound, ThreadStates
<1>17. ASSUME NEW p \in Procs, LogRound(p) PROVE TypeOK'
  <2>1. thr' \in [Threads -> ThreadStates]
    <3>1. PICK s \in ThreadStates : thr' = [thr EXCEPT ![p] = s]
      BY <1>17, <1>16 DEF LogRound, Moves, ThreadStates
    <3>2. QED BY <3>1
  <2>2. QED BY <1>17, <2>1 DEF LogRound
<1>18. ASSUME NEW t \in Threads, WatcherFails(t) PROVE TypeOK'
  <2>1. thr' \in [Threads -> ThreadStates]
    BY <1>18 DEF WatcherFails, Moves, ThreadStates
  <2>2. killTells' \in BOOLEAN
    BY <1>18 DEF WatcherFails
  <2>3. Fault /\ UNCHANGED <<world, mpc, stopAt, pending, mutex, cancel, watch, ao, overtaken>>
    BY <1>18 DEF WatcherFails
  <2>4. QED BY <2>1, <2>2, <2>3, <1>0
<1>19. ASSUME Advance PROVE /\ thr' \in [Threads -> ThreadStates]
                            /\ at' \in [step : {"signal", "fuser", "send"}, proc : Procs]
  BY <1>19, <1>16 DEF Advance
<1>20. CASE TakeSignal
  BY <1>20 DEF TakeSignal
<1>21. CASE GetProcessStatus
  <2> DEFINE p == at.proc
             pid == IsProcessStarted(p)
             stop == StillStopping(p, pid)
             flag == ProcessStatus(stop, pid)
  <2>1. p \in Procs /\ pid \in Pids \cup {NoPid} /\ stop \in BOOLEAN /\ flag \in Status
    BY FirstPid DEF StillStopping, ProcessStatus, Status
  <2>2. /\ isProcStopping' = [isProcStopping EXCEPT ![p] = stop]
        /\ procPid' = [procPid EXCEPT ![p] = pid]
        /\ runFlagOld' = [runFlagOld EXCEPT ![p] = flag]
        /\ overtaken' \in {overtaken, overtaken \cup {pid}} /\ (pid = NoPid => overtaken' = overtaken)
        /\ Advance \/ (at' = [at EXCEPT !.step = "send"] /\ UNCHANGED thr)
        /\ UNCHANGED <<world, main, pending, mutex, cancel, ao, faults>>
    BY <1>21 DEF GetProcessStatus
  <2> HIDE DEF pid, stop, flag
  <2>3. /\ thr' \in [Threads -> ThreadStates]
        /\ at' \in [step : {"signal", "fuser", "send"}, proc : Procs]
    BY <2>2, <1>19
  <2>4. QED BY <2>1, <2>2, <2>3
<1>22. CASE SendAo \/ SendAoFails
  <2>1. Advance /\ at.proc \in Procs
    BY <1>22 DEF SendAo, SendAoFails
  <2>2. faults' \in 0..MaxFaults
    <3>1. UNCHANGED faults \/ Fault
      BY <1>22 DEF SendAo, SendAoFails
    <3>2. QED BY <3>1, <1>0
  <2>3. reported' \in [Procs -> Status] /\ lost' \subseteq Procs
    BY <1>22, <2>1 DEF SendAo, SendAoFails
  <2>4. QED BY <1>22, <1>19, <2>1, <2>2, <2>3 DEF SendAo, SendAoFails
<1>23. CASE UNCHANGED vars
  BY <1>23 DEF vars
<1>24. QED
  BY <1>1, <1>2, <1>3, <1>4, <1>5, <1>6, <1>7, <1>8, <1>9, <1>10, <1>11, <1>12, <1>14,
     <1>15, <1>17, <1>18, <1>20, <1>21, <1>22, <1>23
     DEF Next, Control, Main, WatchProcesses, Failure, Exited

(* Main, the watchers, the script and the processes stay in their types.   *)
THEOREM TypeCorrect == Spec => []TypeOK
BY InitType, NextType, PTL DEF Spec

-----------------------------------------------------------------------------
(* Before StartMonitor there are no threads, and the threads before the    *)
(* one that StopMonitor is at have ended or were never started.            *)
Over == {"none", "failed", "cancelled"}

Stopped == /\ mpc \in {"boot", "registered", "initialize"} => \A t \in Threads : thr[t] = "none"
           /\ mpc \in {"stop", "join"} => \A t \in Threads : t < stopAt => thr[t] \in Over
           /\ NoThreadOutlivesItsObject

SInv == TypeOK /\ Stopped

LEMMA NextStopped == SInv /\ [Next]_vars => SInv'
<1> SUFFICES ASSUME SInv, [Next]_vars PROVE SInv'
  OBVIOUS
<1>0. TypeOK /\ TypeOK' /\ thr \in [Threads -> ThreadStates]
  BY NextType DEF SInv, TypeOK
<1> USE Constants DEF SInv, Stopped, NoThreadOutlivesItsObject, Over
(* What leaves the threads alone and main where it is.                     *)
<1>1. CASE UNCHANGED <<mpc, stopAt, thr>>
  BY <1>0, <1>1
(* A thread only moves on from its work, and while the monitor runs.       *)
<1>2. ASSUME NEW t \in Threads, UNCHANGED <<mpc, stopAt>>, mpc # "exited",
             thr[t] \in {"work", "log"}, thr' = [thr EXCEPT ![t] = thr'[t]]
      PROVE  SInv'
  BY <1>0, <1>2
<1>3. CASE Control
  <2>1. CASE UNCHANGED <<mpc, stopAt, thr>>
    BY <2>1, <1>1
  <2>2. CASE mpc \in {"boot", "registered"} /\ mpc' = "exited" /\ UNCHANGED <<stopAt, thr>>
    BY <2>2, <1>0
  <2>3. QED
    BY <1>3, <2>1, <2>2 DEF Control, TestStart, Launch, TestStop, Kill, NotifyMonitor,
          ProcessEnds, main, threads
<1>4. CASE Sigterm
  BY <1>0, <1>4 DEF Sigterm, threads
<1>5. CASE Boot \/ InitFails \/ LogStarted \/ MaskAgain \/ SigTerm
  BY <1>0, <1>5 DEF Boot, InitFails, LogStarted, MaskAgain, SigTerm, Goto, threads
<1>6. CASE StartThread
  BY <1>0, <1>6 DEF StartThread, Starts
<1>7. CASE StartFails \/ CheckRunningStatus \/ HandlerLogs
  <2>1. /\ thr' = thr /\ mpc # "exited"
        /\ mpc' = "window" \/ (mpc' = "stop" /\ stopAt' = 0)
    BY <1>7 DEF StartFails, Starts, CheckRunningStatus, HandlerLogs, threads, Watcher
  <2>2. \A t \in Threads : ~(t < 0)
    OBVIOUS
  <2>3. QED BY <1>0, <2>1, <2>2
(* StopMonitor goes on when the thread it is at has ended.                 *)
<1>8. ASSUME After(stopAt), mpc \in {"stop", "join"}, thr' = thr, thr[stopAt] \in Over
      PROVE  SInv'
  <2>1. stopAt \in Threads /\ \A t \in Threads : t < stopAt \/ t = stopAt => thr[t] \in Over
    BY <1>0, <1>8 DEF TypeOK
  <2>2. CASE stopAt = NumProcs
    <3>1. \A t \in Threads : t < stopAt \/ t = stopAt
      BY <2>2
    <3>2. mpc' = "exited"
      BY <1>8, <2>2 DEF After
    <3>3. QED BY <1>0, <1>8, <2>1, <3>1, <3>2
  <2>3. CASE stopAt # NumProcs
    <3>1. \A t \in Threads : t < stopAt + 1 => t < stopAt \/ t = stopAt
      BY <2>1
    <3>2. mpc' = "stop" /\ stopAt' = stopAt + 1
      BY <1>8, <2>3 DEF After
    <3>3. QED BY <1>0, <1>8, <2>1, <3>1, <3>2
  <2>4. QED BY <2>2, <2>3
<1>9. CASE CancelThread
  <2>1. CASE IsRunning(stopAt)
    BY <1>0, <1>9, <2>1 DEF CancelThread
  <2>2. CASE ~IsRunning(stopAt)
    <3>1. thr[stopAt] \in Over /\ After(stopAt) /\ thr' = thr /\ mpc = "stop"
      BY <1>9, <2>2 DEF CancelThread, IsRunning
    <3>2. QED BY <3>1, <1>8
  <2>3. QED BY <2>1, <2>2
<1>10. CASE JoinThread
  BY <1>8, <1>10 DEF JoinThread, GoesOn, threads
<1>11. ASSUME NEW p \in Procs, LogRound(p) PROVE SInv'
  <2>1. /\ p \in Threads /\ UNCHANGED <<mpc, stopAt>> /\ mpc # "exited"
        /\ thr[p] \in {"work", "log"} /\ thr' = [thr EXCEPT ![p] = thr'[p]]
    BY <1>0, <1>11 DEF LogRound, Moves, Alive, main
  <2>2. QED BY <2>1, <1>2
<1>12. ASSUME NEW t \in Threads, WatcherFails(t) PROVE SInv'
  <2>1. /\ UNCHANGED <<mpc, stopAt>> /\ mpc # "exited"
        /\ thr[t] \in {"work", "log"} /\ thr' = [thr EXCEPT ![t] = thr'[t]]
    BY <1>0, <1>12 DEF WatcherFails, Moves, Alive
  <2>2. QED BY <2>1, <1>2
<1>13. CASE WatchProcesses \/ SendAoFails
  <2>1. /\ UNCHANGED <<mpc, stopAt>> /\ mpc # "exited" /\ thr[Watcher] = "work"
        /\ thr' = thr \/ thr' = [thr EXCEPT ![Watcher] = EndOfRound(Watcher)]
    BY <1>13 DEF WatchProcesses, SendAoFails, SendAo, TakeSignal, GetProcessStatus, Advance,
          AtStep, Alive, main, threads
  <2>2. thr' = [thr EXCEPT ![Watcher] = thr'[Watcher]]
    BY <1>0, <2>1
  <2>3. QED BY <2>1, <2>2, <1>2
<1>14. CASE UNCHANGED vars
  BY <1>1, <1>14 DEF vars, main, threads
<1>15. QED
  BY <1>3, <1>4, <1>5, <1>6, <1>7, <1>9, <1>10, <1>11, <1>12, <1>13, <1>14
     DEF Next, Main, Failure, Exited

(* main deletes the watcher objects only after every thread has ended,     *)
(* whichever of them failed, were never started or take long to cancel.    *)
THEOREM NoThreadLeftBehind == Spec => []NoThreadOutlivesItsObject
<1>1. Init => SInv
  BY InitType DEF Init, SInv, Stopped, NoThreadOutlivesItsObject
<1>2. SInv => NoThreadOutlivesItsObject
  BY DEF SInv, Stopped
<1>3. QED BY <1>1, <1>2, NextStopped, PTL DEF Spec

-----------------------------------------------------------------------------
(* While the instance the watcher knows was neither asked to stop nor met  *)
(* by a notice on its way, no notice is, and a stop that has begun is for  *)
(* it too.                                                                 *)
Unasked(p) == procPid[p] \in running[p] \ (asked \cup overtaken)

Honest(p) == Unasked(p) => /\ p \notin pending /\ ~isProcStopping[p]
                           /\ runFlagOld[p] # "stopping"
                           /\ stopCall[p].op # "notify"
                           /\ stopCall[p].op = "term" => procPid[p] \in stopCall[p].pids

(* Pids are given once.                                                    *)
Fresh == /\ \A p \in Procs : running[p] \subseteq 1..started /\ procPid[p] \in 0..started
         /\ \A p, q \in Procs : p # q => running[p] \cap running[q] = {}

HInv == TypeOK /\ Fresh /\ \A p \in Procs : Honest(p)

(* What the honesty of a process depends on.                               *)
LEMMA HonestKept ==
    ASSUME NEW p \in Procs, Honest(p), Unasked(p)' => Unasked(p),
           UNCHANGED <<procPid[p], isProcStopping[p], runFlagOld[p], stopCall[p]>>,
           p \in pending' => p \in pending
    PROVE  Honest(p)'
BY DEF Honest

LEMMA NextHonest == HInv /\ [Next]_vars => HInv'
<1> SUFFICES ASSUME HInv, [Next]_vars PROVE HInv'
  OBVIOUS
<1>0. /\ TypeOK /\ TypeOK' /\ Fresh /\ \A p \in Procs : Honest(p)
      /\ running \in [Procs -> SUBSET Pids] /\ started \in Nat
      /\ DOMAIN stopCall = Procs /\ procPid \in [Procs -> Pids \cup {NoPid}]
      /\ isProcStopping \in [Procs -> BOOLEAN] /\ runFlagOld \in [Procs -> Status]
  <2>1. TypeOK /\ TypeOK' /\ Fresh /\ \A p \in Procs : Honest(p)
    BY NextType DEF HInv
  <2>2. /\ running \in [Procs -> SUBSET Pids] /\ started \in Nat
        /\ DOMAIN stopCall = Procs /\ procPid \in [Procs -> Pids \cup {NoPid}]
        /\ isProcStopping \in [Procs -> BOOLEAN] /\ runFlagOld \in [Procs -> Status]
    <3>1. started \in 0..MaxPids /\ DOMAIN stopCall = Procs
      BY <2>1 DEF TypeOK
    <3>2. started \in Nat
      BY <3>1, Constants
    <3>3. QED BY <2>1, <3>1, <3>2, Zenon DEF TypeOK
  <2>3. QED BY <2>1, <2>2, Zenon
<1>1. CASE UNCHANGED <<running, started, asked, stopCall, overtaken, isProcStopping, procPid,
                       runFlagOld>> /\ pending' \subseteq pending \cup {TERM}
  <2>1. Fresh'
    BY <1>0, <1>1 DEF Fresh
  <2>2. ASSUME NEW p \in Procs PROVE Honest(p)'
    <3>1. p # TERM
      BY Constants DEF TERM
    <3>2. QED BY <1>0, <1>1, <3>1 DEF Honest, Unasked
  <2>3. QED BY <1>0, <2>1, <2>2 DEF HInv
<1>2. ASSUME NEW p \in Procs, Launch(p) PROVE HInv'
  <2>1. /\ running' = [running EXCEPT ![p] = @ \cup {started + 1}] /\ started' = started + 1
        /\ UNCHANGED <<asked, stopCall, overtaken, isProcStopping, procPid, runFlagOld, pending>>
    BY <1>2 DEF Launch, watch
  <2>2. Fresh'
    <3>1. \A q \in Procs : running'[q] \subseteq 1..started' /\ procPid'[q] \in 0..started'
      BY <1>0, <2>1 DEF Fresh
    <3>2. \A q \in Procs : started + 1 \notin running[q]
      BY <1>0 DEF Fresh
    <3>3. \A q, r \in Procs : q # r => running'[q] \cap running'[r] = {}
      BY <1>0, <2>1, <3>2 DEF Fresh
    <3>4. QED BY <3>1, <3>3 DEF Fresh
  <2>3. ASSUME NEW q \in Procs PROVE Honest(q)'
    <3>1. procPid[q] # started + 1
      BY <1>0 DEF Fresh
    <3>2. Unasked(q)' => Unasked(q)
      BY <1>0, <2>1, <3>1 DEF Unasked
    <3>3. QED BY <1>0, <2>1, <3>2, HonestKept
  <2>4. QED BY <1>0, <2>2, <2>3 DEF HInv
<1>3. ASSUME NEW p \in Procs, TestStop(p) PROVE HInv'
  <2>1. /\ stopCall' = [stopCall EXCEPT ![p] = [op |-> "term", pids |-> running[p]]]
        /\ UNCHANGED <<running, started, asked, overtaken, isProcStopping, procPid, runFlagOld, pending>>
    BY <1>3 DEF TestStop, watch
  <2>2. ASSUME NEW q \in Procs PROVE Honest(q)'
    <3>1. CASE q = p
      BY <1>0, <2>1, <3>1 DEF Honest, Unasked
    <3>2. CASE q # p
      BY <1>0, <2>1, <3>2 DEF Honest, Unasked
    <3>3. QED BY <3>1, <3>2
  <2>3. QED BY <1>0, <2>1, <2>2 DEF HInv, Fresh
<1>4. ASSUME NEW p \in Procs, Kill(p) PROVE HInv'
  <2>1. /\ stopCall[p].op = "term" /\ \A q \in Procs \ {p} : stopCall'[q] = stopCall[q]
        /\ stopCall'[p].op \in {"notify", "none"}
        /\ asked' = asked \cup (stopCall[p].pids \cap running[p])
        /\ UNCHANGED <<running, started, overtaken, isProcStopping, procPid, runFlagOld, pending>>
    BY <1>0, <1>4 DEF Kill, watch, NoCall
  <2>2. ASSUME NEW q \in Procs PROVE Honest(q)'
    <3>1. Unasked(q)' => Unasked(q)
      BY <2>1 DEF Unasked
    <3>2. CASE q = p
      <4>1. ~Unasked(p)'
        BY <1>0, <2>1, <3>1, <3>2 DEF Honest, Unasked
      <4>2. QED BY <3>2, <4>1 DEF Honest
    <3>3. CASE q # p
      BY <1>0, <2>1, <3>1, <3>3, HonestKept
    <3>4. QED BY <3>2, <3>3
  <2>3. QED BY <1>0, <2>1, <2>2 DEF HInv, Fresh
<1>5. ASSUME NEW p \in Procs, NotifyMonitor(p) PROVE HInv'
  <2>1. /\ stopCall[p].op = "notify" /\ \A q \in Procs \ {p} : stopCall'[q] = stopCall[q]
        /\ pending' \subseteq pending \cup {p}
        /\ UNCHANGED <<running, started, asked, overtaken, isProcStopping, procPid, runFlagOld>>
    BY <1>0, <1>5 DEF NotifyMonitor, watch
  <2>2. ASSUME NEW q \in Procs PROVE Honest(q)'
    <3>1. CASE q = p
      BY <1>0, <2>1, <3>1 DEF Honest, Unasked
    <3>2. CASE q # p
      BY <1>0, <2>1, <3>2, HonestKept DEF Unasked
    <3>3. QED BY <3>1, <3>2
  <2>3. QED BY <1>0, <2>1, <2>2 DEF HInv, Fresh
<1>6. ASSUME NEW p \in Procs, ProcessEnds(p) PROVE HInv'
  <2>1. PICK x \in running[p] :
           /\ running' = [running EXCEPT ![p] = @ \ {x}]
           /\ asked' = asked \ {x} /\ overtaken' = overtaken \ {x}
           /\ UNCHANGED <<started, stopCall, isProcStopping, procPid, runFlagOld, pending>>
    BY <1>6 DEF ProcessEnds, watch
  <2>2. /\ running'[p] = running[p] \ {x} /\ \A q \in Procs \ {p} : running'[q] = running[q]
        /\ \A q \in Procs \ {p} : x \notin running[q]
    BY <1>0, <2>1 DEF Fresh
  <2>3. Fresh'
    BY <1>0, <2>1, <2>2 DEF Fresh
  <2>4. ASSUME NEW q \in Procs PROVE Honest(q)'
    <3>1. Unasked(q)' => Unasked(q)
      BY <2>1, <2>2 DEF Unasked
    <3>2. QED BY <1>0, <2>1, <3>1, HonestKept
  <2>5. QED BY <1>0, <2>3, <2>4 DEF HInv
<1>7. CASE TakeSignal
  <2> DEFINE p == at.proc
  <2>1. /\ p \in Procs /\ isProcStopping' = [isProcStopping EXCEPT ![p] = @ \/ p \in pending]
        /\ pending' = pending \ {p}
        /\ UNCHANGED <<running, started, asked, stopCall, overtaken, procPid, runFlagOld>>
    BY <1>0, <1>7 DEF TakeSignal, world, TypeOK
  <2> HIDE DEF p
  <2>2. ASSUME NEW q \in Procs PROVE Honest(q)'
    <3>1. Unasked(q)' => Unasked(q) /\ q \notin pending /\ ~isProcStopping[q]
      BY <1>0, <2>1 DEF Unasked, Honest
    <3>2. Unasked(q)' => ~isProcStopping'[q]
      BY <1>0, <2>1, <3>1
    <3>3. QED BY <1>0, <2>1, <3>1, <3>2 DEF Honest
  <2>3. QED BY <1>0, <2>1, <2>2 DEF HInv, Fresh
<1>8. CASE GetProcessStatus
  <2>0. PICK p \in Procs : p = at.proc
    BY <1>0 DEF TypeOK
  <2> DEFINE pid == IsProcessStarted(p)
             stop == StillStopping(p, pid)
             flag == ProcessStatus(stop, pid)
  <2>1. /\ pid \in running[p] \cup {NoPid}
        /\ stop \in BOOLEAN /\ flag \in Status /\ (flag = "stopping" => stop)
        /\ stop => isProcStopping[p] /\ pid = procPid[p]
    BY <1>0, FirstPid DEF StillStopping, SamePid, ProcessStatus, Status, TypeOK
  <2>2. /\ isProcStopping' = [isProcStopping EXCEPT ![p] = stop]
        /\ procPid' = [procPid EXCEPT ![p] = pid]
        /\ runFlagOld' = [runFlagOld EXCEPT ![p] = flag]
        /\ overtaken' = IF pid \notin {NoPid, procPid[p]} /\ OnItsWay(p)
                        THEN overtaken \cup {pid} ELSE overtaken
        /\ UNCHANGED <<running, started, asked, stopCall, pending>>
    BY <1>8, <2>0 DEF GetProcessStatus, world
  <2> HIDE DEF pid, stop, flag
  <2>3. isProcStopping'[p] = stop /\ procPid'[p] = pid /\ runFlagOld'[p] = flag
    BY <1>0, <2>1, <2>2
  <2>4. Fresh'
    <3>1. pid \in 0..started
      BY <1>0, <2>1 DEF Fresh, NoPid
    <3>2. QED BY <1>0, <2>1, <2>2, <3>1 DEF Fresh
  <2>5. ASSUME NEW q \in Procs PROVE Honest(q)'
    <3>1. CASE q # p
      BY <1>0, <2>1, <2>2, <3>1, HonestKept DEF Unasked
    <3>2. CASE q = p
      <4> SUFFICES ASSUME Unasked(p)'
                   PROVE  /\ p \notin pending /\ ~stop /\ flag # "stopping"
                          /\ stopCall[p].op # "notify"
                          /\ stopCall[p].op = "term" => pid \in stopCall[p].pids
        BY <2>2, <2>3, <3>2 DEF Honest
      <4>1. pid \in running[p] /\ pid \notin asked /\ pid \notin overtaken'
        BY <2>2, <2>3 DEF Unasked
      <4>2. CASE pid = procPid[p]
        <5>1. Unasked(p) /\ overtaken' = overtaken
          BY <4>1, <4>2, <2>2 DEF Unasked
        <5>2. QED BY <1>0, <2>1, <4>2, <5>1 DEF Honest
      <4>3. CASE pid # procPid[p]
        <5>1. pid # NoPid
          BY <1>0, <2>1, <4>1, Constants DEF NoPid, Pids
        <5>2. ~OnItsWay(p)
          BY <2>2, <4>1, <4>3, <5>1
        <5>3. p \notin pending /\ stopCall[p].op = "none"
          BY <5>2 DEF OnItsWay
        <5>4. QED BY <2>1, <4>3, <5>3
      <4>4. QED BY <4>2, <4>3
    <3>3. QED BY <3>1, <3>2
  <2>6. QED BY <1>0, <2>4, <2>5 DEF HInv
<1>9. CASE \/ Sigterm \/ Main \/ SendAo \/ Failure \/ UNCHANGED vars
           \/ \E p \in Procs : TestStart(p) \/ LogRound(p)
  <2>1. \/ UNCHANGED pending
        \/ pending' = pending \cup {TERM} \/ pending' = pending \ {TERM}
    BY <1>9 DEF Sigterm, Main, SendAo, Failure, TestStart, LogRound, Boot, StartThread,
          LogStarted, CheckRunningStatus, MaskAgain, SigTerm, HandlerLogs, CancelThread,
          JoinThread, Goto, InitFails, StartFails, SendAoFails, WatcherFails, vars
  <2>2. UNCHANGED <<running, started, asked, stopCall, overtaken, isProcStopping, procPid, runFlagOld>>
    BY <1>9 DEF Sigterm, Main, SendAo, Failure, TestStart, LogRound, Boot, StartThread,
          LogStarted, CheckRunningStatus, MaskAgain, SigTerm, HandlerLogs, CancelThread,
          JoinThread, Goto, InitFails, StartFails, SendAoFails, WatcherFails, vars,
          world, watch
  <2>3. QED BY <1>1, <2>1, <2>2
<1>10. QED
  BY <1>2, <1>3, <1>4, <1>5, <1>6, <1>7, <1>8, <1>9 DEF Next, Control, WatchProcesses, Exited

(* "Stopping" is reported only of a process that was asked to stop, or     *)
(* that the watcher first saw while a stop had begun.                      *)
THEOREM StoppingReportsAreTrue == Spec => []StoppingIsTrue
<1>1. Init => HInv
  BY InitType DEF Init, HInv, Fresh, Honest, Unasked, NoPid
<1>2. HInv => StoppingIsTrue
  BY DEF HInv, Honest, Unasked, StoppingIsTrue
<1>3. QED BY <1>1, <1>2, NextHonest, PTL DEF Spec
=============================================================================
