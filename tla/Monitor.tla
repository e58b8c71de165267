------------------------------- MODULE Monitor -------------------------------
(***************************************************************************)
(* The monitor (src/realworking/src/monitor) and the control script that   *)
(* starts and stops what it watches (sh/rtwork_control.sh).  The main      *)
(* thread starts one thread that polls the processes and one per command   *)
(* log, looks every second whether they run, and stops them on SIGTERM.    *)
(* The process watcher asks fuser for the pid of each process, learns from *)
(* SIGUSR1/2 that the script is stopping one, and reports every change to  *)
(* the alarm system.  Module LogWatch says what the log watchers do with a *)
(* log; here they are threads that log, may fail and can be cancelled.     *)
(*                                                                         *)
(* One life of the monitor.  SIGTERM and SIGUSR1/2 are blocked from        *)
(* maskSignal() on in all threads; main unblocks SIGTERM while it sleeps.  *)
(***************************************************************************)
EXTENDS Naturals, FiniteSets, FiniteSetsExt

CONSTANTS NumProcs,    \* process 1 is the receive process, 2 the reflect process
          MaxPids,     \* bound: processes started
          MaxFaults    \* bound: failing calls

ASSUME MonitorAssumption ==
    NumProcs \in Nat \ {0} /\ MaxPids \in Nat /\ MaxFaults \in Nat

VARIABLES running,     \* [Procs -> the pids of the process]
          started,     \* pids given so far
          asked,       \* history: pids that run and were sent SIGTERM
          launching,   \* [Procs -> calls of start between the test and nohup]
          stopCall,    \* [Procs -> the step of the call of stop, and its pids]
          mpc,         \* main
          stopAt,      \* the thread StopMonitor is at
          pending,     \* signals blocked and pending
          killTells,   \* pthread_kill(t, 0) fails for a thread that has ended,
                       \*   which is up to the system; chosen when one has
          mutex,       \* who holds gl_mtxLog
          thr,         \* [Threads -> where the thread is]
          cancel,      \* threads with a cancellation request
          at,          \* the step of the process watcher and its process
          isProcStopping, procPid, runFlagOld,
          reported,    \* what the alarm system was told last
          lost,        \* processes whose last report was not sent
          overtaken,   \* history: pids that run and were first seen while the
                       \*   notice of a stop was still on its way
          faults

world   == <<running, started, asked, launching, stopCall>>
main    == <<mpc, stopAt, killTells>>
threads == <<thr, cancel>>
watch   == <<at, isProcStopping, procPid, runFlagOld>>
ao      == <<reported, lost>>
vars    == <<world, main, pending, mutex, threads, watch, ao, overtaken, faults>>

Procs   == 1..NumProcs
Pids    == 1..MaxPids
Watcher == 0                          \* the process watcher; p: the log watcher of p
Threads == {Watcher} \cup Procs
MainThread == NumProcs + 1
Free       == NumProcs + 2            \* nobody holds the mutex
TERM    == 0                          \* p: the SIGUSR of process p
NoPid   == 0
Status  == {"dummy", "started", "stopping", "stopped"}
NoCall  == [op |-> "none", pids |-> {}]

Init == /\ running = [p \in Procs |-> {}] /\ started = 0 /\ asked = {}
        /\ launching = [p \in Procs |-> 0] /\ stopCall = [p \in Procs |-> NoCall]
        /\ mpc = "boot" /\ stopAt = Watcher /\ pending = {} /\ killTells = FALSE
        /\ mutex = Free /\ thr = [t \in Threads |-> "none"] /\ cancel = {}
        /\ at = [step |-> "signal", proc |-> 1]
        /\ isProcStopping = [p \in Procs |-> FALSE] /\ procPid = [p \in Procs |-> NoPid]
        /\ runFlagOld = [p \in Procs |-> "dummy"]
        /\ reported = [p \in Procs |-> "dummy"] /\ lost = {} /\ overtaken = {}
        /\ faults = 0

Fault == faults < MaxFaults /\ faults' = faults + 1
Alive == mpc # "exited"

------------------------------------------------------------------------------
(* The control script, and the processes.                                  *)

(* DoStart: the test with ps, then nohup.  Any number of callers.          *)
TestStart(p) ==
    /\ running[p] = {} /\ started + launching[p] < MaxPids
    /\ launching' = [launching EXCEPT ![p] = @ + 1]
    /\ UNCHANGED <<running, started, asked, stopCall, main, pending, mutex, threads, watch,
                   ao, overtaken, faults>>

Launch(p) == /\ launching[p] > 0 /\ started < MaxPids
             /\ launching' = [launching EXCEPT ![p] = @ - 1]
             /\ started' = started + 1
             /\ running' = [running EXCEPT ![p] = @ \cup {started + 1}]
             /\ UNCHANGED <<asked, stopCall, main, pending, mutex, threads, watch, ao,
                            overtaken, faults>>

(* DoStop: the pids; SIGTERM to all of them, an error if one is gone; the  *)
(* notice to the monitor.  Bound: one call for a process at a time.        *)
TestStop(p) == /\ stopCall[p] = NoCall /\ running[p] # {}
               /\ stopCall' = [stopCall EXCEPT ![p] = [op |-> "term", pids |-> running[p]]]
               /\ UNCHANGED <<running, started, asked, launching, main, pending, mutex,
                              threads, watch, ao, overtaken, faults>>

Kill(p) == /\ stopCall[p].op = "term"
           /\ asked' = asked \cup (stopCall[p].pids \cap running[p])
           /\ stopCall' = [stopCall EXCEPT ![p] =
                              IF stopCall[p].pids \subseteq running[p]
                              THEN [op |-> "notify", pids |-> {}] ELSE NoCall]
           /\ UNCHANGED <<running, started, launching, main, pending, mutex, threads, watch,
                          ao, overtaken, faults>>

(* SIGUSR1/2 to the monitor, if ps finds it.  A monitor that has not       *)
(* blocked the signal yet is ended by it.                                  *)
NotifyMonitor(p) ==
    /\ stopCall[p].op = "notify"
    /\ stopCall' = [stopCall EXCEPT ![p] = NoCall]
    /\ mpc' = IF mpc \in {"boot", "registered"} THEN "exited" ELSE mpc
    /\ pending' = IF mpc \in {"boot", "registered", "exited"} THEN pending
                  ELSE pending \cup {p}
    /\ UNCHANGED <<running, started, asked, launching, stopAt, killTells, mutex, threads,
                   watch, ao, overtaken, faults>>

ProcessEnds(p) == \E x \in running[p] :
                     /\ running' = [running EXCEPT ![p] = @ \ {x}]
                     /\ asked' = asked \ {x} /\ overtaken' = overtaken \ {x}
                     /\ UNCHANGED <<started, launching, stopCall, main, pending, mutex,
                                    threads, watch, ao, faults>>

(* Bound: what happens after the monitor has ended is not followed.        *)
Control == \E p \in Procs :
              \/ Alive /\ (TestStart(p) \/ Launch(p) \/ TestStop(p) \/ Kill(p) \/ ProcessEnds(p))
              \/ NotifyMonitor(p)

(* The stop of the monitor.  Between sigaction and sigprocmask the handler *)
(* runs and finds gl_pRealworkMonitor null: the signal is swallowed.       *)
Sigterm == /\ Alive /\ mpc # "registered" /\ TERM \notin pending
           /\ IF mpc = "boot" THEN mpc' = "exited" /\ UNCHANGED pending
                              ELSE pending' = pending \cup {TERM} /\ UNCHANGED mpc
           /\ UNCHANGED <<world, stopAt, killTells, mutex, threads, watch, ao, overtaken,
                          faults>>

------------------------------------------------------------------------------
(* Main.                                                                   *)

Goto(from, to) == /\ mpc = from /\ mpc' = to
                  /\ UNCHANGED <<world, stopAt, killTells, pending, mutex, threads, watch,
                                 ao, overtaken, faults>>

(* registSigterm, maskSignal; then Initialize, which may fail.             *)
Boot == Goto("boot", "registered") \/ Goto("registered", "initialize")
        \/ Goto("initialize", "start")

InitFails == /\ mpc = "initialize" /\ Fault
             /\ mpc' = "exited"
             /\ UNCHANGED <<world, stopAt, killTells, pending, mutex, threads, watch, ao,
                            overtaken>>

(* StartMonitor: the threads one after the other.                          *)
Starts(t) == /\ mpc = "start" /\ thr[t] = "none"
             /\ \A u \in Threads : u < t => thr[u] # "none"

StartThread == \E t \in Threads :
    /\ Starts(t)
    /\ thr' = [thr EXCEPT ![t] = "work"]
    /\ mpc' = IF t = NumProcs THEN "started" ELSE mpc
    /\ UNCHANGED <<world, stopAt, killTells, pending, mutex, cancel, watch, ao, overtaken,
                   faults>>

StartFails == /\ \E t \in Threads : Starts(t)
              /\ Fault
              /\ mpc' = "stop" /\ stopAt' = Watcher
              /\ UNCHANGED <<world, killTells, pending, mutex, threads, watch, ao, overtaken>>

(* "Monitor process is started!" is logged under the mutex.                *)
LogStarted == \/ /\ mpc = "started" /\ mutex = Free
                 /\ mpc' = "logging" /\ mutex' = MainThread
                 /\ UNCHANGED <<world, stopAt, killTells, pending, threads, watch, ao,
                                overtaken, faults>>
              \/ /\ mpc = "logging"
                 /\ mpc' = "check" /\ mutex' = Free
                 /\ UNCHANGED <<world, stopAt, killTells, pending, threads, watch, ao,
                                overtaken, faults>>

IsRunning(t) == thr[t] # "none" /\ (thr[t] \in {"failed", "cancelled"} => ~killTells)

(* CheckRunningStatus.  A watcher that ended is logged before the stop.    *)
CheckRunningStatus ==
    /\ mpc = "check"
    /\ IF \A t \in Threads : IsRunning(t)
       THEN mpc' = "window" /\ UNCHANGED stopAt
       ELSE mutex = Free /\ mpc' = "stop" /\ stopAt' = Watcher
    /\ UNCHANGED <<world, killTells, pending, mutex, threads, watch, ao, overtaken, faults>>

(* Main sleeps with SIGTERM unblocked.  A signal that is not blocked is    *)
(* delivered before the thread goes on.                                    *)
UnmaskedTooLong == mpc \in {"logging", "window"}   \* mutant: not masked in main()
Unmasked == mpc = "window"

MaskAgain == TERM \notin pending /\ Goto("window", "check")

SigTerm == /\ Unmasked /\ TERM \in pending
           /\ pending' = pending \ {TERM}
           /\ mpc' = "handler"
           /\ UNCHANGED <<world, stopAt, killTells, mutex, threads, watch, ao, overtaken,
                          faults>>

(* The handler logs first.                                                 *)
HandlerLogs == /\ mpc = "handler" /\ mutex = Free
               /\ mpc' = "stop" /\ stopAt' = Watcher
               /\ UNCHANGED <<world, killTells, pending, mutex, threads, watch, ao,
                              overtaken, faults>>

(* StopMonitor and WatchThread::Stop: log, pthread_cancel, pthread_join,   *)
(* one thread after the other; then the objects are deleted.               *)
After(t) == /\ mpc' = (IF t = NumProcs THEN "exited" ELSE "stop")
            /\ stopAt' = (IF t = NumProcs THEN t ELSE t + 1)

CancelThread ==
    /\ mpc = "stop"
    /\ IF IsRunning(stopAt)
       THEN /\ mutex = Free
            /\ cancel' = cancel \cup {stopAt} /\ mpc' = "join" /\ UNCHANGED stopAt
       ELSE After(stopAt) /\ UNCHANGED cancel
    /\ UNCHANGED <<world, killTells, pending, mutex, thr, watch, ao, overtaken, faults>>

(* WATCHER_EXIT_ABNORMAL makes Stop fail, and StopMonitor go on.           *)
GivesUp(t) == IF thr[t] = "failed"           \* mutant: StopMonitor ends at a failure
              THEN mpc' = "exited" /\ UNCHANGED stopAt ELSE After(t)
GoesOn(t) == After(t)

JoinThread == /\ mpc = "join" /\ thr[stopAt] \in {"failed", "cancelled"}
              /\ GoesOn(stopAt)
              /\ UNCHANGED <<world, killTells, pending, mutex, threads, watch, ao,
                             overtaken, faults>>

Main == \/ Boot \/ StartThread \/ LogStarted \/ CheckRunningStatus \/ MaskAgain
        \/ SigTerm \/ HandlerLogs \/ CancelThread \/ JoinThread

------------------------------------------------------------------------------
(* The watcher threads.  Cancellation is disabled but for a test at the    *)
(* end of each round.                                                      *)

Moves(t, from, to) == Alive /\ thr[t] = from /\ thr' = [thr EXCEPT ![t] = to]
EndOfRound(t) == IF t \in cancel THEN "cancelled" ELSE "work"

LogRound(p) == /\ \/ Moves(p, "work", "log") /\ mutex = Free /\ mutex' = p
                  \/ Moves(p, "log", EndOfRound(p)) /\ mutex' = Free
               /\ UNCHANGED <<world, main, pending, cancel, watch, ao, overtaken, faults>>

(* A failing system call, or a failing fuser: logged, and the thread ends. *)
WatcherFails(t) ==
    /\ t = Watcher => at.step = "fuser"
    /\ mutex = Free /\ Moves(t, "work", "failed") /\ Fault
    /\ killTells' \in IF \E u \in Threads : thr[u] = "failed" THEN {killTells} ELSE BOOLEAN
    /\ UNCHANGED <<world, mpc, stopAt, pending, mutex, cancel, watch, ao, overtaken>>

------------------------------------------------------------------------------
(* The process watcher.                                                    *)

AtStep(s) == Alive /\ thr[Watcher] = "work" /\ at.step = s

Advance == IF at.proc = NumProcs
           THEN /\ at' = [step |-> "signal", proc |-> 1]
                /\ thr' = [thr EXCEPT ![Watcher] = EndOfRound(Watcher)]
           ELSE /\ at' = [step |-> "signal", proc |-> at.proc + 1]
                /\ UNCHANGED thr

(* sigtimedwait with a timeout of zero.                                    *)
TakeSignal == /\ AtStep("signal")
              /\ isProcStopping' = [isProcStopping EXCEPT ![at.proc] = @ \/ at.proc \in pending]
              /\ pending' = pending \ {at.proc}
              /\ at' = [at EXCEPT !.step = "fuser"]
              /\ UNCHANGED <<world, main, mutex, threads, procPid, runFlagOld, ao,
                             overtaken, faults>>

(* fuser prints the pids in order; the first is taken.                     *)
IsProcessStarted(p) == IF running[p] = {} THEN NoPid ELSE Min(running[p])

AnyPid(p, pid) == TRUE                       \* mutant: no test for a new pid
SamePid(p, pid) == pid = procPid[p]

StillStopping(p, pid) == isProcStopping[p] /\ pid # NoPid /\ SamePid(p, pid)

ProcessStatus(stopping, pid) == CASE pid = NoPid -> "stopped"
                                  [] pid # NoPid /\ stopping -> "stopping"
                                  [] OTHER -> "started"

FirstStatus(p, flag) == runFlagOld[p] = "dummy"    \* mutant: the old flag is not compared
Changed(p, flag) == runFlagOld[p] # flag

(* A stop of p that has begun and that the watcher does not know yet.      *)
OnItsWay(p) == p \in pending \/ stopCall[p].op # "none"

(* GetProcessStatus; the old flag is read again only in the next round.    *)
GetProcessStatus ==
    /\ AtStep("fuser")
    /\ LET p    == at.proc
           pid  == IsProcessStarted(p)
           stop == StillStopping(p, pid)
           flag == ProcessStatus(stop, pid)
       IN /\ isProcStopping' = [isProcStopping EXCEPT ![p] = stop]
          /\ procPid' = [procPid EXCEPT ![p] = pid]
          /\ runFlagOld' = [runFlagOld EXCEPT ![p] = flag]
          /\ overtaken' = IF pid \notin {NoPid, procPid[p]} /\ OnItsWay(p)
                          THEN overtaken \cup {pid} ELSE overtaken
          /\ IF Changed(p, flag) THEN at' = [at EXCEPT !.step = "send"] /\ UNCHANGED thr
                                 ELSE Advance
    /\ UNCHANGED <<world, main, pending, mutex, cancel, ao, faults>>

(* SendAo logs, and what it returns is not looked at.                      *)
SendAo == /\ AtStep("send") /\ mutex = Free
          /\ reported' = [reported EXCEPT ![at.proc] = runFlagOld[at.proc]]
          /\ lost' = lost \ {at.proc}
          /\ Advance
          /\ UNCHANGED <<world, main, pending, mutex, cancel, isProcStopping, procPid,
                         runFlagOld, overtaken, faults>>

SendAoFails == /\ AtStep("send") /\ mutex = Free /\ Fault
               /\ lost' = lost \cup {at.proc}
               /\ Advance
               /\ UNCHANGED <<world, main, pending, mutex, cancel, isProcStopping, procPid,
                              runFlagOld, reported, overtaken>>

WatchProcesses == TakeSignal \/ GetProcessStatus \/ SendAo

Failure == InitFails \/ StartFails \/ SendAoFails \/ \E t \in Threads : WatcherFails(t)

Exited == mpc = "exited" /\ UNCHANGED vars

Next == Control \/ Sigterm \/ Main \/ WatchProcesses \/ (\E p \in Procs : LogRound(p)) \/ Failure \/ Exited

Spec == Init /\ [][Next]_vars

(* The threads of the monitor run, and get the log's mutex in the end.     *)
(* Nobody has to call the script and no process has to end.                *)
Fairness == /\ SF_vars(Main) /\ SF_vars(WatchProcesses)
            /\ \A p \in Procs : WF_vars(LogRound(p))

FairSpec == Spec /\ Fairness

------------------------------------------------------------------------------
Moments == {"boot", "registered", "initialize", "start", "started", "logging", "check",
            "window", "handler", "stop", "join", "exited"}
ThreadStates == {"none", "work", "log", "failed", "cancelled"}

TypeOK ==
    /\ running \in [Procs -> SUBSET Pids] /\ started \in 0..MaxPids /\ asked \subseteq Pids
    /\ launching \in [Procs -> 0..MaxPids]
    /\ stopCall \in [Procs -> [op : {"none", "term", "notify"}, pids : SUBSET Pids]]
    /\ mpc \in Moments
    /\ stopAt \in Threads /\ pending \subseteq {TERM} \cup Procs /\ killTells \in BOOLEAN
    /\ mutex \in Procs \cup {MainThread, Free}
    /\ thr \in [Threads -> ThreadStates]
    /\ cancel \subseteq Threads
    /\ at \in [step : {"signal", "fuser", "send"}, proc : Procs]
    /\ isProcStopping \in [Procs -> BOOLEAN] /\ procPid \in [Procs -> Pids \cup {NoPid}]
    /\ runFlagOld \in [Procs -> Status] /\ reported \in [Procs -> Status]
    /\ lost \subseteq Procs /\ overtaken \subseteq Pids /\ faults \in 0..MaxFaults

(* A process is reported as stopping only if it was asked to stop: the     *)
(* notice of the stop of an earlier instance is not taken for its own,     *)
(* "the process is started again with a new pid"                           *)
(* (ProcessWatcher.cpp:150) -- but for an instance that the watcher saw    *)
(* before that notice reached it.                                          *)
StoppingIsTrue ==
    \A p \in Procs : runFlagOld[p] = "stopping" /\ procPid[p] \in running[p]
                        => procPid[p] \in asked \cup overtaken

(* No watcher thread runs when its object is deleted, although StopMonitor *)
(* meets threads that were never started, that failed and that cannot be   *)
(* cancelled at once (RealworkMonitor.cpp:177-207).                        *)
NoThreadOutlivesItsObject ==
    mpc = "exited" => \A t \in Threads : thr[t] \in {"none", "failed", "cancelled"}

(* Once the monitor has blocked SIGTERM, a SIGTERM ends it, and so does a  *)
(* watcher that failed where pthread_kill tells so: the handler never      *)
(* waits for a mutex its own thread or a cancelled one holds               *)
(* (Main.cpp:29, 163-176).                                                 *)
MonitorEnds ==
    TERM \in pending \/ (killTells /\ \E t \in Threads : thr[t] = "failed") ~> mpc = "exited"

(* The alarm system does not stay wrong about a process: a lasting change  *)
(* is reported, however it fell between the watcher's steps, and the       *)
(* report of a stop does not outlast the instance that was stopped.        *)
(* Exempt are a process whose very report was lost, until the next one     *)
(* (ProcessWatcher.cpp:61: it is not sent again), an instance overtaken by *)
(* an earlier one's notice, and a watcher that has ended.                  *)
Watching == thr[Watcher] = "work" /\ Alive

TrueReports(p) ==
    IF running[p] = {} THEN {"stopped"}
    ELSE {"started"} \cup {r \in {"stopping"} : IsProcessStarted(p) \in asked \cup overtaken}

Misreported(p) == Watching /\ p \notin lost /\ reported[p] \notin TrueReports(p)

LastingStatusIsReported == \A p \in Procs : []<>~Misreported(p)
=============================================================================
