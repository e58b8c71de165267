# Verification of the realworking system

`src/realworking` receives notices of planned network works from an external
system, keeps them in a database table, and lowers the control time of the alarm
objects of the circuits concerned when a work ends or is cancelled; a monitor watches its processes
and their logs. `src/snmp_thread_tool` collects data of network nodes. This directory holds TLA+
models of them, TLC runs on small instances, and TLAPS proofs.

```
tlc -workers 2 -config WQueue.cfg WQueue     # any run of PROJECT.json
tlapm WQueueProofs.tla                       # any *Proofs module
```

## 1. Inventory

| Component | State | Operations | Interacts with |
|---|---|---|---|
| Event queue, thread base (`receive/include/WQueue.hxx`, `WThread.cxx`) | list, `m_num`, `m_close`, mutex, two condition variables | Put, Get, Close; Notify, Cancel, Wait, the loop OnExecute | carries every event between the threads below |
| Receive: main and socket (`Main.cxx`, `WSocket.cxx`) | listening and client descriptor, `m_connected`, `m_start`, `m_mutex`, `xmlBuff`, signal flags | Connect, ReadWork, Readn, Disconnect, CheckSignal, the shutdown of `main` | the one client; Notify and Cancel of all threads; SIGTERM and SIGRTMIN |
| Receive: Work thread (`WSaxXml.cxx`) | the document being parsed | Run: parse, records to the DB thread, reply | DB queue; socket (under `m_mutex`) |
| Receive: HC thread (`WHead.cxx`) | none of its own | Run: answer a health check or refuse a request | socket |
| Receive: HC check timer (`WTimeOut.cxx`) | `last_hc_time`, `m_stop`, `m_lock` | BeforeNotify, BeforeCancel, AfterRun | main writes its variables without the lock |
| Receive: DB thread (`DBWrite.cxx`, `WRecord.cxx`, `DBConnection.cxx`, `CstFile.cxx`) | record buffer, table rows, transaction, `m_skip`, temporary file | AddXmlRecord, ExecuteRecords, ReconnectDB, WriteEnd | Oracle; result directory; SIGTERM to main |
| Reflect process (`reflect/Main.cpp`, `WorkReflector.cpp`) | input, backup and merge files, `m_userStop` | PollCsvFile, MergeFile, CallOcReflection, MoveIntoBackup | result directory; perl script |
| `sh/update_control_time.pl` | control time of alarm objects | NeedToBeUpdated, manage | alarm system |
| `sh/reflect_tar_del.sh` | archives | tar, gzip, rm | the backup directory |
| `sh/rtwork_control.sh` | none; its callers are in the middle of a call | DoStart: test with ps, nohup; DoStop: pids, SIGTERM to all, notice to the monitor | every process; SIGUSR1/2 to the monitor |
| Monitor: supervisor (`monitor/Main.cpp`, `RealworkMonitor.cpp`, `WatchThread.cpp`) | its thread objects, signal masks, `m_isStarted`, the mutex of the log | StartMonitor, CheckRunningStatus, StopMonitor; the SIGTERM handler | its threads (start, pthread_kill, cancel, join) |
| Monitor: process watcher (`ProcessWatcher.cpp`, `AoSender.cpp`) | pid, stopping flag and old status of each process | a round of sigtimedwait, fuser, GetProcessStatus, SendAo | SIGUSR1/2, fuser, the alarm system |
| Monitor: log watcher (`LogWatcher.cpp`, `LogAnalyzer.cpp`) | file it follows, position in it | GetCurrentLogFile, OpenLogFileTail, WatchLog | the two files of the command log |
| Common log (`common/src/common_log.cxx`) | current log file, its size | OpenFile, WriteLog, CheckSize | read by the log watcher |
| Configuration, text conversions, cleaning scripts | none that changes | read once | |
| SNMP tool (`snmp_thread_tool/*.pl`) | task and result queue, part files, output file; sessions of a collector | ReadNodeListConf, RunThreads, SnmpThread; CollectMib | collectors run by threads; network nodes |
| Circuit discovery (`circuit_discovery.plsql`) | report rows, visited cross-connections, circuit cache | walk over an inventory | database |

What is hard:

* **Concurrency.** Five threads of the receive process share one socket, four
  queues and several flags that are read or written without a lock. The queue
  tests its conditions with `if` and signals conditionally. Two processes and a
  nightly script share directories, a log and its watcher two files, the threads of the
  SNMP control and their collectors the part files; anybody may call the control script at any time.
* **Signals.** SIGTERM may arrive between a test and a blocking call, and
  its handlers run on whatever the process was doing.
* **Failure.** The client's connection breaks in the middle of a document; a
  statement, a log-on or a commit fails; a file cannot be moved; any
  process is killed and started again.
* **Time.** The health-check timer races with the health checks.

What makes each part correct: the queue is a FIFO channel that loses nothing and
wakes everyone; the receive process handles whole documents of one connection,
answers only an open one and, stopped by SIGTERM, drains its queues before it exits; the timer
raises an alarm for every lasting silence; a commit is the whole of what was buffered, and a
committed end of a work is reported at most once, and at least once but for a crash or a break
in the commit; every result file is reflected
and then archived; of two log files one is current and its lines are analysed once and in order;
the monitor tells the alarm system the lasting state of each process, as far as no report is
lost and no notice of a stop is late, and ends with all its threads; the SNMP output holds what
the collectors gathered.

## 2. Modules

| Module | Stands for | Composition |
|---|---|---|
| `Channel` | what a queue promises | abstract specification |
| `WQueue` | the queue with its producer and its consumer | implements `Channel` (property `ImplementsChannel`, theorem `QueueIsAChannel`) |
| `WQueueProofs` | proofs about `WQueue` | |
| `Receiver` | main, Work, HC and DB thread, client, signals | its queues are channels in the sense of `Channel` |
| `HcCheck`, `HcCheckProofs` | the timer and main's calls of it | its queue is a channel |
| `DbWrite` | the DB thread, the database, the result file | takes the batches `Receiver` shows to be whole |
| `Reflection` | what the reflect process promises | abstract specification |
| `Reflector` | the reflect process with the script it calls, and what a kill leaves running | implements `Reflection` (property `ImplementsReflection`, theorem `ReflectorReflects`); takes the files `DbWrite` publishes |
| `BackupArchive` | the archive script | extends `Reflector` |
| `LogWatch` | the common log of a process and the monitor's thread that follows it | shares only the two files |
| `Monitor` | the supervisor with its threads, the control script and the processes it starts and stops | its log watchers are the thread of `LogWatch`, seen from the supervisor |
| `SnmpTask` | the SNMP control with its threads and the collectors they run | |
| `ReceiverProofs`, `DbWriteProofs`, `ReflectorProofs`, `LogWatchProofs`, `MonitorProofs`, `SnmpTaskProofs` | proofs about the module they are named after | |

The queue is proved to be a channel once, so that the other modules need one
step for Put and one for Get. `Receiver` hands the DB thread a batch; `DbWrite`
says what becomes of one; `Reflector` says what becomes of a result file.

### WQueue and Channel

A section under `m_mutex` is one action; `pthread_cond_wait` splits it, and a
signalled thread is `"woken"` until it has the mutex again. Put reads `m_close`
before it locks (`PutCheck`), then waits, or inserts (`PutWait`, `PutNow`,
`PutResume`). Get is `GetWait`, `GetNow`, `GetResume`; the body of the loop that
runs an event is `RunEvent`; Cancel is `Close`. Every queue of the process has
one producer: this is what makes `if` tests good enough, and the model has one
producer for that reason. The action `SpuriousWakeup` is only in `SpuriousSpec`.

### Receiver

`mpc` is the statement main is at; `part`, `head` and `xmlBuff` are the locals of
ReadWork. A message is a head, which may announce data, and the data. A head is one of: a
health check (`hc`; an unknown request is answered by the same thread in the same way), an end
without data (`fin`), nothing of these (`void`), and with data a fragment that is continued
(`cont`), the last one (`end`), or anything else (`odd`). `Readn` returns what it has when the
connection ends in the middle of a message: data that were cut (`PeerClose`) are taken for
whole, a head that was cut is filled with zeros and is one of the kinds again, or the length in
it makes `new[]` throw (`BadLength`). While a message is incomplete main waits in `read`, where a
signal may interrupt it (`readEintr`). The windows `toAccept` and `toSelect` lie
between the test of a signal flag and the system call, where a signal is
remembered and interrupts nothing. Each handler's `sa_flags` is uninitialised, so that `Interrupt`
lets every signal restart accept and read or end them. After an
interrupted Connect main goes on unconnected, with -1 in `FD_SET`: select fails, or waits for a
signal (`blind`). If the signal of the Work thread has been taken already, it waits for
ever (`Deaf`).

Parsing yields any number of records up to
the bound, or none for a malformed document. A record is put in two steps: the test of `m_close`
and the insertion, which also takes place when the queue is closed meanwhile. `servfd` follows the
number of the listening descriptor after it was closed. `threw` remembers that main left Connect
or ReadWork by an exception, with the Work thread running.

Left out: the counters of requests and other texts that main shows in the alarm system, the failures before
the first Connect, the HC check thread (its Notify does not block and its join
returns: `HcCheck`), and a write of a reply that is interrupted: signals are taken by main.
`DbMax` is positive; the other queues have no bound.

### HcCheck

The unlocked writes of `last_hc_time` and `m_stop` are steps of their own, the
locked signal is another, and so are the test, the computation of the deadline
and the wait of the thread. `MutexFree` says when main may enter. Spurious wake-ups are left out
(`WQueue` has them): here one would end a wait early and raise no alarm. An alarm may be raised
although a health check or a new connection has come after the wait has timed out: nothing is
claimed of that.

### DbWrite

The rows of one construction number, because every statement is restricted to
one; a document whose records carry different ones is left out (the buffer has only the child
number as its key). The initial table is any table. A fault is a failing statement with the
connection open (`ExecuteFails`), a broken connection (`ExecuteBroken`,
`AddBroken`), one that breaks after the server has committed
(`CommitBroken`), a failing log-on (`LogonFails`, also for ever), and a kill. A
record without a construction number, one that is rejected and one that
cancels a work are all among the inputs. File operations retry in the code until
they succeed. `ProcessRecord` is not called by anything and not modelled.

### Reflector, Reflection and BackupArchive

`Reflection` knows the files that wait, the archive, what was reflected and the control time,
but no process. Its steps are: a file is published; some published files are
reflected together, or the manage commands fail and they are overlooked; a waiting
file, reflected or overlooked, is archived; two updates of the control time begin to run side by
side, after which either may undo the other. No order of the files is promised: a scan may miss
one and find a later one. In `Reflector` these are `PublishCsv`,
`UpdateControlTime`, `ManageFails`, `Move` and `MoveLater`, and `HandleSummarizeResult` when it
overlaps; everything else (start, signals, scans, the merged file, failures, kills) is a stutter.

Files are numbers and sort as the code sorts their names; `mv` is atomic. The scan is two steps,
opendir and readdir: what is in the directory from beginning to end is returned, what comes or
goes meanwhile may be. The script reads the control time (`HandleSummarizeResult`) and sets it
(`UpdateControlTime`). `Kill` ends the process alone: each life has a script of its own, which
goes on, and a `mv` that was running is in `moving` and may still take its file, or fail, at any later
time (`MoveLater`). The next life may find a file gone that it has listed (`FileIsGone`). One
alarm object stands for those the records of a file are related to. A failure
takes the code's path: the merged file is deleted, the process exits. One process runs at a time:
that `rtwork_control.sh` may launch two of them (71-77) is in `Monitor`, and what two would do to
one directory is not modelled. SIGTERM
before the loop meets a null pointer, or the mutex of the log (`"hung"`), or works;
inside the loop it is blocked but for `CheckUserStopSignal`. `BackupArchive` adds
the three commands of the nightly script as separate steps.

### LogWatch

A log file is a sequence of line numbers, with 0 for END. `tell` is `tellp()`; a
line has size 1. The clock is not modelled: `newer` says which file was modified
later, and a modification may always fall into the same second as the last one
of the other file, which makes them equal (0). `OpenFile` is the whole of
`RTWLog::OpenFile`; `WriteLog` writes to a file that has room, and
`EndFile`, `OpenOther`, `FirstLine` are the steps of `WriteLog` when `CheckSize`
finds the file full, because the watcher and a kill may come between them.
`file_size` is uninitialised when one file exists and is ended: the stream then
has failed for good, or stands anywhere.

The watcher's `test` and `look` say which of the three conditions of
`GetCurrentLogFile` it evaluates and at which file; `LookAtSize`,
`LookAtLast`, `StatFirst` and `GetNewerFile` are the system calls, each on the files as they are
then (between the last two, both files being modified, the first one last, is left out). `ReadLines` takes
one buffer. If the file is truncated under an open watcher its position in bytes
falls anywhere in the new lines.

Assumed: a line is written and read whole; the buffer of a read that came to
the end of the file reads again (as the C libraries of that time do); `tail`
can be started; assigning to the substring that `CheckEnd` takes of an empty
result does nothing. A system call that fails ends the thread, and with it the monitor
(`Monitor`): here that is a `KillMonitor`.

### Monitor

One life of the monitor, from before `registSigterm` to the end of `main`. A step of `mpc` is a
statement at which something of another thread or a signal matters. SIGTERM and SIGUSR1/2 are
delivered to a thread that does not block them and stay `pending` otherwise; main has SIGTERM
unblocked in `"window"` only, where it sleeps, and a pending signal is delivered before
it goes on. Before `sigprocmask` the signals have their default effect, and between `sigaction`
and `sigprocmask` (`"registered"`) SIGTERM meets a handler without a monitor and is gone. The
mutex of the log belongs to one thread; the handler takes it, as do the watchers in the
middle of a round (`LogRound`). What `pthread_kill(t, 0)` says of a thread that has ended and is
not joined is up to the system: `killTells` is a choice made when the first thread ends. A
cancellation is acted upon at the end of a round, the only place where it is enabled.

The script's two operations are split at their tests (`TestStart`/`Launch`,
`TestStop`/`Kill`/`NotifyMonitor`): starts overlap with everything, also with another start, of
which both then launch. Bound: one call of stop for a process at a time. `asked` and `overtaken`
are histories: pids that were sent SIGTERM, and pids the watcher first saw when the notice of a
stop was still under way, which that notice makes the watcher report as stopping. `fuser` prints the lowest pid first; pids are
not used again. Left out: the content of the report, the time between rounds, the parameter
checks of the script and the order in which `all` starts and stops.

### SnmpTask

`listed` is how far `ReadNodeListConf` has dealt the nodes out to part files; `tasks` and
`results` are the two `Thread::Queue`s. A thread's `tpc` runs from `GetTask` through the
collector it waits for (`OpenFiles`, `OpenSession`, `SessionFails`, `Finish`) to `Unlink`,
`PutResult` and `PutUndef`, two calls of `enqueue` between which another thread may put
its own. Main counts undefs (`marks`), whosever they are. `i` and `j` are `$i` and `$j` of
`CollectMib`: after a session that could not be opened the dispatch of its turn is
skipped, so that more than `MaxHosts` sessions may be open. A missing file is an
empty one: `cat` and `unlink` fail on it, and nobody looks at the answer. A collector dies before
its first session; one that is killed later would lose what it has not flushed.

The control may be killed and started again: the part files stay. Its collectors are taken
to die with it, and two controls at a time are not modelled (nothing in the code keeps them apart).
The three other collectors of the directory are not called by the control.

## 3. Runs

| Run | Bounds | States | Shows |
|---|---|---|---|
| `wqueue` | 2 places, 6 calls of Put | 590 | the queue is a channel; no wake-up, no item and no bound is lost; Cancel ends the thread |
| `wqueue_spurious` | the same, spurious wake-ups | – | violation: Get takes from an empty open queue |
| `receiver` | 2 fragments, 2 connections, 1 record and its end flag, DB queue of 1, 2 SIGTERMs, accept may fail | 555 000 | documents, batches, replies, drained exit; SIGTERM ends the process or leaves it deaf |
| `receiver_close` | 1 document, 2 connections | – | violation: the second close hits a descriptor of another thread |
| `hccheck` | timeout 2, clock to 5, 4 calls | 32 500 | a lasting silence raises the alarm; no sleep to an old deadline; Cancel ends the thread |
| `dbwrite` | 2 children, 2 nodes, 2 dates, 2 records, 2 faults, 2 tries | 671 000 | whole commits, reports owed and published, no transaction left open, the thread returns |
| `reflector` | 2 files, 2 times, 2 faults | 179 000 | the process implements `Reflection`; nothing unreflected is moved, control times, stop, every file ends in the backup |
| `archive` | 2 files | – | violation: a file is removed that no archive holds |
| `logwatch` | 2 lines a file, 8 lines, 2 faults | 204 000 | one current file, analysed once and in order, newest line kept, current file found and followed unless END was skipped |
| `logwatch_stuck` | 2 lines a file, 3 lines | – | violation: the watcher skips END and stays on the ended file |
| `monitor` | 1 process with its log, 2 starts, 1 fault | 299 000 | stopping is true unless overtaken, no thread is left behind, the monitor ends, lasting states are reported |
| `snmp` | 5 nodes, 2 threads, 2 sessions a dispatch, 2 faults | 627 000 | the output is complete, parts stay apart, no session is forgotten, the control ends |

Why the bounds are enough. `wqueue`: two places are empty, partly full and full;
six items fill and drain them several times, and Close falls into every phase;
the proofs cover all other sizes. `receiver`: two connections are needed for a
fragment of the first to meet the second, two fragments for a document of two,
a record and its end flag with one place for the Work thread to block in the middle of a batch
while main shuts down; two signals because the second falls
on a flag that was already handled. The proofs cover every number of each. `hccheck`: a timeout of two ticks leaves room for a
health check before, in and after the tick of the deadline. `dbwrite`: two
children distinguish a row that is in the document from one that is not; two
faults allow a commit that failed ambiguously to be followed by another
failure. `reflector`: of two files one may arrive in each of the phases of a round, the scan
included, and be missed, alone or with the other; two faults are a failure and a kill, or two kills with two
scripts left behind beside a third. The safety properties are proved for every number.

`logwatch`: eight lines turn the log three
times, so that a file is begun anew under a watcher that has it open, twice; two
faults allow a kill in the middle of a turn and a restart of the monitor, or two kills.
`KeepsNewestLine` names two exceptions, and without either TLC finds the
behaviour in which the newest lines are discarded: two ended files of one second, of which
`OpenFile` always begins the second anew (line 104), and an uninitialised
`file_size` beyond the limit (lines 142-147, 156-162), after which END goes into the empty
file and the turn truncates the only one with lines. The lines a
watcher misses are not bounded by any property: a line that is written before
the watcher has opened the new file is skipped by the seek (line 250).

`monitor`: one process has two threads, the process watcher and the watcher of its log, so that
one may fail while the other holds the mutex; two pids are two instances of a process
that is started again or twice; one fault ends a watcher, loses a report or fails a start. The two
safety properties are proved for every number of processes, and the two liveness properties concern each
process and each thread separately, but for main's order of joins. `snmp`: five nodes are parts of three and two, which with two sessions a
dispatch leaves the last dispatch one and none; two threads mix
their results; two faults allow a kill, and in the next run a collector that dies, or two
sessions that cannot be opened.

The type invariants are not among the properties of the runs: they are proved (section 4).

The four violations are disagreements between the code and what its own
comments say; PROJECT.json quotes them under `findings`.

Some properties exempt a state by name. An exemption is a behaviour of the code that the model
has, not one it leaves out, and without it TLC finds the property violated:

* `Deaf` in `TermEndsTheProcess`: main sits in `select` with a descriptor of -1 and no signal is
  left that would wake it. SIGTERM was taken as the restart of an earlier call.
* the overlap of two scripts, in `ControlTimeIsEarliest` and `Reflection`: a script that a kill
  left behind sets a control time that it read before the next script set an earlier one, and
  so raises it again.
* `overtaken` in `StoppingIsTrue`: a late notice of a stop makes a new instance `stopping`,
  for its whole life. `LastingStatusIsReported` exempts only such an instance, and a process whose last report
  was lost.
* `cut` in `ResultsArePublished`: a commit whose answer was lost, and a crash between the commit
  and the rename, lose the report of what was changed.
* `killed` and `died` in `OutputIsComplete`: part files of an earlier run are dealt out again, or
  taken for those of a collector that died.
* `EndIsSkipped` in `LiveFileIsFound`: the watcher opened the file behind its END.

### Fairness

* `WQueue`: a call that has begun goes on and the consumer's loop goes on (threads are
  scheduled). Put and Cancel need not be called.
* `Receiver`: each thread runs (weak) and system calls return, but a select without a connection
  may wait for ever (`blind` has no step of its own). The reply of the Work thread needs strong
  fairness of the mutex, which the HC thread releases between health checks. The
  client connects again, finishes what it began to send, and goes on
  with its health checks (select has no timeout, and a signal that falls
  into the window before it is noticed at the next byte). It sends the data it has announced. No fairness on SIGTERM, on
  breaking connections, on new work.
* `HcCheck`: time passes, the thread runs, main finishes a call it has begun.
* `LogWatch`: the watcher's thread runs; a write that has begun goes on. The process
  need not write, nor be started again after a kill.
* `Monitor`: main and the process watcher get the log's mutex in the end (strong: the
  other threads hold it for the time of a line and leave it free between them), a log watcher
  goes on with its round (weak). Nobody need call the script and no process need end.
* `SnmpTask`: main and each thread run, and a collector ends, because its sessions time out.
* `DbWrite`: the thread runs; the database may fail for ever.
* `Reflector`: the process runs and is started again when it has ended, as its
  operators do; the script of each life ends, because the manage commands do. A `mv` that was left
  behind need not end. Faults are bounded by `MaxFaults`.

## 4. Proofs

`WQueueProofs` holds for every `Max` and `MaxPuts`:

* `TypeCorrect`, `QueueBounded`, `WakeupsKept`, `LossBounded`, `NullOnlyWhenClosed`:
  the invariants that `wqueue` checks. None of them is inductive alone. `IInv`
  adds what ties the threads to the counter: a consumer waits only on an empty
  open queue and a producer only on a full one whose consumer runs, a woken
  consumer has an item or a closed queue to find, and a woken producer has room. The last is the heart
  of it: with one producer nobody fills the place between signal and wake-up, so
  that inserting without a second test keeps the bound.
* `QueueIsAChannel`: the initial states map to initial states and every step to a
  step of `Channel` or a stutter, from `IInv` and `Fifo`.

`HcCheckProofs` holds for every `Timeout`, `MaxTime` and `MaxCalls`:
`SleepStaysCurrent` from an invariant that relates where main is in its
unlocked writes to where the thread is between its test and its wait.

`ReceiverProofs` holds for every queue size and number of records, messages, connections
and signals. `RepliesReachTheClient` follows from the mutex alone. `NothingIsLeftAtExit` and
`BatchesHoldOneDocument` need `BInv`: the buffer of the DB thread, its queue and the record
the Work thread is about to put are, in this order, the beginning of one document, followed by at most whole ones
(`Buffered`, `Queued`, `Handed`), and the shutdown visits the queues in the order in which they
feed each other (`ShutDown`). An exception leaves the Work thread putting records into a queue that is
closed under it: at most the record it was about to insert still follows the last one (`LastPut`,
`Handed`), so that batches stay whole; that nothing is left at exit is claimed only without an exception.
`DocumentsAreOfOneConnection` needs `DInv`: what is buffered
or passed on is in sequence, what is on the wire is newer than it, and data that were cut are the
last thing on a wire that has ended (`CutIsLast`).

`DbWriteProofs` holds for every set of children, nodes and dates and every number of tries and
faults: `IInv` says how far the loop over the children has changed the
session at each step (`Loops`), that the session is the table outside a transaction
(`Closed`), and that the file under construction is part of what a commit owes (`Owes`).

`ReflectorProofs`, for every number of files, times and kills: `PInv` says where the files of a
round are (`Where`, `Round`): in the input directory until the move comes to them, unless a `mv`
that was left behind takes them, and known to a script that has ended by then; from it
`NothingIsMovedUnreflected` and `NoFileTwice`. `ControlTimeEarliest` needs what the scripts of
all lives have in hand: the time one will set is that of a record it holds (`SetsARecord`), and what
it has read is still the control time while nobody else reads (`ReadsAlone`); `MinOfUnion` says that
lowering a minimum by a set gives the minimum of both. `ReflectorReflects`, that every step is one of
`Reflection` or a stutter, follows from both.

`LogWatchProofs` holds for every file size, number of lines and faults. `WInv` is about the
process that logs: it writes to a file that is not ended while the other is, and the first file is
created first; `OneLogIsCurrent` follows. `LinesInOrderOnce` needs `SInv`: the watcher
begins a file at its top only after a failed round through its three conditions, in which it saw each file
either empty or ended, so that a file it then takes to be live holds only lines that are newer than all
it has analysed. `NewestLineKept` needs `Turns`: a live file
dominates the other, and of two ended files the newer one does.

`MonitorProofs` holds for every number of processes, starts and faults:
`NoThreadLeftBehind`, by where `StopMonitor` is in its list of threads, and
`StoppingReportsAreTrue`, from an invariant that follows a notice from the script through the pending signal and the watcher's
flag to its status (`Honest`).

`SnmpTaskProofs` holds for every number of nodes, threads and sessions: `PartsStayApart`,
because a part is in the task queue once and never while a thread works on it, and
`NoSessionForgotten`, from the arithmetic of `$i`, `$j` and `MaxHosts` (`Own`).
`OutputComplete` says that the output of a control that ends is what the collectors gathered.
Its invariant has three parts. `Flow` follows a part: not begun, with a collector, with a thread that
is through with it, or in the result queue, and in one place only. `Marking` is why main does
not stop too early, although it does not look whose undef it takes: there are never more undefs,
taken, queued or about to be sent, than parts gone through, and behind every queued result
there is an undef still to come or in the queue; so when main has taken one for every thread, every
part has gone through and no result is queued. `Books` keeps, for each node, the occurrences in the
output and in its part file together equal to what was gathered (at least, when a collector
died), at most one unless a run was killed, and one when the part is through and all its
sessions could be opened. Both count occurrences, and the lemmas `CountCat` to
`CountTail` say what appending and taking do to a count.

Every module with a proof module has its `TypeOK` proved there.

Assumptions are only those on the constants, each named in its module (`MaxAssumption`,
`MaxPutsAssumption`, `HcCheckAssumption`, `ReceiverAssumption`, `DbWriteAssumption`,
`ReflectorAssumption`, `LogWatchAssumption`, `MonitorAssumption`, `SnmpAssumption`): the bounds
are natural numbers, those a process needs at least one of are positive, and the values that stand for "no
node", "no date" and the open end are none of the real ones.

Only model-checked: all liveness (the prover has neither fairness nor ENABLED). Every
invariant and every other temporal property of the passing runs is a theorem.

## 5. Plan

Done: the queue, the receive process, the timer, the DB thread, the reflect process, the log with
its watcher, the monitor with the control script and the SNMP tool, each with proofs; the
archive script. What is left, in this order:

1. `Pipeline`: receive, reflect and archive over the shared directories, with an
   abstract specification in which a committed end of a work reaches the alarm
   object. The parts are linked by argument now: `Receiver` hands whole batches on,
   `DbWrite` publishes what they change, `Reflector` reflects what is published.
2. The order in which `rtwork_control.sh all` starts and stops, with a process that does not.

## 6. Not modelled

* Circuit discovery (`circuit_discovery.plsql`): a sequential walk over the tables of an inventory that are not
  in the repository. What a step may meet (facility types, channel layouts, store
  points) is only in their data, so that a model would have to invent the inputs its properties
  turn on.
* Configuration, which is read once and appears as constants. Text conversions (`CstNode`, `CstUtil`, `WCoder`), the
  commands of `AoSender` and the cleaning scripts keep no state.
* `otlv4.h` is a vendored template library; its calls appear as the faults of `DbWrite`. It is by far
  the longest source file: of the rest, which is the program's own code, two fifths of the lines are mapped.
* The number in the length fields of messages (`WSocket.cxx:355`; that it may be negative is in
  `Receiver`), the replies' text and the names of files are abstracted.
* Six hazards are listed in PROJECT.json with a note instead of a property: most are what
  nothing in the code prevents and no text of the repository promises, and a property can only exempt by
  name (a crash between commit and rename, a lost report, a swallowed SIGTERM).
