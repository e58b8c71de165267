------------------------------ MODULE SnmpTask ------------------------------
(***************************************************************************)
(* The SNMP collection (src/snmp_thread_tool): snmp_task_control.pl deals  *)
(* the nodes of its list out to part files, and its threads take the parts *)
(* from a task queue and run one collector process                         *)
(* (multi_snmp_mib_collect.pl) for each; main appends what they collected  *)
(* to the output file.  Thread::Queue is an unbounded FIFO whose dequeue   *)
(* blocks.  A file that does not exist is an empty one: cat and unlink of  *)
(* a missing file fail and are not looked at.                              *)
(***************************************************************************)
EXTENDS Naturals, Sequences, FiniteSets

CONSTANTS NumNodes,      \* nodes in get_node_list.conf
          MaxThreads,    \* option -t
          MaxHosts,      \* option -h
          MaxFaults      \* bound: kills, dying collectors, sessions not opened

ASSUME SnmpAssumption ==
    NumNodes \in Nat /\ MaxThreads \in Nat \ {0} /\ MaxHosts \in Nat \ {0} /\ MaxFaults \in Nat

VARIABLES cpc,          \* main of the control
          listed,       \* lines of the node list dealt out
          tasks, results,
          marks,        \* undefs main has taken from the results
          output,
          partNodes,    \* [Parts -> the part file of nodes]
          partMib,      \* [Parts -> the part file a collector writes]
          tpc, task,    \* [Workers -> the thread, and the part it has taken]
          i, j,         \* [Workers -> $i and $j of CollectMib]
          open,         \* [Workers -> sessions opened and not yet exchanged]
          gathered,     \* history: nodes exchanged for the present output file
          killed, unopened, died,     \* history of the faults: the control was
                        \*   killed; parts of a collector that could not open a
                        \*   session, and of one that died
          faults

control   == <<cpc, listed, marks, output>>
collector == <<i, j, open>>
history   == <<gathered, killed, unopened, died, faults>>
vars      == <<control, tasks, results, partNodes, partMib, tpc, task, collector, history>>

Nodes   == 1..NumNodes
(* $THREADS, after "$THREADS = $i if $i < $THREADS".                       *)
NumThreads == IF NumNodes < MaxThreads THEN NumNodes ELSE MaxThreads
Parts   == 1..NumThreads
Workers == 1..NumThreads
Undef   == 0

Init == /\ cpc = "list" /\ listed = 0 /\ marks = 0 /\ output = <<>>
        /\ tasks = <<>> /\ results = <<>>
        /\ partNodes = [p \in Parts |-> <<>>] /\ partMib = [p \in Parts |-> <<>>]
        /\ tpc = [t \in Workers |-> "none"] /\ task = [t \in Workers |-> Undef]
        /\ i = [t \in Workers |-> 0] /\ j = [t \in Workers |-> 0]
        /\ open = [t \in Workers |-> <<>>]
        /\ gathered = <<>> /\ killed = FALSE /\ unopened = {} /\ died = {} /\ faults = 0

Fault == faults < MaxFaults /\ faults' = faults + 1

------------------------------------------------------------------------------
(* Main of the control.                                                    *)

(* ReadNodeListConf: `echo line >> part'.                                  *)
PartOf(n) == ((n - 1) % MaxThreads) + 1

ListNode == /\ cpc = "list" /\ listed < NumNodes
            /\ listed' = listed + 1
            /\ partNodes' = [partNodes EXCEPT ![PartOf(listed + 1)] = Append(@, listed + 1)]
            /\ UNCHANGED <<cpc, marks, output, tasks, results, partMib, tpc, task, collector,
                           history>>

OneTooFew == [k \in 1..(2 * NumThreads - 1) |-> IF k \in Parts THEN k ELSE Undef]  \* mutant
TaskPerLine ==                          \* mutant: enqueued in the loop that reads the list
    [k \in 1..(NumNodes + NumThreads) |-> IF k \in Nodes THEN PartOf(k) ELSE Undef]
TaskList == [k \in 1..(2 * NumThreads) |-> IF k \in Parts THEN k ELSE Undef]

(* The tasks, an undef for every thread, and the threads.                  *)
StartThreads == /\ cpc = "list" /\ listed = NumNodes
                /\ tasks' = TaskList
                /\ tpc' = [t \in Workers |-> "get"]
                /\ cpc' = "main"
                /\ UNCHANGED <<listed, marks, output, results, partNodes, partMib, task,
                               collector, history>>

FirstMark == marks > 0                  \* mutant: the outer for loop is missing
AllMarks  == marks = NumThreads

(* RunThreads: `cat part >> output' and unlink for a result, and the next  *)
(* turn of the outer loop for an undef, whichever thread it is from.       *)
TakeResult == /\ cpc = "main" /\ ~AllMarks /\ results # <<>>
              /\ results' = Tail(results)
              /\ IF Head(results) = Undef
                 THEN marks' = marks + 1 /\ UNCHANGED <<output, partMib>>
                 ELSE /\ output' = output \o partMib[Head(results)]
                      /\ partMib' = [partMib EXCEPT ![Head(results)] = <<>>]
                      /\ UNCHANGED marks
              /\ UNCHANGED <<cpc, listed, tasks, partNodes, tpc, task, collector, history>>

Join == /\ cpc = "main" /\ AllMarks /\ \A t \in Workers : tpc[t] = "end"
        /\ cpc' = "end"
        /\ UNCHANGED <<listed, marks, output, tasks, results, partNodes, partMib, tpc, task,
                       collector, history>>

Main == ListNode \/ StartThreads \/ TakeResult \/ Join

------------------------------------------------------------------------------
(* SnmpThread.                                                             *)

At(t, from)   == tpc[t] = from
Goes(t, from, to) == At(t, from) /\ tpc' = [tpc EXCEPT ![t] = to]

GetTask(t) == /\ tasks # <<>>
              /\ Goes(t, "get", IF Head(tasks) = Undef THEN "end" ELSE "start")
              /\ task' = [task EXCEPT ![t] = Head(tasks)]
              /\ tasks' = Tail(tasks)
              /\ UNCHANGED <<control, results, partNodes, partMib, collector, history>>

(* The collector has ended: the thread removes the part of the nodes.      *)
Unlink(t) == /\ Goes(t, "unlink", "result")
             /\ partNodes' = [partNodes EXCEPT ![task[t]] = <<>>]
             /\ UNCHANGED <<control, tasks, results, partMib, task, collector, history>>

(* The result and the undef are two calls of enqueue.                      *)
PutResult(t) == /\ Goes(t, "result", "undef")
                /\ results' = Append(results, task[t])
                /\ UNCHANGED <<control, tasks, partNodes, partMib, task, collector, history>>

PutUndef(t) == /\ Goes(t, "undef", "get")
               /\ results' = Append(results, Undef)
               /\ UNCHANGED <<control, tasks, partNodes, partMib, task, collector, history>>

------------------------------------------------------------------------------
(* The collector that thread t waits for in system().                      *)

(* Truncates its output file; reads nodes, names from the database.        *)
OpenFiles(t) == /\ Goes(t, "start", "collect")
                /\ partMib' = [partMib EXCEPT ![task[t]] = <<>>]
                /\ i' = [i EXCEPT ![t] = 0] /\ j' = [j EXCEPT ![t] = 0]
                /\ open' = [open EXCEPT ![t] = <<>>]
                /\ UNCHANGED <<control, tasks, results, partNodes, task, history>>

(* It dies before it truncates its output file (no OID list) or after it   *)
(* (no database).  The thread ignores the exit code.  (Left out: it is     *)
(* killed between its sessions, and what it has not flushed is lost.)      *)
CollectorDies(t) == /\ Goes(t, "start", "unlink") /\ Fault
                    /\ partMib' \in {partMib, [partMib EXCEPT ![task[t]] = <<>>]}
                    /\ died' = died \cup {task[t]}
                    /\ UNCHANGED <<control, tasks, results, partNodes, task, collector,
                                   gathered, killed, unopened>>

MyNodes(t) == partNodes[task[t]]

(* snmp_dispatcher runs the sessions that are open; what each node answers *)
(* or does not is a line of the output.                                    *)
Dispatch(t, sessions) ==
    /\ partMib' = [partMib EXCEPT ![task[t]] = @ \o sessions]
    /\ gathered' = gathered \o sessions
    /\ open' = [open EXCEPT ![t] = <<>>]

OpenSession(t) ==
    /\ At(t, "collect") /\ i[t] < Len(MyNodes(t))
    /\ i' = [i EXCEPT ![t] = @ + 1]
    /\ LET sessions == Append(open[t], MyNodes(t)[i[t] + 1])
       IN IF (i[t] + 1) % MaxHosts = 0
          THEN Dispatch(t, sessions) /\ j' = [j EXCEPT ![t] = @ + MaxHosts]
          ELSE open' = [open EXCEPT ![t] = sessions] /\ UNCHANGED <<partMib, gathered, j>>
    /\ UNCHANGED <<control, tasks, results, partNodes, tpc, task, killed, unopened, died,
                   faults>>

(* "next": the count goes on, and its dispatch is skipped.                 *)
SessionFails(t) ==
    /\ At(t, "collect") /\ i[t] < Len(MyNodes(t)) /\ Fault
    /\ i' = [i EXCEPT ![t] = @ + 1]
    /\ unopened' = unopened \cup {task[t]}
    /\ UNCHANGED <<control, tasks, results, partNodes, partMib, tpc, task, j, open,
                   gathered, killed, died>>

LastIsNoMultiple(t) == Len(MyNodes(t)) % MaxHosts # 0    \* mutant: j is not counted
SessionsLeft(t) == j[t] < Len(MyNodes(t))

(* The last dispatch.                                                      *)
Finish(t) == /\ Goes(t, "collect", "unlink") /\ i[t] = Len(MyNodes(t))
             /\ IF SessionsLeft(t) THEN Dispatch(t, open[t])
                                   ELSE UNCHANGED <<partMib, gathered, open>>
             /\ UNCHANGED <<control, tasks, results, partNodes, task, i, j, killed, unopened,
                            died, faults>>

Thread(t) == \/ GetTask(t) \/ Unlink(t) \/ PutResult(t) \/ PutUndef(t)
             \/ OpenFiles(t) \/ OpenSession(t) \/ Finish(t)

------------------------------------------------------------------------------
(* The control and its collectors are killed and started again: the part   *)
(* files stay, and the next run appends to those of the nodes.             *)
KillAndRestart ==
    /\ cpc # "end" /\ Fault
    /\ killed' = TRUE
    /\ cpc' = "list" /\ listed' = 0 /\ marks' = 0 /\ output' = <<>>
    /\ tasks' = <<>> /\ results' = <<>>
    /\ tpc' = [t \in Workers |-> "none"] /\ task' = [t \in Workers |-> Undef]
    /\ open' = [t \in Workers |-> <<>>]
    /\ gathered' = <<>> /\ unopened' = {} /\ died' = {}
    /\ UNCHANGED <<partNodes, partMib, i, j>>

Failure == KillAndRestart \/ \E t \in Workers : CollectorDies(t) \/ SessionFails(t)

Ended == cpc = "end" /\ UNCHANGED vars

Next == Main \/ (\E t \in Workers : Thread(t)) \/ Failure \/ Ended

Spec == Init /\ [][Next]_vars

(* Main and the threads run, and a collector ends: its sessions time out.  *)
Fairness == WF_vars(Main) /\ \A t \in Workers : WF_vars(Thread(t))

FairSpec == Spec /\ Fairness

------------------------------------------------------------------------------
TypeOK ==
    /\ cpc \in {"list", "main", "end"} /\ listed \in 0..NumNodes /\ marks \in Nat
    /\ output \in Seq(Nodes) /\ gathered \in Seq(Nodes)
    /\ tasks \in Seq(Parts \cup {Undef}) /\ results \in Seq(Parts \cup {Undef})
    /\ partNodes \in [Parts -> Seq(Nodes)] /\ partMib \in [Parts -> Seq(Nodes)]
    /\ tpc \in [Workers -> {"none", "get", "start", "collect", "unlink", "result", "undef",
                        "end"}]
    /\ task \in [Workers -> Parts \cup {Undef}]
    /\ i \in [Workers -> Nat] /\ j \in [Workers -> Nat] /\ open \in [Workers -> Seq(Nodes)]
    /\ killed \in BOOLEAN /\ unopened \subseteq Parts /\ died \subseteq Parts
    /\ faults \in 0..MaxFaults

Count(s, n) == Cardinality({k \in DOMAIN s : s[k] = n})

(* When the control ends, the output holds what its collectors gathered:   *)
(* main has met every result although results and undefs of several        *)
(* threads mix in the queue (snmp_task_control.pl:136-144, 160-161), and   *)
(* appended nothing of an earlier run, unless a collector died before it   *)
(* truncated its file.  A node is there once unless a killed run left its  *)
(* part of the nodes behind.                                               *)
OutputIsComplete ==
    cpc = "end" => /\ \A n \in Nodes : /\ Count(output, n) >= Count(gathered, n)
                                       /\ died = {} => Count(output, n) = Count(gathered, n)
                                       /\ ~killed => Count(output, n) <= 1
                   /\ died \cup unopened = {} => \A n \in Nodes : Count(output, n) >= 1

(* A collector leaves no session without its exchange, although a failing  *)
(* session skips the dispatch of its turn                                  *)
(* (multi_snmp_mib_collect.pl:196-200, 209-223), and has fewer than        *)
(* MaxHosts sessions open between two dispatches, unless one was skipped.  *)
SessionsAreExchanged ==
    \A t \in Workers : /\ tpc[t] \in {"unlink", "result", "undef"} => open[t] = <<>>
                       /\ task[t] \notin unopened => Len(open[t]) < MaxHosts

Working(t) == tpc[t] \in {"start", "collect", "unlink", "result"}

(* Two threads never work on the same part: their collectors would write   *)
(* the same file (snmp_task_control.pl:155-158).                           *)
PartsAreApart ==
    \A t, u \in Workers :
        t # u /\ Working(t) /\ Working(u) => task[t] # task[u]

(* The control ends: every thread finds an undef, and main one per task.   *)
ControlEnds == <>(cpc = "end")
=============================================================================
